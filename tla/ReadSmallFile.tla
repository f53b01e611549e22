---------------------------- MODULE ReadSmallFile ----------------------------
(***************************************************************************)
(* base/FileUtil.cpp, ReadSmallFile, by which ProcessInfo reads /proc: a   *)
(* file read in chunks of kBufferSize into a string, or once into the      *)
(* object's buffer, while others append to it.  A read may return less     *)
(* than it was asked for, or fail.  Each system call is a step; the two    *)
(* readers may be called again on the same object.                         *)
(***************************************************************************)
EXTENDS Integers, Sequences, SequencesExt

CONSTANTS
    kBufferSize,        \* bytes of buf_
    MaxSizes,           \* values of the argument maxSize
    MaxFile,            \* bound: bytes in the file, the i-th of which is i
    MaxCalls            \* bound: calls of the readers

VARIABLES
    kind,               \* what the name stands for
    length,             \* bytes in the file
    offset,             \* the descriptor's position
    buf_, nul,          \* bytes the last read put into buf_, and where its last NUL is
    rpc,                \* where the running call is
    content, fileSize,  \* *content, and *fileSize or -1
    err_, err,          \* err is what readToString() returns
    call                \* maxSize, and history: start and length when the call began

vars == <<kind, length, offset, buf_, nul, rpc, content, fileSize, err_, err, call>>

Bytes(from, to) == [i \in 1..(to - from) |-> from + i]
Smaller(a, b) == IF a < b THEN a ELSE b

Init ==
    /\ kind \in {"missing", "regular", "directory"}
    /\ length = 0 /\ offset = 0
    /\ buf_ = <<>> /\ nul = 0
    /\ rpc = "new"
    /\ content = <<>> /\ fileSize = -1
    /\ err_ = "none" /\ err = "none"
    /\ call = [n |-> 0, max |-> 0, start |-> 0, length |-> 0]

(* Another process appends to the file. *)
Grow ==
    /\ kind = "regular"
    /\ length < MaxFile
    /\ length' = length + 1
    /\ UNCHANGED <<kind, offset, buf_, nul, rpc, content, fileSize, err_, err, call>>

(* The constructor. *)
Open ==
    /\ rpc = "new"
    /\ rpc' = "done"
    /\ err_' = IF kind = "missing" THEN "ENOENT" ELSE "none"
    /\ UNCHANGED <<kind, length, offset, buf_, nul, content, fileSize, err, call>>

opened == err_ = "none"

MayCall == rpc = "done" /\ call.n < MaxCalls

(* readToString(max, content, &fileSize or NULL): without a descriptor     *)
(* content is left alone.                                                  *)
readToString(max, wantSize) ==
    /\ MayCall
    /\ call' = [n |-> call.n + 1, max |-> max, start |-> offset, length |-> length]
    /\ err' = err_
    /\ content' = IF opened THEN <<>> ELSE content
    /\ fileSize' = -1
    /\ rpc' = IF ~opened THEN "done" ELSE IF wantSize THEN "stat" ELSE "read"
    /\ UNCHANGED <<kind, length, offset, buf_, nul, err_>>

Stat(ok) ==
    /\ rpc = "stat"
    /\ rpc' = "read"
    /\ fileSize' = IF ok /\ kind = "regular" THEN length ELSE fileSize
    /\ err' = IF ~ok THEN "EIO" ELSE IF kind = "directory" THEN "EISDIR" ELSE err
    /\ UNCHANGED <<kind, length, offset, buf_, nul, content, err_, call>>

toRead == Smaller(call.max - Len(content), kBufferSize)

(* Mutant: a short read is taken for the end of the file. *)
ReadUntilShort ==
    /\ rpc = "read" /\ kind = "regular"
    /\ \E n \in 1..Smaller(toRead, length - offset) :
         /\ buf_' = Bytes(offset, offset + n)
         /\ offset' = offset + n
         /\ rpc' = IF n < toRead THEN "done" ELSE rpc
    /\ content' = content \o buf_'
    /\ UNCHANGED <<kind, length, nul, fileSize, err_, err, call>>

(* One turn of the loop that reads something; none when nothing is wanted. *)
Read ==
    /\ rpc = "read" /\ kind = "regular"
    /\ \E n \in 1..Smaller(toRead, length - offset) :
         /\ buf_' = Bytes(offset, offset + n)
         /\ offset' = offset + n
    /\ content' = content \o buf_'
    /\ UNCHANGED <<kind, length, nul, rpc, fileSize, err_, err, call>>

(* read() fails, as it does on a directory; or finds the end of the file;  *)
(* or content is as long as it may be.                                     *)
ReadEnds ==
    /\ rpc = "read"
    /\ \/ toRead > 0 /\ err' = IF kind = "directory" THEN "EISDIR" ELSE "EIO"
       \/ kind = "regular" /\ offset = length /\ UNCHANGED err
       \/ toRead = 0 /\ UNCHANGED err
    /\ rpc' = "done"
    /\ UNCHANGED <<kind, length, offset, buf_, nul, content, fileSize, err_, call>>

(* readToBuffer(): one pread of at most kBufferSize - 1 bytes from the     *)
(* beginning, which leaves the position alone, and a NUL behind them; or   *)
(* nothing but an error for the caller.                                    *)
readToBuffer ==
    /\ MayCall
    /\ call' = [call EXCEPT !.n = @ + 1]
    /\ \/ /\ opened /\ kind = "regular"
          /\ \E n \in 0..Smaller(kBufferSize - 1, length) : buf_' = Bytes(0, n) /\ nul' = n
       \/ UNCHANGED <<buf_, nul>>
    /\ UNCHANGED <<kind, length, offset, rpc, content, fileSize, err_, err>>

Next ==
    \/ Grow \/ Open
    \/ \E max \in MaxSizes, wantSize \in BOOLEAN : readToString(max, wantSize)
    \/ \E ok \in BOOLEAN : Stat(ok)
    \/ Read \/ ReadEnds
    \/ readToBuffer

-----------------------------------------------------------------------------
(***************************************************************************)
(* A readToString() without error returns the bytes from the descriptor's  *)
(* position on, in order and without a gap, and all the file had when it   *)
(* was called, up to maxSize, however the reads were cut and the file has  *)
(* grown; content never exceeds maxSize, and nothing is written behind     *)
(* buf_, the NUL of readToBuffer() included.                               *)
(***************************************************************************)
ReadsWhole ==
    /\ (opened /\ content # <<>>) => content = Bytes(call.start, call.start + Len(content))
    /\ (rpc = "done" /\ opened /\ err = "none") =>
          Len(content) >= Smaller(call.max, call.length - call.start)
    /\ Len(content) <= call.max
    /\ Len(buf_) <= kBufferSize /\ nul < kBufferSize
=============================================================================

------------------------------- MODULE LogFile -------------------------------
(***************************************************************************)
(* base/LogFile.cpp on base/FileUtil.cpp's AppendFile: log lines appended  *)
(* to a file that is rolled by size and by period and flushed now and      *)
(* then.  append() and flush() run under mutex_ (or in one thread), so     *)
(* each is one step.  A file is named by the second it was opened in       *)
(* (getLogFileName; host name and pid do not change), so disk maps seconds *)
(* to contents; a line is its number and the second it was appended in.    *)
(***************************************************************************)
EXTENDS Integers, Sequences, SequencesExt

CONSTANTS
    rollSize_,          \* bytes after which the file is rolled
    flushInterval_,     \* seconds between two flushes by append()
    checkEveryN_,       \* lines between two looks at the clock
    kRollPerSeconds_,   \* length of a period (a day in the code)
    Lens,               \* lengths of the lines
    MaxTime,            \* bound: seconds of the clock
    MaxLines,           \* bound: calls of append()
    MaxJumps,           \* bound: times the clock is set back
    MaxFailures         \* bound: calls in which a write fails

VARIABLES
    now,                \* what time(NULL) returns
    count_, startOfPeriod_, lastRoll_, lastFlush_,
    writtenBytes_,      \* file_->writtenBytes_
    buffer,             \* lines in file_'s buffer_, not yet written
    disk,               \* lines written, per file
    alive,              \* the process has not crashed
    calls,              \* history: calls of append()
    lastAppend,         \* history: second of the last append()
    late,               \* history: lines of a later period put into file_
    overdue,            \* history: appends since a buffered line is overdue
    failures,           \* history: calls in which a write has failed
    jumps

fileVars == <<writtenBytes_, buffer, disk>>
logVars == <<count_, startOfPeriod_, lastRoll_, lastFlush_, fileVars>>
history == <<calls, lastAppend, late, overdue, failures>>
vars == <<now, logVars, alive, history, jumps>>

Times == 1..MaxTime
FileNames == Times      \* host name and pid are the same in all of them
Line == [id : 1..MaxLines, at : Times]

TypeOK ==
    /\ now \in Times
    /\ count_ \in 0..(checkEveryN_ - 1)
    /\ lastRoll_ \in Times /\ lastFlush_ \in Times
    /\ startOfPeriod_ \in 0..MaxTime
    /\ writtenBytes_ \in Nat
    /\ buffer \in Seq(Line)
    /\ disk \in [FileNames -> Seq(Line)]
    /\ alive \in BOOLEAN
    /\ calls \in 0..MaxLines
    /\ lastAppend \in 0..MaxTime
    /\ late \in 0..MaxLines /\ overdue \in 0..MaxLines
    /\ failures \in 0..MaxFailures
    /\ jumps \in 0..MaxJumps

Period(t) == (t \div kRollPerSeconds_) * kRollPerSeconds_

(* The constructor's rollFile(): lastRoll_ is 0, so it opens a file.       *)
Init ==
    /\ now \in Times
    /\ count_ = 0
    /\ startOfPeriod_ = Period(now)
    /\ lastRoll_ = now /\ lastFlush_ = now
    /\ writtenBytes_ = 0
    /\ buffer = <<>>
    /\ disk = [f \in FileNames |-> <<>>]
    /\ alive = TRUE
    /\ calls = 0 /\ lastAppend = 0 /\ late = 0 /\ overdue = 0
    /\ failures = 0 /\ jumps = 0

-----------------------------------------------------------------------------
(* The file that is open: the one named by the last roll. *)
Written(d, lines) == [d EXCEPT ![lastRoll_] = @ \o lines]

(* What fflush() and fclose(), of which the code looks at no result, may   *)
(* write of the lines buffered: all of them, if no write fails (ok), else  *)
(* some, and stdio drops the rest.                                         *)
Drained(lines, ok) ==
    {SubSeq(lines, 1, n) : n \in IF ok THEN {Len(lines)} ELSE 0..Len(lines)}

(* file_.reset(new AppendFile): an empty file; the old one is closed and   *)
(* writes what it buffers.                                                 *)
Reopen(d, lines, ok) ==
    /\ \E written \in Drained(lines, ok) : disk' = Written(d, written)
    /\ buffer' = <<>>
    /\ writtenBytes_' = 0

(* The file is kept: what is on disk, buffered and counted. *)
Keep(d, lines, bytes) == disk' = d /\ buffer' = lines /\ writtenBytes_' = bytes

periodVars == <<startOfPeriod_, lastRoll_, lastFlush_>>

(* Mutant: the clock is not compared with the last roll. *)
rollFileAnyTime(d, lines, bytes, ok) ==
    /\ startOfPeriod_' = Period(now)
    /\ lastRoll_' = now /\ lastFlush_' = now
    /\ Reopen(d, lines, ok)

(* rollFile() with d on disk, lines buffered and bytes counted: opens a    *)
(* file for this second and closes the old one, unless the last roll was   *)
(* in this second or later.                                                *)
rollFile(d, lines, bytes, ok) ==
    \/ /\ now > lastRoll_
       /\ startOfPeriod_' = Period(now)
       /\ lastRoll_' = now /\ lastFlush_' = now
       /\ Reopen(d, lines, ok)
    \/ /\ now <= lastRoll_
       /\ Keep(d, lines, bytes)
       /\ UNCHANGED periodVars

(* Every checkEveryN_ lines the clock is looked at. *)
Counted == count_' = IF count_ + 1 >= checkEveryN_ THEN 0 ELSE count_ + 1

(* Mutant: the size is looked at only with the clock. *)
RollOrFlushRarely(d, lines, bytes, ok) ==
    /\ Counted
    /\ IF count_' = 0 /\ (bytes > rollSize_ \/ Period(now) # startOfPeriod_)
       THEN rollFile(d, lines, bytes, ok)
       ELSE Keep(d, lines, bytes) /\ UNCHANGED periodVars

(* append_unlocked() once the line is in: roll by size, or at a look at    *)
(* the clock by period, or flush.                                          *)
RollOrFlush(d, lines, bytes, ok) ==
    LET look == count_ + 1 >= checkEveryN_
        over == Period(now) # startOfPeriod_
        stale == now - lastFlush_ > flushInterval_
    IN  \/ bytes > rollSize_ /\ rollFile(d, lines, bytes, ok) /\ UNCHANGED count_
        \/ /\ bytes <= rollSize_
           /\ Counted
           /\ \/ look /\ over /\ rollFile(d, lines, bytes, ok)
              \/ /\ look /\ ~over /\ stale
                 /\ lastFlush_' = now
                 /\ \E written \in Drained(lines, ok) :
                      Keep(Written(d, written), <<>>, bytes)
                 /\ UNCHANGED <<startOfPeriod_, lastRoll_>>
              \/ /\ ~look \/ (~over /\ ~stale)
                 /\ Keep(d, lines, bytes)
                 /\ UNCHANGED periodVars

(* AppendFile::append: the lines there may be once fwrite has taken the    *)
(* next one.  If it fails, buffered lines are dropped, and the second call *)
(* of write() takes the line or gives up.                                  *)
Buffered(ok) ==
    LET line == [id |-> calls + 1, at |-> now]
    IN  IF ok THEN {Append(buffer, line)}
        ELSE UNION {{kept, Append(kept, line)} : kept \in Drained(buffer, FALSE)}

(* A write fails in this call, or none does. *)
Tried(ok) ==
    /\ ok \/ failures < MaxFailures
    /\ failures' = IF ok THEN failures ELSE failures + 1

(* append() of a line of len bytes.  On its way stdio may write a part of  *)
(* its buffer; writtenBytes_ counts the line even if fwrite failed.        *)
AppendLine(len, ok) ==
    /\ alive
    /\ calls < MaxLines
    /\ Tried(ok)
    /\ \E lines \in Buffered(ok) : \E spilled \in 0..Len(lines) :
         RollOrFlush(Written(disk, SubSeq(lines, 1, spilled)),
                     SubSeq(lines, spilled + 1, Len(lines)), writtenBytes_ + len, ok)
    /\ calls' = calls + 1
    /\ lastAppend' = now
    /\ late' = IF lastRoll_' # lastRoll_ THEN 0
               ELSE IF Period(now) # startOfPeriod_' THEN late + 1 ELSE late
    /\ overdue' = IF buffer' # <<>> /\ now - Head(buffer').at > flushInterval_
                  THEN overdue + 1 ELSE 0
    /\ UNCHANGED <<now, alive, jumps>>

(* flush(): lastFlush_ is not told. *)
Flush(ok) ==
    /\ alive
    /\ Tried(ok)
    /\ \E written \in Drained(buffer, ok) : disk' = Written(disk, written)
    /\ buffer' = <<>>
    /\ overdue' = 0
    /\ UNCHANGED <<now, count_, startOfPeriod_, lastRoll_, lastFlush_, writtenBytes_,
                   alive, calls, lastAppend, late, jumps>>

(* rollFile() called by the owner. *)
RollFile(ok) ==
    /\ alive
    /\ Tried(ok)
    /\ ok \/ now > lastRoll_        \* only a file that is closed is written
    /\ rollFile(disk, buffer, writtenBytes_, ok)
    /\ late' = IF lastRoll_' # lastRoll_ THEN 0 ELSE late
    /\ overdue' = IF buffer' = <<>> THEN 0 ELSE overdue
    /\ UNCHANGED <<now, count_, alive, calls, lastAppend, jumps>>

(* Without ~LogFile(), what is buffered is lost: a signal, or the          *)
(* assertion of AppendFile that a file could be opened.                    *)
Crash ==
    /\ alive
    /\ alive' = FALSE
    /\ buffer' = <<>>
    /\ UNCHANGED <<now, count_, startOfPeriod_, lastRoll_, lastFlush_, writtenBytes_,
                   disk, history, jumps>>

Tick ==
    /\ now < MaxTime
    /\ now' = now + 1
    /\ UNCHANGED <<logVars, alive, history, jumps>>

(* The wall clock is set back. *)
SetBack ==
    /\ jumps < MaxJumps
    /\ jumps' = jumps + 1
    /\ now' \in 1..(now - 1)
    /\ UNCHANGED <<logVars, alive, history>>

Next ==
    \/ \E len \in Lens, ok \in BOOLEAN : AppendLine(len, ok)
    \/ \E ok \in BOOLEAN : Flush(ok) \/ RollFile(ok)
    \/ Crash \/ Tick \/ SetBack

Spec == Init /\ [][Next]_vars

-----------------------------------------------------------------------------
(* Read in the order of their names, the files and then the buffer. *)
OnDisk == FlattenSeq([t \in 1..MaxTime |-> disk[t]])

Sink == INSTANCE LogSink WITH lines <- OnDisk \o buffer, durable <- Len(OnDisk)

(***************************************************************************)
(* A LogFile is a sink: the files in the order of their names, and then    *)
(* the buffer, are the lines fwrite took in the order of append(), each    *)
(* once, however the file is rolled and also when the clock is set back    *)
(* between two rolls.  A crash loses a tail that was not written, and so   *)
(* may a call in which a write fails; no other call loses a line.          *)
(***************************************************************************)
IsSink == Sink!Spec

(***************************************************************************)
(* A file that is longer than rollSize_ was last appended to in the second *)
(* it was opened in, or before it by a clock that was set back: append()   *)
(* rolls at the first line after that second.                              *)
(***************************************************************************)
SizeBound == writtenBytes_ > rollSize_ => lastAppend <= lastRoll_

(***************************************************************************)
(* With a clock that is not set back, fewer than checkEveryN_ lines of a   *)
(* later period end up in the file of an earlier one.                      *)
(***************************************************************************)
PeriodBound == jumps = 0 => late < checkEveryN_

(***************************************************************************)
(* With a clock that is not set back, fewer than checkEveryN_ calls of     *)
(* append() pass while a line older than flushInterval_ is still buffered. *)
(***************************************************************************)
FlushBound == jumps = 0 => overdue < checkEveryN_

(***************************************************************************)
(* What append_unlocked() promises with one chain of conditions: a bound   *)
(* on the size of a file, on the lines of a later period in it, and on the *)
(* time a line stays in the buffer.                                        *)
(***************************************************************************)
Bounded ==
    /\ TypeOK
    /\ SizeBound
    /\ PeriodBound
    /\ FlushBound
=============================================================================

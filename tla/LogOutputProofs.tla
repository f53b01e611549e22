--------------------------- MODULE LogOutputProofs ---------------------------
(***************************************************************************)
(* Proofs about LogFile and Logging, as LogOutput joins them, for any      *)
(* sizes, intervals and lengths, any threads, zones and sinks.             *)
(***************************************************************************)
EXTENDS LogOutput, FiniteSetTheorems, SequenceTheorems, WellFoundedInduction, TLAPS

-----------------------------------------------------------------------------
(* LogFile: the bounds of append_unlocked().                               *)

(* Beginnings of periods. *)
LEMMA Periods ==
    ASSUME NEW t \in Nat
    PROVE  /\ F!Period(t) \in Nat /\ F!Period(t) <= t
           /\ \A s \in Nat : s <= t => F!Period(s) <= F!Period(t)
<1> DEFINE K == kRollPerSeconds_
<1>0. K \in Nat /\ K > 0
  BY LogOutputAssumption
<1>1. ASSUME NEW s \in Nat PROVE s \div K \in Nat /\ F!Period(s) \in Nat
                                 /\ F!Period(s) <= s /\ s < F!Period(s) + K
  <2>1. s \div K \in Int /\ s \div K >= 0
    BY <1>0
  <2>2. (s \div K) * K <= s
    BY <1>0
  <2>3. s < (s \div K) * K + K
    BY <1>0
  <2>4. PICK q \in Nat : q = s \div K
    BY <2>1
  <2>5. q * K \in Nat
    BY <1>0
  <2> QED
    BY <2>2, <2>3, <2>4, <2>5 DEF F!Period
<1>2. ASSUME NEW s \in Nat, s <= t PROVE F!Period(s) <= F!Period(t)
  <2>1. PICK a \in Nat, b \in Nat : a = s \div K /\ b = t \div K
    BY <1>1
  <2>2. F!Period(s) = a * K /\ F!Period(t) = b * K /\ a * K <= s /\ t < b * K + K
    BY <1>1, <2>1 DEF F!Period
  <2>3. CASE a <= b
    <3>1. a * K <= b * K
      BY <1>0, <2>3
    <3> QED
      BY <2>2, <3>1
  <2>4. CASE a > b
    <3>1. a >= b + 1
      BY <2>4
    <3>2. a * K >= (b + 1) * K
      BY <1>0, <3>1
    <3>3. (b + 1) * K = b * K + K
      BY <1>0
    <3>4. a * K \in Nat /\ b * K \in Nat
      BY <1>0
    <3> QED
      BY <1>0, <1>2, <2>2, <3>2, <3>3, <3>4
  <2> QED
    BY <2>3, <2>4
<1> QED
  BY <1>1, <1>2

(* The types, and the history within the number of calls. *)
FileTypes == F!TypeOK /\ late <= calls /\ overdue <= calls

(* startOfPeriod_ is that of the file that is open. *)
PeriodKept == startOfPeriod_ = F!Period(lastRoll_)

(* With a clock that is not set back: what is buffered came in after the   *)
(* last flush, lines that are late or overdue came in since the last look  *)
(* at the clock, and late ones only if the period of the file is over.     *)
InTime ==
    jumps = 0 =>
        /\ lastRoll_ <= lastFlush_ /\ lastFlush_ <= now
        /\ \A i \in 1..Len(buffer) : lastFlush_ <= buffer[i].at
        /\ late <= count_ /\ overdue <= count_
        /\ late > 0 => startOfPeriod_ < F!Period(now)

FileInv == FileTypes /\ PeriodKept /\ F!SizeBound /\ InTime

LEMMA FileInit == F!Init => FileInv
<1> SUFFICES ASSUME F!Init PROVE FileInv
  OBVIOUS
<1> USE LogOutputAssumption DEF F!Init
<1>1. now \in Nat /\ now <= MaxTime /\ F!Period(now) \in Nat /\ F!Period(now) <= now
  BY Periods DEF F!Times
<1>2. F!TypeOK
  <2>1. <<>> \in Seq(F!Line)
    OBVIOUS
  <2> QED
    BY <1>1, <2>1 DEF F!TypeOK, F!Times, F!FileNames
<1> QED
  BY <1>1, <1>2 DEF FileInv, FileTypes, PeriodKept, F!SizeBound, InTime

(* Time passes, for either half. *)
LEMMA TimePasses ==
    ASSUME FileInv, now' \in F!Times, now <= now', UNCHANGED fileVars
    PROVE  FileInv'
<1> USE LogOutputAssumption
<1>1. FileTypes'
  BY DEF FileInv, FileTypes, F!TypeOK, fileVars, F!Times, F!FileNames, F!Line
<1>2. PeriodKept' /\ F!SizeBound'
  BY DEF FileInv, PeriodKept, F!SizeBound, fileVars, F!Period
<1>3. InTime'
  <2>1. now \in Nat /\ now' \in Nat
    BY DEF FileInv, FileTypes, F!TypeOK, F!Times
  <2>2. F!Period(now) <= F!Period(now') /\ F!Period(now) \in Nat /\ F!Period(now') \in Nat
    BY <2>1, Periods
  <2>3. F!Period(now)' = F!Period(now')
    BY DEF F!Period
  <2>4. startOfPeriod_ \in Nat /\ lastFlush_ \in Nat
    BY DEF FileInv, FileTypes, F!TypeOK, F!Times
  <2> QED
    BY <2>1, <2>2, <2>3, <2>4 DEF FileInv, InTime, fileVars
<1> QED
  BY <1>1, <1>2, <1>3 DEF FileInv

(* The clock is set back. *)
LEMMA SetBackStep == FileInv /\ F!SetBack => FileInv'
<1> SUFFICES ASSUME FileInv, F!SetBack PROVE FileInv'
  OBVIOUS
<1> USE LogOutputAssumption
<1>0. now \in 1..MaxTime /\ jumps \in 0..MaxJumps
  BY DEF FileInv, FileTypes, F!TypeOK, F!Times
<1>a. jumps < MaxJumps /\ jumps' = jumps + 1 /\ now' \in 1..(now - 1)
  BY DEF F!SetBack
<1>1. jumps' = jumps + 1 /\ jumps' \in 0..MaxJumps /\ now' \in F!Times
      /\ UNCHANGED <<count_, startOfPeriod_, lastRoll_, lastFlush_, writtenBytes_, buffer, disk,
                     alive, calls, lastAppend, late, overdue, failures>>
  <2>1. jumps' \in 0..MaxJumps /\ now' \in F!Times
    BY <1>0, <1>a DEF F!Times
  <2> QED
    BY <1>a, <2>1 DEF F!SetBack, F!logVars, F!fileVars, F!history
<1>2. jumps \in Nat
  BY DEF FileInv, FileTypes, F!TypeOK
<1>3. FileTypes'
  BY <1>1, <1>2 DEF FileInv, FileTypes, F!TypeOK, F!Times, F!FileNames, F!Line
<1>4. PeriodKept' /\ F!SizeBound' /\ InTime'
  BY <1>1, <1>2 DEF FileInv, PeriodKept, F!SizeBound, InTime, F!Period
<1> QED
  BY <1>3, <1>4 DEF FileInv

LEMMA WrittenType ==
    ASSUME FileInv, NEW d \in [F!FileNames -> Seq(F!Line)], NEW x \in Seq(F!Line)
    PROVE  F!Written(d, x) \in [F!FileNames -> Seq(F!Line)]
<1>1. lastRoll_ \in F!FileNames
  BY DEF FileInv, FileTypes, F!TypeOK, F!FileNames
<1>2. d[lastRoll_] \o x \in Seq(F!Line)
  BY <1>1, ConcatProperties
<1> QED
  BY <1>1, <1>2 DEF F!Written

(* rollFile() has opened a file. *)
LEMMA RolledStep ==
    ASSUME FileInv, UNCHANGED <<now, jumps>>,
           startOfPeriod_' = F!Period(now), lastRoll_' = now, lastFlush_' = now,
           writtenBytes_' = 0, buffer' = <<>>, disk' \in [F!FileNames -> Seq(F!Line)],
           count_' \in 0..(checkEveryN_ - 1), alive' \in BOOLEAN,
           calls' \in 0..MaxLines, lastAppend' \in 0..MaxTime, late' = 0, overdue' = 0,
           failures' \in 0..MaxFailures
    PROVE  FileInv'
<1> USE LogOutputAssumption
<1>1. now \in Nat /\ now <= MaxTime /\ F!Period(now) \in Nat /\ F!Period(now) <= now
  BY Periods DEF FileInv, FileTypes, F!TypeOK, F!Times
<1>2. F!TypeOK'
  <2>1. <<>> \in Seq(F!Line)
    OBVIOUS
  <2>2. now \in F!Times /\ jumps \in 0..MaxJumps /\ startOfPeriod_' \in 0..MaxTime
    <3>1. now \in F!Times /\ jumps \in 0..MaxJumps
      BY DEF FileInv, FileTypes, F!TypeOK
    <3>2. startOfPeriod_' \in 0..MaxTime
      BY <1>1
    <3> QED
      BY <3>1, <3>2
  <2> QED
    <3>1. buffer' \in Seq(F!Line)
      BY <2>1
    <3>2. /\ now' \in F!Times /\ lastRoll_' \in F!Times /\ lastFlush_' \in F!Times
          /\ writtenBytes_' \in Nat /\ jumps' \in 0..MaxJumps
          /\ late' \in 0..MaxLines /\ overdue' \in 0..MaxLines
      BY <2>2
    <3> QED
      BY <2>2, <3>1, <3>2 DEF F!TypeOK, F!Times, F!FileNames, F!Line
<1>3. FileTypes' /\ PeriodKept'
  BY <1>2 DEF FileTypes, PeriodKept, F!Period
<1>4. F!SizeBound' /\ InTime'
  BY <1>1 DEF F!SizeBound, InTime
<1> QED
  BY <1>3, <1>4 DEF FileInv

(* What is written when the buffer is drained: the first of its lines, and *)
(* all of them if no write fails.                                          *)
LEMMA DrainedLines ==
    ASSUME NEW S, NEW q \in Seq(S), NEW ok \in BOOLEAN, NEW w \in F!Drained(q, ok)
    PROVE  /\ w \in Seq(S) /\ Len(w) \in 0..Len(q) /\ \A i \in 1..Len(w) : w[i] = q[i]
           /\ ok => w = q
<1>0. Len(q) \in Nat /\ \A i \in 1..Len(q) : q[i] \in S
  OBVIOUS
<1>1. PICK n \in 0..Len(q) : w = SubSeq(q, 1, n) /\ (ok => n = Len(q))
  <2>1. PICK n \in IF ok THEN {Len(q)} ELSE 0..Len(q) : w = SubSeq(q, 1, n)
    BY DEF F!Drained
  <2>2. Len(q) \in 0..Len(q)
    BY <1>0
  <2> QED
    BY <2>1, <2>2
<1>2. w \in Seq(S) /\ Len(w) = n /\ \A i \in 1..n : w[i] = q[i]
  BY <1>0, <1>1, SubSeqProperties
<1>3. ok => w = q
  BY <1>1, <1>2, SeqEqual
<1> QED
  BY <1>2, <1>3

LEMMA TriedType ==
    ASSUME FileInv, NEW ok \in BOOLEAN, F!Tried(ok)
    PROVE  failures' \in 0..MaxFailures /\ failures' = IF ok THEN failures ELSE failures + 1
  BY LogOutputAssumption DEF FileInv, FileTypes, F!TypeOK, F!Tried

(* flush(), rollFile() by the owner, and a crash. *)
LEMMA OwnerStep ==
    ASSUME FileInv, NEW ok \in BOOLEAN, F!Flush(ok) \/ F!RollFile(ok) \/ F!Crash
    PROVE  FileInv'
<1> USE LogOutputAssumption
<1>0. /\ F!TypeOK /\ late <= calls /\ overdue <= calls
      /\ disk \in [F!FileNames -> Seq(F!Line)] /\ buffer \in Seq(F!Line)
      /\ count_ \in 0..(checkEveryN_ - 1) /\ calls \in 0..MaxLines /\ lastAppend \in 0..MaxTime
      /\ alive \in BOOLEAN /\ overdue \in 0..MaxLines
  BY DEF FileInv, FileTypes, F!TypeOK
<1>1. \A w \in F!Drained(buffer, ok) : F!Written(disk, w) \in [F!FileNames -> Seq(F!Line)]
  BY <1>0, DrainedLines, WrittenType
<1>f. failures' \in 0..MaxFailures
  <2>1. CASE F!Crash
    BY <2>1 DEF F!Crash, F!history, FileInv, FileTypes, F!TypeOK
  <2>2. CASE F!Tried(ok)
    BY <2>2, TriedType
  <2> QED
    BY <2>1, <2>2 DEF F!Flush, F!RollFile
<1>2. CASE F!RollFile(ok) /\ now > lastRoll_
  <2>1. /\ startOfPeriod_' = F!Period(now) /\ lastRoll_' = now /\ lastFlush_' = now
        /\ \E w \in F!Drained(buffer, ok) : disk' = F!Written(disk, w)
        /\ buffer' = <<>> /\ writtenBytes_' = 0
        /\ UNCHANGED <<now, count_, alive, calls, lastAppend, jumps>>
        /\ late' = 0 /\ overdue' = 0
    <3>1. now \in Nat /\ lastRoll_ \in Nat
      BY <1>0 DEF F!TypeOK, F!Times
    <3> QED
      BY <1>2, <3>1 DEF F!RollFile, F!rollFile, F!Reopen
  <2>2. disk' \in [F!FileNames -> Seq(F!Line)]
    BY <1>1, <2>1
  <2> QED
    BY <1>0, <1>f, <2>1, <2>2, RolledStep
<1>3. ASSUME disk' \in [F!FileNames -> Seq(F!Line)], buffer' = buffer \/ buffer' = <<>>,
             overdue' = overdue \/ overdue' = 0, alive' \in BOOLEAN,
             UNCHANGED <<now, count_, startOfPeriod_, lastRoll_, lastFlush_, writtenBytes_,
                         calls, lastAppend, late, jumps>>
      PROVE  FileInv'
  <2>0. <<>> \in Seq(F!Line)
    OBVIOUS
  <2>1. buffer' \in Seq(F!Line) /\ overdue' \in 0..MaxLines /\ overdue' <= overdue
    <3>1. buffer' \in Seq(F!Line)
      BY <1>0, <1>3, <2>0
    <3>2. overdue' \in 0..MaxLines /\ overdue' <= overdue
      BY <1>0, <1>3
    <3> QED
      BY <3>1, <3>2
  <2>2. F!TypeOK'
    BY <1>0, <1>f, <1>3, <2>1 DEF F!TypeOK, F!Times, F!FileNames, F!Line
  <2>3. FileTypes'
    BY <1>0, <1>3, <2>1, <2>2 DEF FileTypes, F!TypeOK
  <2>4. PeriodKept' /\ F!SizeBound'
    BY <1>3 DEF FileInv, PeriodKept, F!SizeBound, F!Period
  <2>5. InTime'
    <3>1. \A i \in 1..Len(buffer') : i \in 1..Len(buffer) /\ buffer'[i] = buffer[i]
      BY <1>0, <1>3
    <3>2. F!Period(now)' = F!Period(now)
      BY <1>3 DEF F!Period
    <3> QED
      BY <1>0, <1>3, <2>1, <3>1, <3>2 DEF FileInv, InTime, F!TypeOK
  <2> QED
    BY <2>3, <2>4, <2>5 DEF FileInv
<1>4. CASE F!RollFile(ok) /\ ~(now > lastRoll_)
  BY <1>0, <1>3, <1>4 DEF F!RollFile, F!rollFile, F!Keep, F!periodVars
<1>5. CASE F!Flush(ok)
  BY <1>0, <1>1, <1>3, <1>5 DEF F!Flush
<1>6. CASE F!Crash
  BY <1>0, <1>3, <1>6 DEF F!Crash, F!history
<1> QED
  BY <1>2, <1>4, <1>5, <1>6

(* A sequence cut in two. *)
LEMMA Cut ==
    ASSUME NEW S, NEW q \in Seq(S), NEW n \in 0..Len(q)
    PROVE  /\ SubSeq(q, 1, n) \in Seq(S) /\ Len(SubSeq(q, 1, n)) = n
           /\ SubSeq(q, n + 1, Len(q)) \in Seq(S) /\ Len(SubSeq(q, n + 1, Len(q))) = Len(q) - n
           /\ \A i \in 1..(Len(q) - n) : SubSeq(q, n + 1, Len(q))[i] = q[n + i]
           /\ SubSeq(q, 1, n) \o SubSeq(q, n + 1, Len(q)) = q
<1>0. Len(q) \in Nat /\ n \in Nat /\ n <= Len(q) /\ \A i \in 1..Len(q) : q[i] \in S
  OBVIOUS
<1>1. PICK a : a = SubSeq(q, 1, n)
  OBVIOUS
<1>2. PICK b : b = SubSeq(q, n + 1, Len(q))
  OBVIOUS
<1>3. a \in Seq(S) /\ Len(a) = n /\ \A i \in 1..n : a[i] = q[i]
  BY <1>0, <1>1, SubSeqProperties
<1>4. b \in Seq(S) /\ Len(b) = Len(q) - n /\ \A i \in 1..(Len(q) - n) : b[i] = q[n + i]
  BY <1>0, <1>2, SubSeqProperties
<1>5. a \o b \in Seq(S) /\ Len(a \o b) = Len(q)
  BY <1>0, <1>3, <1>4, ConcatProperties
<1>6. \A i \in 1..Len(q) : (a \o b)[i] = q[i]
  <2> SUFFICES ASSUME NEW i \in 1..Len(q) PROVE (a \o b)[i] = q[i]
    OBVIOUS
  <2>1. (a \o b)[i] = IF i <= Len(a) THEN a[i] ELSE b[i - Len(a)]
    <3>1. i \in 1..(Len(a) + Len(b))
      BY <1>0, <1>3, <1>4
    <3> QED
      BY <1>3, <1>4, <3>1, ConcatProperties, Zenon
  <2>2. CASE i <= n
    BY <1>3, <2>1, <2>2
  <2>3. CASE ~(i <= n)
    <3>1. i - n \in 1..(Len(q) - n) /\ n + (i - n) = i
      BY <1>0, <2>3
    <3>2. b[i - n] = q[n + (i - n)]
      BY <1>4, <3>1
    <3> QED
      BY <1>0, <1>3, <2>1, <2>3, <3>1, <3>2
  <2> QED
    BY <2>2, <2>3
<1>7. a \o b = q
  BY <1>5, <1>6, SeqEqual
<1> QED
  BY <1>1, <1>2, <1>3, <1>4, <1>7

(* The first n lines of the buffer, and at most one more. *)
Left(n, q) == Len(q) \in n..(n + 1) /\ \A i \in 1..n : q[i] = buffer[i]

(* What append() leaves to RollOrFlush: lines on disk and in the buffer.   *)
LEMMA AppendParts ==
    ASSUME FileInv, NEW len \in Lens, NEW ok \in BOOLEAN, F!AppendLine(len, ok)
    PROVE  \E a \in Seq(F!Line), rest \in Seq(F!Line) :
             /\ F!RollOrFlush(F!Written(disk, a), rest, writtenBytes_ + len, ok)
             /\ \E n \in 0..Len(buffer) : Left(n, a \o rest) /\ (ok => n = Len(buffer))
             /\ \A i \in 1..Len(rest) :
                  rest[i].at = now \/ \E j \in 1..Len(buffer) : rest[i] = buffer[j]
<1> USE LogOutputAssumption
<1>0. /\ disk \in [F!FileNames -> Seq(F!Line)] /\ buffer \in Seq(F!Line)
      /\ calls \in 0..MaxLines /\ now \in F!Times /\ calls < MaxLines
  BY DEF FileInv, FileTypes, F!TypeOK, F!AppendLine
<1>1. PICK l : l = [id |-> calls + 1, at |-> now]
  OBVIOUS
<1>2. l \in F!Line /\ l.at = now
  <2>1. PICK c \in 1..MaxLines : c = calls + 1
    BY <1>0
  <2> QED
    BY <1>0, <1>1, <2>1 DEF F!Line
<1>3. PICK lines \in F!Buffered(ok) : \E spilled \in 0..Len(lines) :
        F!RollOrFlush(F!Written(disk, SubSeq(lines, 1, spilled)),
                      SubSeq(lines, spilled + 1, Len(lines)), writtenBytes_ + len, ok)
  BY DEF F!AppendLine
<1>4. PICK kept \in F!Drained(buffer, ok) : lines = kept \/ lines = Append(kept, l)
  <2>1. CASE ok
    <3>1. SubSeq(buffer, 1, Len(buffer)) \in F!Drained(buffer, ok)
      BY <2>1 DEF F!Drained
    <3>2. SubSeq(buffer, 1, Len(buffer)) = buffer
      BY <1>0, <3>1, <2>1, DrainedLines
    <3> QED
      BY <1>1, <1>3, <2>1, <3>1, <3>2 DEF F!Buffered
  <2>2. CASE ~ok
    <3>1. lines \in UNION {{k, Append(k, l)} : k \in F!Drained(buffer, FALSE)}
      BY <1>1, <1>3, <2>2 DEF F!Buffered
    <3> QED
      BY <2>2, <3>1
  <2> QED
    BY <2>1, <2>2
<1>k. /\ kept \in Seq(F!Line) /\ Len(kept) \in 0..Len(buffer) /\ (ok => kept = buffer)
      /\ \A i \in 1..Len(kept) : kept[i] = buffer[i]
  BY <1>0, <1>4, DrainedLines
<1>5. /\ lines \in Seq(F!Line) /\ Len(lines) \in Nat /\ Left(Len(kept), lines)
      /\ \A i \in 1..Len(lines) : lines[i] = l \/ \E j \in 1..Len(buffer) : lines[i] = buffer[j]
  <2>0. Len(kept) \in Nat /\ Len(buffer) \in Nat /\ \A j \in 1..Len(kept) : j \in 1..Len(buffer)
    BY <1>0, <1>k
  <2>1. CASE lines = kept
    BY <1>k, <2>0, <2>1 DEF Left
  <2>2. CASE lines = Append(kept, l)
    <3>1. lines \in Seq(F!Line) /\ Len(lines) = Len(kept) + 1
      BY <1>k, <1>2, <2>2
    <3>2. \A i \in 1..Len(lines) : i = Len(kept) + 1 \/ i \in 1..Len(kept)
      BY <2>0, <3>1
    <3>3. lines[Len(kept) + 1] = l /\ \A j \in 1..Len(kept) : lines[j] = buffer[j]
      BY <1>k, <1>2, <2>2
    <3> QED
      BY <2>0, <3>1, <3>2, <3>3 DEF Left
  <2> QED
    BY <1>4, <2>1, <2>2
<1>6. PICK spilled \in 0..Len(lines) :
        F!RollOrFlush(F!Written(disk, SubSeq(lines, 1, spilled)),
                      SubSeq(lines, spilled + 1, Len(lines)), writtenBytes_ + len, ok)
  BY <1>3
<1>7. PICK a : a = SubSeq(lines, 1, spilled)
  OBVIOUS
<1>8. PICK rest : rest = SubSeq(lines, spilled + 1, Len(lines))
  OBVIOUS
<1>9. /\ a \in Seq(F!Line) /\ rest \in Seq(F!Line) /\ Len(rest) = Len(lines) - spilled
      /\ \A i \in 1..(Len(lines) - spilled) : rest[i] = lines[spilled + i]
  <2>1. SubSeq(lines, 1, spilled) \in Seq(F!Line)
    BY <1>5, Cut
  <2>2. /\ SubSeq(lines, spilled + 1, Len(lines)) \in Seq(F!Line)
        /\ Len(SubSeq(lines, spilled + 1, Len(lines))) = Len(lines) - spilled
        /\ \A i \in 1..(Len(lines) - spilled) :
             SubSeq(lines, spilled + 1, Len(lines))[i] = lines[spilled + i]
    BY <1>5, Cut
  <2> QED
    BY <1>7, <1>8, <2>1, <2>2
<1>10. \A i \in 1..Len(rest) : rest[i] = l \/ \E j \in 1..Len(buffer) : rest[i] = buffer[j]
  <2> SUFFICES ASSUME NEW i \in 1..Len(rest)
               PROVE  rest[i] = l \/ \E j \in 1..Len(buffer) : rest[i] = buffer[j]
    OBVIOUS
  <2>1. spilled + i \in 1..Len(lines) /\ rest[i] = lines[spilled + i]
    BY <1>5, <1>9
  <2> QED
    BY <1>5, <2>1
<1>11. F!RollOrFlush(F!Written(disk, a), rest, writtenBytes_ + len, ok)
  BY <1>6, <1>7, <1>8
<1>12. a \o rest = lines
  BY <1>5, <1>7, <1>8, Cut
<1>13. \E n \in 0..Len(buffer) : Left(n, a \o rest) /\ (ok => n = Len(buffer))
  BY <1>k, <1>5, <1>12
<1>14. \A i \in 1..Len(rest) : rest[i].at = now \/ \E j \in 1..Len(buffer) : rest[i] = buffer[j]
  BY <1>2, <1>10
<1> QED
  BY <1>9, <1>11, <1>13, <1>14

(* append(): the file is rolled, or kept and its clocks looked at. *)
LEMMA AppendStep ==
    ASSUME FileInv, NEW len \in Lens, NEW ok \in BOOLEAN, F!AppendLine(len, ok)
    PROVE  FileInv'
<1> USE LogOutputAssumption
<1> DEFINE bytes == writtenBytes_ + len
           period == F!Period(now)
<1>0. /\ now \in Nat /\ 1 <= now /\ now <= MaxTime
      /\ lastRoll_ \in Nat /\ lastFlush_ \in Nat /\ startOfPeriod_ \in Nat
      /\ count_ \in 0..(checkEveryN_ - 1) /\ writtenBytes_ \in Nat
      /\ calls \in Nat /\ late \in Nat /\ overdue \in Nat /\ late <= calls /\ overdue <= calls
      /\ jumps \in 0..MaxJumps /\ alive \in BOOLEAN /\ calls < MaxLines
  BY DEF FileInv, FileTypes, F!TypeOK, F!Times, F!AppendLine
<1>1. period \in Nat /\ period <= now
      /\ (lastRoll_ <= now => startOfPeriod_ <= period)
  BY <1>0, Periods DEF FileInv, PeriodKept
<1>2. /\ calls' = calls + 1 /\ lastAppend' = now /\ UNCHANGED <<now, alive, jumps>>
      /\ late' = IF lastRoll_' # lastRoll_ THEN 0
                 ELSE IF period # startOfPeriod_' THEN late + 1 ELSE late
      /\ overdue' = IF buffer' # <<>> /\ now - Head(buffer').at > flushInterval_
                    THEN overdue + 1 ELSE 0
  BY DEF F!AppendLine
<1>3. PICK d \in [F!FileNames -> Seq(F!Line)], rest \in Seq(F!Line) :
        /\ F!RollOrFlush(d, rest, bytes, ok)
        /\ \A i \in 1..Len(rest) :
             rest[i].at = now \/ \E j \in 1..Len(buffer) : rest[i] = buffer[j]
  <2>1. PICK a \in Seq(F!Line), rest \in Seq(F!Line) :
          /\ F!RollOrFlush(F!Written(disk, a), rest, bytes, ok)
          /\ \A i \in 1..Len(rest) :
               rest[i].at = now \/ \E j \in 1..Len(buffer) : rest[i] = buffer[j]
    BY AppendParts
  <2>2. F!Written(disk, a) \in [F!FileNames -> Seq(F!Line)]
    BY WrittenType DEF FileInv, FileTypes, F!TypeOK
  <2> QED
    BY <2>1, <2>2
<1>4. \A w \in F!Drained(rest, ok) : F!Written(d, w) \in [F!FileNames -> Seq(F!Line)]
  BY <1>3, DrainedLines, WrittenType
<1>f. failures' \in 0..MaxFailures
  BY TriedType DEF F!AppendLine
<1> HIDE DEF period
<1>5. /\ calls' \in 0..MaxLines /\ late' \in 0..MaxLines /\ overdue' \in 0..MaxLines
      /\ late' <= calls' /\ overdue' <= calls' /\ lastAppend' \in 0..MaxTime
  BY <1>0, <1>2
<1>6. count_' = count_ \/ F!Counted => count_' \in 0..(checkEveryN_ - 1)
  BY <1>0 DEF F!Counted
<1>7. CASE now > lastRoll_ /\ F!rollFile(d, rest, bytes, ok) /\ (count_' = count_ \/ F!Counted)
  <2>1. /\ startOfPeriod_' = F!Period(now) /\ lastRoll_' = now /\ lastFlush_' = now
        /\ \E w \in F!Drained(rest, ok) : disk' = F!Written(d, w)
        /\ buffer' = <<>> /\ writtenBytes_' = 0
    BY <1>0, <1>7 DEF F!rollFile, F!Reopen
  <2>2. late' = 0 /\ overdue' = 0
    BY <1>0, <1>2, <1>7, <2>1
  <2>3. disk' \in [F!FileNames -> Seq(F!Line)]
    BY <1>4, <2>1
  <2> QED
    BY <1>0, <1>2, <1>f, <1>5, <1>6, <1>7, <2>1, <2>2, <2>3, RolledStep
<1>8. CASE /\ UNCHANGED <<startOfPeriod_, lastRoll_>>
           /\ writtenBytes_' = bytes
           /\ count_' = count_ \/ F!Counted
           /\ \/ disk' = d /\ buffer' = rest /\ lastFlush_' = lastFlush_
              \/ /\ \E w \in F!Drained(rest, ok) : disk' = F!Written(d, w)
                 /\ buffer' = <<>> /\ lastFlush_' = now
           /\ bytes > rollSize_ => now <= lastRoll_
           /\ jumps = 0 => late' <= count_' /\ overdue' <= count_'
  <2>1. /\ buffer' \in Seq(F!Line) /\ disk' \in [F!FileNames -> Seq(F!Line)]
        /\ lastFlush_' \in F!Times /\ bytes \in Nat
    <3>1. <<>> \in Seq(F!Line)
      OBVIOUS
    <3>2. lastFlush_ \in F!Times /\ now \in F!Times
      BY DEF FileInv, FileTypes, F!TypeOK
    <3>3. bytes \in Nat
      BY <1>0
    <3>4. \/ disk' = d /\ buffer' = rest /\ lastFlush_' = lastFlush_
          \/ /\ \E w \in F!Drained(rest, ok) : disk' = F!Written(d, w)
             /\ buffer' = <<>> /\ lastFlush_' = now
      BY <1>8
    <3> QED
      BY <1>3, <1>4, <3>1, <3>2, <3>3, <3>4, Zenon
  <2>2. F!TypeOK'
    <3>1. /\ now' \in F!Times /\ lastRoll_' \in F!Times /\ startOfPeriod_' \in 0..MaxTime
          /\ count_' \in 0..(checkEveryN_ - 1) /\ writtenBytes_' \in Nat /\ jumps' \in 0..MaxJumps
          /\ alive' \in BOOLEAN
      BY <1>2, <1>6, <1>8, <2>1 DEF FileInv, FileTypes, F!TypeOK
    <3> QED
      BY <1>f, <1>5, <2>1, <3>1 DEF F!TypeOK, F!Times, F!FileNames, F!Line
  <2>3. FileTypes' /\ PeriodKept'
    BY <1>5, <1>8, <2>2 DEF FileInv, FileTypes, PeriodKept, F!Period
  <2>4. F!SizeBound'
    BY <1>2, <1>8 DEF F!SizeBound
  <2>5. InTime'
    <3> SUFFICES ASSUME jumps = 0
                 PROVE  /\ lastRoll_ <= lastFlush_' /\ lastFlush_' <= now
                        /\ \A i \in 1..Len(buffer') : lastFlush_' <= buffer'[i].at
                        /\ late' <= count_' /\ overdue' <= count_'
                        /\ late' > 0 => startOfPeriod_ < period
      BY <1>2, <1>8 DEF InTime, period, F!Period
    <3>1. /\ lastRoll_ <= lastFlush_ /\ lastFlush_ <= now
          /\ \A i \in 1..Len(buffer) : lastFlush_ <= buffer[i].at
          /\ late > 0 => startOfPeriod_ < period
      BY DEF FileInv, InTime, period
    <3>2. lastRoll_ <= lastFlush_' /\ lastFlush_' <= now /\ lastRoll_ <= now
      <4>1. lastFlush_' = lastFlush_ \/ lastFlush_' = now
        BY <1>8
      <4>2. now \in Nat /\ lastRoll_ \in Nat /\ lastFlush_ \in Nat
        BY <1>0
      <4>3. lastRoll_ <= lastFlush_ /\ lastFlush_ <= now
        BY <3>1
      <4> QED
        BY <4>1, <4>2, <4>3
    <3>3. \A i \in 1..Len(buffer') : lastFlush_' <= buffer'[i].at
      <4>1. CASE buffer' = <<>>
        BY <4>1
      <4>2. CASE buffer' = rest /\ lastFlush_' = lastFlush_
        <5> SUFFICES ASSUME NEW i \in 1..Len(rest) PROVE lastFlush_ <= rest[i].at
          BY <4>2
        <5>1. rest[i].at = now \/ \E j \in 1..Len(buffer) : rest[i] = buffer[j]
          BY <1>3
        <5> QED
          BY <3>1, <5>1
      <4> QED
        BY <1>8, <4>1, <4>2
    <3>4. late' > 0 => startOfPeriod_ < period
      <4>1. late' = IF period # startOfPeriod_ THEN late + 1 ELSE late
        BY <1>2, <1>8
      <4> QED
        BY <1>0, <1>1, <3>1, <3>2, <4>1
    <3> QED
      BY <1>8, <3>2, <3>3, <3>4
  <2> QED
    BY <2>3, <2>4, <2>5 DEF FileInv
<1>9. ASSUME jumps = 0, buffer' = rest
      PROVE  overdue' # 0 => now - lastFlush_ > flushInterval_
  <2> SUFFICES ASSUME rest # <<>>, now - Head(rest).at > flushInterval_
               PROVE  now - lastFlush_ > flushInterval_
    BY <1>2, <1>9
  <2>1. Head(rest) = rest[1] /\ 1 \in 1..Len(rest) /\ rest[1] \in F!Line
    BY <1>3
  <2>2. PICK at \in Nat : at = rest[1].at
    BY <2>1 DEF F!Line, F!Times
  <2>3. lastFlush_ <= now /\ \A j \in 1..Len(buffer) : lastFlush_ <= buffer[j].at
    BY <1>9 DEF FileInv, InTime
  <2>4. lastFlush_ <= at
    BY <1>3, <2>1, <2>2, <2>3
  <2>5. now - at > flushInterval_
    BY <2>1, <2>2
  <2>6. now \in Nat /\ lastFlush_ \in Nat /\ flushInterval_ \in Nat
    BY <1>0
  <2> QED
    BY <2>2, <2>4, <2>5, <2>6
<1>10. jumps = 0 => /\ lastRoll_ <= lastFlush_ /\ lastFlush_ <= now
                    /\ late <= count_ /\ overdue <= count_
                    /\ late > 0 => startOfPeriod_ < period
  BY DEF FileInv, InTime, period
<1>11. now = lastRoll_ => period = startOfPeriod_
  BY DEF FileInv, PeriodKept, period
<1>a. CASE bytes > rollSize_ /\ F!rollFile(d, rest, bytes, ok) /\ UNCHANGED count_
  <2>1. CASE now > lastRoll_
    BY <1>7, <1>a, <2>1
  <2>2. CASE ~(now > lastRoll_)
    <3>1. disk' = d /\ buffer' = rest /\ writtenBytes_' = bytes
          /\ UNCHANGED <<startOfPeriod_, lastRoll_, lastFlush_>>
      BY <1>0, <1>a, <2>2 DEF F!rollFile, F!Keep, F!periodVars
    <3>2. ASSUME jumps = 0 PROVE late' <= count_' /\ overdue' <= count_'
      <4>1. now = lastRoll_ /\ now = lastFlush_ /\ period = startOfPeriod_
        BY <1>0, <1>10, <1>11, <2>2, <3>2
      <4>2. late' = late
        BY <1>2, <3>1, <4>1
      <4>3. overdue' = 0
        BY <1>0, <1>9, <3>1, <3>2, <4>1
      <4> QED
        BY <1>0, <1>a, <1>10, <3>2, <4>2, <4>3
    <3> QED
      BY <1>0, <1>8, <1>a, <2>2, <3>1, <3>2
  <2> QED
    BY <2>1, <2>2
<1> DEFINE look == count_ + 1 >= checkEveryN_
           over == period # startOfPeriod_
           stale == now - lastFlush_ > flushInterval_
<1>b. CASE bytes <= rollSize_ /\ F!Counted /\ look /\ over /\ F!rollFile(d, rest, bytes, ok)
  <2>1. CASE now > lastRoll_
    BY <1>7, <1>b, <2>1
  <2>2. CASE ~(now > lastRoll_)
    <3>1. disk' = d /\ buffer' = rest /\ writtenBytes_' = bytes
          /\ UNCHANGED <<startOfPeriod_, lastRoll_, lastFlush_>>
      BY <1>0, <1>b, <2>2 DEF F!rollFile, F!Keep, F!periodVars
    <3>2. jumps # 0
      BY <1>0, <1>10, <1>11, <1>b, <2>2
    <3> QED
      BY <1>0, <1>8, <1>b, <2>2, <3>1, <3>2
  <2> QED
    BY <2>1, <2>2
<1>c. CASE /\ bytes <= rollSize_ /\ F!Counted /\ ~over
           /\ lastFlush_' = now
           /\ \E w \in F!Drained(rest, ok) : F!Keep(F!Written(d, w), <<>>, bytes)
           /\ UNCHANGED <<startOfPeriod_, lastRoll_>>
  <2>1. /\ \E w \in F!Drained(rest, ok) : disk' = F!Written(d, w)
        /\ buffer' = <<>> /\ writtenBytes_' = bytes
    BY <1>c DEF F!Keep
  <2>2. overdue' = 0 /\ late' = late /\ (jumps = 0 => late = 0)
    BY <1>0, <1>1, <1>2, <1>10, <1>c, <2>1
  <2>3. count_' \in Nat /\ ~(bytes > rollSize_)
    BY <1>0, <1>6, <1>c
  <2>4. jumps = 0 => late' <= count_' /\ overdue' <= count_'
    BY <2>2, <2>3
  <2> QED
    BY <1>8, <1>c, <2>1, <2>3, <2>4
<1>d. CASE /\ bytes <= rollSize_ /\ F!Counted /\ (~look \/ (~over /\ ~stale))
           /\ F!Keep(d, rest, bytes) /\ UNCHANGED F!periodVars
  <2>1. disk' = d /\ buffer' = rest /\ writtenBytes_' = bytes
        /\ UNCHANGED <<startOfPeriod_, lastRoll_, lastFlush_>>
    BY <1>d DEF F!Keep, F!periodVars
  <2>2. count_' \in Nat /\ ~(bytes > rollSize_)
    BY <1>0, <1>6, <1>d
  <2>3. ASSUME jumps = 0 PROVE late' <= count_' /\ overdue' <= count_'
    <3>1. CASE ~look
      <4>1. count_' = count_ + 1 /\ late' <= late + 1 /\ overdue' <= overdue + 1
        BY <1>0, <1>2, <1>d, <2>1, <3>1 DEF F!Counted
      <4>2. late' \in Nat /\ overdue' \in Nat
        BY <1>5
      <4> QED
        BY <1>0, <1>10, <2>3, <4>1, <4>2
    <3>2. CASE ~over /\ ~stale
      <4>1. overdue' = 0 /\ late' = late /\ late = 0
        BY <1>0, <1>1, <1>2, <1>9, <1>10, <2>1, <2>3, <3>2
      <4> QED
        BY <2>2, <4>1
    <3> QED
      BY <1>d, <3>1, <3>2
  <2> QED
    BY <1>8, <1>d, <2>1, <2>2, <2>3
<1> QED
  BY <1>3, <1>a, <1>b, <1>c, <1>d DEF F!RollOrFlush, period

LEMMA FileStep == FileInv /\ [NextLogger \/ NextFile]_allVars => FileInv'
<1> SUFFICES ASSUME FileInv, [NextLogger \/ NextFile]_allVars PROVE FileInv'
  OBVIOUS
<1> USE LogOutputAssumption
<1>0. now \in F!Times
  BY DEF FileInv, FileTypes, F!TypeOK
<1>1. CASE NextFile
  <2>1. CASE F!Tick
    <3>1. now' \in F!Times /\ now <= now'
      BY <1>0, <2>1 DEF F!Tick, F!Times
    <3> QED
      BY <2>1, <3>1, TimePasses DEF F!Tick, F!logVars, F!fileVars, F!history, fileVars
  <2>2. CASE F!Crash
    <3>1. TRUE \in BOOLEAN
      OBVIOUS
    <3> QED
      BY <2>2, <3>1, OwnerStep
  <2> QED
    BY <1>1, <2>1, <2>2, AppendStep, OwnerStep, SetBackStep DEF NextFile, F!Next
<1>2. CASE NextLogger
  <2>1. now' = now \/ (now < MaxSecond /\ now' = now + 1)
    BY <1>2 DEF NextLogger, Next, Log, Refresh, TidAsserts, Stamp, Output, Abort, setLogLevel,
                setTimeZone, setOutput, setFlush, Tick
  <2>2. now' \in F!Times /\ now <= now'
    BY <1>0, <2>1, LoggingAssumption DEF F!Times
  <2> QED
    BY <1>2, <2>2, TimePasses DEF NextLogger
<1>3. CASE UNCHANGED allVars
  BY <1>0, <1>3, TimePasses DEF allVars, F!Times
<1> QED
  BY <1>1, <1>2, <1>3

(* For any sizes and intervals: a file grows beyond rollSize_ only in the  *)
(* second it was opened in, and fewer than checkEveryN_ lines come late    *)
(* into a file or after a flush is due.                                    *)
THEOREM FilesBounded == SpecBoth => []Bounded
<1>1. InitBoth => FileInv
  BY FileInit DEF InitBoth
<1>2. FileInv => Bounded
  BY LogOutputAssumption
  DEF FileInv, FileTypes, InTime, Bounded, F!Bounded, F!PeriodBound, F!FlushBound, F!TypeOK
<1> QED
  BY <1>1, <1>2, FileStep, PTL DEF SpecBoth

-----------------------------------------------------------------------------
(* LogFile is a sink.  FlattenSeq is a recursive function; that it exists  *)
(* and what it returns is shown from a least number for which it fails.    *)

(* A set of natural numbers has a least element. *)
LEMMA LeastNat ==
    ASSUME NEW S \in SUBSET Nat, S # {}
    PROVE  \E x \in S : \A y \in S : x <= y
<1>1. PICK x \in S : \A y \in S : ~(<<y, x>> \in OpToRel(<, Nat))
  BY NatLessThanWellFounded, WFMin
<1>2. \A y \in S : ~(y < x)
  BY <1>1 DEF OpToRel
<1> QED
  BY <1>2

(* The function that FlattenSeq builds, and what it returns.               *)
SumsOf(d, n, g) == g = [i \in 1..n |-> IF i = 1 THEN d[i] ELSE g[i - 1] \o d[i]]
FlatBy(S, d, n, g) ==
    /\ g \in [1..n -> Seq(S)]
    /\ g[1] = d[1] /\ \A i \in 2..n : g[i] = g[i - 1] \o d[i]
    /\ F!FlattenSeq(d) = g[n]

(* The function that FlattenSeq builds exists. *)
LEMMA SumsExist ==
  ASSUME NEW S, NEW n \in Nat \ {0}, NEW d \in [1..n -> Seq(S)]
  PROVE \E g : SumsOf(d, n, g)
<1> DEFINE Sums(g, m) == SumsOf(d, m, g)
           Bad == {m \in 1..n : ~\E g : Sums(g, m)}
<1> SUFFICES \E g : Sums(g, n)
  OBVIOUS
<1> HIDE DEF Sums
<1>0. n \in 1..n
  OBVIOUS
<1> SUFFICES ASSUME Bad # {} PROVE FALSE
  BY <1>0
<1>1. PICK m \in Bad : \A y \in Bad : m <= y
  <2>1. Bad \in SUBSET Nat
    OBVIOUS
  <2> HIDE DEF Bad
  <2> QED
    BY <2>1, LeastNat
<1>2. m \in 1..n /\ ~\E g : Sums(g, m)
  BY <1>1
<1>3. CASE m = 1
  <2> DEFINE g == [i \in 1..1 |-> d[i]]
  <2>1. Sums(g, 1)
    BY DEF Sums, SumsOf
  <2> HIDE DEF g
  <2> QED
    BY <1>2, <1>3, <2>1
<1>4. CASE m # 1
  <2>1. m - 1 \in 1..n /\ ~(m <= m - 1)
    BY <1>2, <1>4
  <2>2. PICK g : Sums(g, m - 1)
    BY <1>1, <2>1
  <2> DEFINE h == [i \in 1..m |-> IF i = m THEN g[m - 1] \o d[m] ELSE g[i]]
  <2>3. Sums(h, m)
    <3>1. ASSUME NEW i \in 1..m PROVE h[i] = IF i = 1 THEN d[i] ELSE h[i - 1] \o d[i]
      <4>1. CASE i = m
        <5>1. m - 1 \in 1..m /\ m - 1 # m
          BY <1>2, <1>4
        <5> QED
          BY <1>4, <4>1, <5>1
      <4>2. CASE i # m
        <5>1. i \in 1..(m - 1)
          BY <1>2, <4>2
        <5>2. h[i] = g[i]
          BY <4>2
        <5>3. g[i] = IF i = 1 THEN d[i] ELSE g[i - 1] \o d[i]
          BY <2>2, <5>1 DEF Sums, SumsOf
        <5>4. i # 1 => h[i - 1] = g[i - 1]
          BY <1>2, <5>1
        <5> QED
          BY <5>2, <5>3, <5>4
      <4> QED
        BY <4>1, <4>2
    <3>2. h = [i \in 1..m |-> h[i]]
      OBVIOUS
    <3> HIDE DEF h
    <3> QED
      BY <3>1, <3>2 DEF Sums, SumsOf
  <2> HIDE DEF h
  <2> QED
    BY <1>2, <2>3
<1> QED
  BY <1>3, <1>4

(* FlattenSeq returns the last of the sums of the sequence. *)
LEMMA Flattened ==
    ASSUME NEW S, NEW n \in Nat \ {0}, NEW d \in [1..n -> Seq(S)]
    PROVE  \E g : FlatBy(S, d, n, g)
<1>1. d \in Seq(Seq(S)) /\ Len(d) = n
  OBVIOUS
<1> DEFINE g == CHOOSE h : h = [i \in 1..Len(d) |-> IF i = 1 THEN d[i] ELSE h[i - 1] \o d[i]]
<1>2. g = [i \in 1..Len(d) |-> IF i = 1 THEN d[i] ELSE g[i - 1] \o d[i]]
  <2>1. Len(d) \in Nat \ {0} /\ d \in [1..Len(d) -> Seq(S)]
    BY <1>1
  <2>2. \E h : SumsOf(d, Len(d), h)
    BY <2>1, SumsExist
  <2>3. \E h : h = [i \in 1..Len(d) |-> IF i = 1 THEN d[i] ELSE h[i - 1] \o d[i]]
    BY <2>2 DEF SumsOf
  <2> QED
    BY <2>3, Zenon
<1>3. F!FlattenSeq(d) = g[Len(d)]
  BY <1>1 DEF F!FlattenSeq
<1> HIDE DEF g
<1>4. g = [i \in 1..n |-> g[i]] /\ g[1] = d[1] /\ \A i \in 2..n : g[i] = g[i - 1] \o d[i]
  <2>1. g = [i \in 1..n |-> IF i = 1 THEN d[i] ELSE g[i - 1] \o d[i]]
    BY <1>1, <1>2, Zenon
  <2>2. \A i \in 1..n : g[i] = IF i = 1 THEN d[i] ELSE g[i - 1] \o d[i]
    BY <2>1, Zenon
  <2>3. g = [i \in 1..n |-> g[i]]
    BY <2>1, Zenon
  <2>4. 1 \in 1..n /\ \A i \in 2..n : i \in 1..n /\ i # 1
    OBVIOUS
  <2> QED
    BY <2>2, <2>3, <2>4, Zenon
<1>5. \A i \in 1..n : g[i] \in Seq(S)
  <2> DEFINE Bad == {i \in 1..n : g[i] \notin Seq(S)}
  <2> SUFFICES ASSUME Bad # {} PROVE FALSE
    OBVIOUS
  <2>1. PICK m \in Bad : \A y \in Bad : m <= y
    <3>1. Bad \in SUBSET Nat
      OBVIOUS
    <3> HIDE DEF Bad
    <3> QED
      BY <3>1, LeastNat
  <2>2. m \in 1..n /\ g[m] \notin Seq(S) /\ m # 1
    BY <1>4, <2>1
  <2>3. m \in 2..n /\ m - 1 \in 1..n /\ ~(m <= m - 1)
    BY <2>2
  <2>4. g[m - 1] \in Seq(S)
    BY <2>1, <2>3
  <2>5. g[m - 1] \o d[m] \in Seq(S)
    BY <2>2, <2>4, ConcatProperties
  <2> QED
    BY <1>4, <2>2, <2>3, <2>5
<1>6. g \in [1..n -> Seq(S)]
  BY <1>4, <1>5
<1>7. FlatBy(S, d, n, g)
  BY <1>1, <1>3, <1>4, <1>6 DEF FlatBy
<1> QED
  BY <1>7

AssocIn(S) ==
    \A a \in Seq(S), b \in Seq(S), c \in Seq(S) : (a \o b) \o c = a \o (b \o c)

LEMMA ConcatAssoc == \A S : AssocIn(S)
  BY ConcatAssociative DEF AssocIn

(* e is d with x added to the last sequence that is not empty.             *)
Grown(S, d, e, n, k, x) ==
    /\ n \in Nat \ {0} /\ k \in 1..n /\ x \in Seq(S)
    /\ d \in [1..n -> Seq(S)] /\ e \in [1..n -> Seq(S)]
    /\ \A i \in (k + 1)..n : d[i] = <<>>
    /\ e[k] = d[k] \o x /\ \A i \in 1..n : i # k => e[i] = d[i]

(* Adding to the last sequence that is not empty adds to the whole.        *)
LEMMA FlattenedMore ==
    ASSUME NEW S, NEW d, NEW e, NEW n, NEW k, NEW x, Grown(S, d, e, n, k, x)
    PROVE  F!FlattenSeq(d) \in Seq(S) /\ F!FlattenSeq(e) = F!FlattenSeq(d) \o x
<1> SUFFICES ASSUME n \in Nat \ {0}, d \in [1..n -> Seq(S)], e \in [1..n -> Seq(S)],
                    k \in 1..n, x \in Seq(S)
             PROVE  F!FlattenSeq(d) \in Seq(S) /\ F!FlattenSeq(e) = F!FlattenSeq(d) \o x
  BY DEF Grown
<1>a. \A i \in (k + 1)..n : d[i] = <<>>
  BY DEF Grown
<1>b. e[k] = d[k] \o x /\ \A i \in 1..n : i # k => e[i] = d[i]
  BY DEF Grown
<1>0. \A a \in Seq(S), b \in Seq(S) : (a \o b) \o x = a \o (b \o x) /\ a \o b \in Seq(S)
  <2>1. \A a \in Seq(S), b \in Seq(S) : (a \o b) \o x = a \o (b \o x)
    <3>1. AssocIn(S)
      BY ConcatAssoc
    <3> QED
      BY <3>1 DEF AssocIn
  <2> QED
    BY <2>1, ConcatProperties
<1>1. PICK g : FlatBy(S, d, n, g)
  BY Flattened
<1>2. PICK h : FlatBy(S, e, n, h)
  BY Flattened
<1> DEFINE Bad == {i \in 1..n : ~(h[i] = IF i < k THEN g[i] ELSE g[i] \o x)}
<1>3. ASSUME Bad # {} PROVE FALSE
  <2>1. PICK m \in Bad : \A y \in Bad : m <= y
    <3>1. Bad \in SUBSET Nat
      OBVIOUS
    <3> HIDE DEF Bad
    <3> QED
      BY <1>3, <3>1, LeastNat
  <2>2. m \in 1..n /\ ~(h[m] = IF m < k THEN g[m] ELSE g[m] \o x)
    BY <2>1
  <2>3. CASE m = 1
    <3>1. h[1] = e[1] /\ g[1] = d[1] /\ 1 \in 1..n
      BY <1>1, <1>2 DEF FlatBy
    <3>2. CASE k = 1
      BY <1>b, <2>2, <2>3, <3>1, <3>2
    <3>3. CASE k # 1
      BY <1>b, <2>2, <2>3, <3>1, <3>3
    <3> QED
      BY <3>2, <3>3
  <2>4. CASE m # 1
    <3>1. m \in 2..n /\ m - 1 \in 1..n /\ ~(m <= m - 1)
      BY <2>2, <2>4
    <3>2. h[m - 1] = IF m - 1 < k THEN g[m - 1] ELSE g[m - 1] \o x
      BY <2>1, <3>1
    <3>3. h[m] = h[m - 1] \o e[m] /\ g[m] = g[m - 1] \o d[m]
      BY <1>1, <1>2, <3>1 DEF FlatBy
    <3>4. PICK a \in Seq(S), b \in Seq(S) : a = g[m - 1] /\ b = d[m]
      BY <1>1, <2>2, <3>1 DEF FlatBy
    <3>5. CASE m < k
      <4>1. h[m - 1] = a /\ e[m] = b
        BY <1>b, <2>2, <3>1, <3>2, <3>4, <3>5
      <4> QED
        BY <2>2, <3>3, <3>4, <3>5, <4>1
    <3>6. CASE m = k
      <4>1. m - 1 < k /\ ~(m < k)
        BY <3>1, <3>6
      <4>2. h[m - 1] = a
        BY <3>2, <3>4, <4>1
      <4>3. e[m] = b \o x
        BY <1>b, <3>4, <3>6
      <4>4. (a \o b) \o x = a \o (b \o x)
        BY <1>0
      <4>5. h[m] = a \o (b \o x) /\ g[m] = a \o b
        BY <3>3, <3>4, <4>2, <4>3
      <4>6. h[m] = g[m] \o x
        BY <4>4, <4>5
      <4> QED
        BY <2>2, <4>1, <4>6
    <3>7. CASE m > k
      <4>0. m \in Int /\ k \in Int /\ n \in Int /\ m <= n
        BY <3>1
      <4>1. m \in (k + 1)..n /\ ~(m - 1 < k) /\ ~(m < k) /\ m # k
        BY <3>7, <4>0
      <4>2. h[m - 1] = a \o x /\ e[m] = <<>> /\ b = <<>>
        BY <1>a, <1>b, <2>2, <3>2, <3>4, <4>1
      <4>3. a \o x \in Seq(S)
        BY ConcatProperties
      <4>4. (a \o x) \o <<>> = a \o x /\ a \o <<>> = a
        BY <4>3, ConcatEmptySeq
      <4>5. h[m] = a \o x /\ g[m] = a
        BY <3>3, <3>4, <4>2, <4>4
      <4> QED
        BY <2>2, <4>1, <4>5
    <3> QED
      BY <2>2, <3>5, <3>6, <3>7
  <2> QED
    BY <2>3, <2>4
<1>4. n \in 1..n /\ ~(n < k)
  OBVIOUS
<1>5. h[n] = g[n] \o x
  BY <1>3, <1>4
<1> QED
  BY <1>1, <1>2, <1>4, <1>5 DEF FlatBy

LEMMA FlattenedEmpty ==
    ASSUME NEW S, NEW n \in Nat \ {0}, NEW d \in [1..n -> Seq(S)], \A i \in 1..n : d[i] = <<>>
    PROVE  F!FlattenSeq(d) = <<>>
<1>1. PICK g : FlatBy(S, d, n, g)
  BY Flattened
<1> DEFINE Bad == {i \in 1..n : g[i] # <<>>}
<1>2. ASSUME Bad # {} PROVE FALSE
  <2>1. PICK m \in Bad : \A y \in Bad : m <= y
    <3>1. Bad \in SUBSET Nat
      OBVIOUS
    <3> HIDE DEF Bad
    <3> QED
      BY <1>2, <3>1, LeastNat
  <2>2. m \in 1..n /\ g[m] # <<>> /\ m # 1
    BY <1>1, <2>1 DEF FlatBy
  <2>3. m \in 2..n /\ m - 1 \in 1..n /\ ~(m <= m - 1)
    BY <2>2
  <2>4. g[m - 1] = <<>>
    BY <2>1, <2>3
  <2>5. g[m] = g[m - 1] \o d[m]
    BY <1>1, <2>3 DEF FlatBy
  <2>6. d[m] = <<>>
    BY <2>2
  <2> QED
    BY <2>2, <2>4, <2>5, <2>6
<1>3. n \in 1..n
  OBVIOUS
<1> QED
  BY <1>1, <1>2, <1>3 DEF FlatBy

(* The files after the one that is open are empty: rollFile() opens a file *)
(* only in a second later than the last roll, also when the clock was set  *)
(* back.                                                                   *)
LaterEmpty == \A t \in F!Times : t > lastRoll_ => disk[t] = <<>>

SinkInv == FileInv /\ LaterEmpty

LEMMA OnDiskType ==
    ASSUME FileInv
    PROVE  /\ MaxTime \in Nat \ {0} /\ disk \in [1..MaxTime -> Seq(F!Line)]
           /\ buffer \in Seq(F!Line) /\ lastRoll_ \in 1..MaxTime
           /\ F!OnDisk = F!FlattenSeq(disk) /\ F!OnDisk \in Seq(F!Line)
<1>1. /\ MaxTime \in Nat \ {0} /\ disk \in [1..MaxTime -> Seq(F!Line)]
      /\ buffer \in Seq(F!Line) /\ lastRoll_ \in 1..MaxTime
  BY LogOutputAssumption DEF FileInv, FileTypes, F!TypeOK, F!FileNames, F!Times
<1>2. [t \in 1..MaxTime |-> disk[t]] = disk
  BY <1>1
<1>3. F!OnDisk = F!FlattenSeq(disk)
  BY <1>2 DEF F!OnDisk
<1>4. PICK g : FlatBy(F!Line, disk, MaxTime, g)
  BY <1>1, Flattened
<1>5. F!FlattenSeq(disk) \in Seq(F!Line)
  BY <1>1, <1>4 DEF FlatBy
<1> QED
  BY <1>1, <1>3, <1>5

(* Lines leave the buffer for the file that is open, and at most one comes *)
(* into the buffer; some are lost only if a write fails.                   *)
Moves(x) ==
    /\ disk' = F!Written(disk, x)
    /\ \E n \in 0..Len(buffer) :
         /\ Left(n, x \o buffer')
         /\ \/ n = Len(buffer) /\ failures' = failures
            \/ failures' = failures + 1

LEMMA WrittenMore ==
    ASSUME SinkInv, NEW x \in Seq(F!Line), disk' = F!Written(disk, x), FileInv'
    PROVE  F!OnDisk' = F!OnDisk \o x
<1>1. /\ MaxTime \in Nat \ {0} /\ disk \in [1..MaxTime -> Seq(F!Line)]
      /\ lastRoll_ \in 1..MaxTime /\ F!OnDisk = F!FlattenSeq(disk)
  BY OnDiskType DEF SinkInv
<1>2. [t \in 1..MaxTime |-> disk'[t]] = disk' /\ disk' \in [1..MaxTime -> Seq(F!Line)]
  <2>1. disk' \in [1..MaxTime -> Seq(F!Line)]
    BY DEF FileInv, FileTypes, F!TypeOK, F!FileNames, F!Times, F!Line
  <2> QED
    BY <2>1
<1>3. F!OnDisk' = F!FlattenSeq(disk')
  BY <1>2 DEF F!OnDisk
<1>4. /\ disk'[lastRoll_] = disk[lastRoll_] \o x
      /\ \A i \in 1..MaxTime : i # lastRoll_ => disk'[i] = disk[i]
  BY <1>1 DEF F!Written
<1>5. \A i \in (lastRoll_ + 1)..MaxTime : disk[i] = <<>>
  BY <1>1 DEF SinkInv, LaterEmpty, F!Times
<1>6. F!FlattenSeq(disk') = F!FlattenSeq(disk) \o x
  <2>1. PICK e \in [1..MaxTime -> Seq(F!Line)] : e = disk'
    BY <1>2
  <2>2. PICK d \in [1..MaxTime -> Seq(F!Line)] : d = disk
    BY <1>1
  <2>3. PICK k \in 1..MaxTime : k = lastRoll_
    BY <1>1
  <2>4. Grown(F!Line, d, e, MaxTime, k, x)
    BY <1>1, <1>4, <1>5, <2>1, <2>2, <2>3 DEF Grown
  <2>5. F!FlattenSeq(e) = F!FlattenSeq(d) \o x
    BY <2>4, FlattenedMore
  <2> QED
    BY <2>1, <2>2, <2>5
<1> QED
  BY <1>1, <1>3, <1>6

LEMMA FirstPart ==
    ASSUME NEW S, NEW o \in Seq(S), NEW b \in Seq(S)
    PROVE  o \o <<>> = SubSeq(o \o b, 1, Len(o))
<1>1. o \o b \in Seq(S) /\ Len(o) \in Nat /\ Len(o \o b) >= Len(o)
      /\ \A i \in 1..Len(o) : (o \o b)[i] = o[i]
  BY ConcatProperties
<1>2. PICK q \in Seq(S) : q = o \o b
  BY <1>1
<1>3. SubSeq(q, 1, Len(o)) \in Seq(S) /\ Len(SubSeq(q, 1, Len(o))) = Len(o)
      /\ \A i \in 1..Len(o) : SubSeq(q, 1, Len(o))[i] = o[i]
  BY <1>1, <1>2
<1>4. SubSeq(q, 1, Len(o)) = o
  BY <1>3, SeqEqual
<1> QED
  BY <1>2, <1>4

(* q begins with the first n of b, and has at most one more. *)
Begins(n, b, q) ==
    n \in 0..Len(b) /\ Len(q) \in n..(n + 1) /\ \A i \in 1..n : q[i] = b[i]

(* So does o \o q with o and the first n of b. *)
BeginsAfter(o, n, b, q) ==
    /\ Len(o) + n \in Len(o)..Len(o \o b)
    /\ Len(o \o q) \in (Len(o) + n)..(Len(o) + n + 1)
    /\ SubSeq(o \o q, 1, Len(o) + n) = SubSeq(o \o b, 1, Len(o) + n)

LEMMA LeftKeeps ==
    ASSUME NEW S, NEW o \in Seq(S), NEW b \in Seq(S), NEW q \in Seq(S), NEW n, Begins(n, b, q)
    PROVE  BeginsAfter(o, n, b, q)
<1>0. /\ Len(o) \in Nat /\ Len(b) \in Nat /\ Len(q) \in Nat /\ n \in Nat /\ n <= Len(b)
      /\ n <= Len(q) /\ Len(q) <= n + 1 /\ \A i \in 1..n : q[i] = b[i]
  BY DEF Begins
<1>1. PICK k \in Nat : k = Len(o) + n
  BY <1>0
<1>2. PICK c \in Seq(S) : c = o \o b
  BY ConcatProperties
<1>3. PICK d \in Seq(S) : d = o \o q
  BY ConcatProperties
<1>4. Len(c) = Len(o) + Len(b) /\ Len(d) = Len(o) + Len(q)
  BY <1>2, <1>3, ConcatProperties
<1>5. k \in Len(o)..Len(c) /\ Len(d) \in k..(k + 1)
  BY <1>0, <1>1, <1>4
<1>6. \A i \in 1..k : d[i] = c[i]
  <2> SUFFICES ASSUME NEW i \in 1..k PROVE d[i] = c[i]
    OBVIOUS
  <2>1. i \in 1..(Len(o) + Len(b)) /\ i \in 1..(Len(o) + Len(q))
    BY <1>0, <1>1
  <2>2. c[i] = IF i <= Len(o) THEN o[i] ELSE b[i - Len(o)]
    BY <1>2, <2>1, ConcatProperties, Zenon
  <2>3. d[i] = IF i <= Len(o) THEN o[i] ELSE q[i - Len(o)]
    BY <1>3, <2>1, ConcatProperties, Zenon
  <2>4. ~(i <= Len(o)) => i - Len(o) \in 1..n
    BY <1>0, <1>1
  <2> QED
    BY <1>0, <2>2, <2>3, <2>4
<1>7. /\ SubSeq(d, 1, k) \in Seq(S) /\ Len(SubSeq(d, 1, k)) = k
      /\ \A i \in 1..k : SubSeq(d, 1, k)[i] = d[i]
  <2>1. k \in 0..Len(d) /\ \A i \in 1..Len(d) : d[i] \in S
    BY <1>0, <1>1, <1>4
  <2> QED
    BY <2>1, SubSeqProperties
<1>8. /\ SubSeq(c, 1, k) \in Seq(S) /\ Len(SubSeq(c, 1, k)) = k
      /\ \A i \in 1..k : SubSeq(c, 1, k)[i] = c[i]
  <2>1. k \in 0..Len(c) /\ \A i \in 1..Len(c) : c[i] \in S
    BY <1>0, <1>1, <1>4
  <2> QED
    BY <2>1, SubSeqProperties
<1>9. SubSeq(d, 1, k) = SubSeq(c, 1, k)
  BY <1>6, <1>7, <1>8, SeqEqual
<1> QED
  BY <1>1, <1>2, <1>3, <1>5, <1>9 DEF BeginsAfter

(* Such a move is a step of the sink. *)
LEMMA MoveTakes ==
    ASSUME SinkInv, FileInv', NEW x \in Seq(F!Line), Moves(x), alive, alive' = alive
    PROVE  F!Sink!Take \/ F!Sink!Fail
<1>1. /\ F!OnDisk \in Seq(F!Line) /\ buffer \in Seq(F!Line) /\ buffer' \in Seq(F!Line)
  <2>1. buffer' \in Seq(F!Line)
    BY DEF FileInv, FileTypes, F!TypeOK, F!Line, F!Times
  <2> QED
    BY <2>1, OnDiskType DEF SinkInv
<1>2. F!OnDisk' = F!OnDisk \o x
  BY WrittenMore DEF Moves
<1>3. PICK o \in Seq(F!Line) : o = F!OnDisk
  BY <1>1
<1>4. PICK b \in Seq(F!Line) : b = buffer'
  BY <1>1
<1>5. (o \o x) \o b = o \o (x \o b)
  <2>1. AssocIn(F!Line)
    BY ConcatAssoc
  <2> QED
    BY <2>1 DEF AssocIn
<1>6. /\ Len(o) \in Nat /\ Len(x) \in Nat /\ Len(b) \in Nat
      /\ o \o x \in Seq(F!Line) /\ Len(o \o x) = Len(o) + Len(x)
      /\ (o \o x) \o b \in Seq(F!Line) /\ Len((o \o x) \o b) = Len(o) + Len(x) + Len(b)
  OBVIOUS
<1>7. Len(o \o x) \in Len(o)..Len((o \o x) \o b)
  BY <1>6
<1>8. PICK n \in 0..Len(buffer) :
        /\ Left(n, x \o b)
        /\ \/ n = Len(buffer) /\ failures' = failures
           \/ failures' = failures + 1
  BY <1>4 DEF Moves
<1>9. /\ Len(o) + n \in Len(o)..Len(o \o buffer)
      /\ Len((o \o x) \o b) \in (Len(o) + n)..(Len(o) + n + 1)
      /\ SubSeq((o \o x) \o b, 1, Len(o) + n) = SubSeq(o \o buffer, 1, Len(o) + n)
  <2>1. PICK q \in Seq(F!Line) : q = x \o b
    BY ConcatProperties
  <2>2. PICK c \in Seq(F!Line) : c = buffer
    BY <1>1
  <2>3. Begins(n, c, q)
    BY <1>8, <2>1, <2>2 DEF Left, Begins
  <2>4. BeginsAfter(o, n, c, q)
    BY <2>3, LeftKeeps
  <2> QED
    BY <1>5, <2>1, <2>2, <2>4 DEF BeginsAfter
<1>10. F!Sink!Keeps(Len(o) + n)
  BY <1>2, <1>3, <1>4, <1>7, <1>9 DEF F!Sink!Keeps
<1>11. CASE n = Len(buffer) /\ failures' = failures
  <2>1. Len(F!OnDisk \o buffer) = Len(o) + n
    BY <1>1, <1>3, <1>11, ConcatProperties
  <2> QED
    BY <1>10, <1>11, <2>1 DEF F!Sink!Take
<1>12. CASE failures' = failures + 1
  BY <1>3, <1>9, <1>10, <1>12 DEF F!Sink!Fail
<1> QED
  BY <1>8, <1>11, <1>12

LEMMA WrittenTwice ==
    ASSUME FileInv, NEW x \in Seq(F!Line), NEW y \in Seq(F!Line)
    PROVE  F!Written(F!Written(disk, x), y) = F!Written(disk, x \o y)
<1>1. disk \in [F!FileNames -> Seq(F!Line)] /\ lastRoll_ \in F!FileNames
  BY DEF FileInv, FileTypes, F!TypeOK, F!FileNames
<1>2. PICK c \in Seq(F!Line) : c = disk[lastRoll_]
  BY <1>1
<1>3. (c \o x) \o y = c \o (x \o y)
  <2>1. AssocIn(F!Line)
    BY ConcatAssoc
  <2> QED
    BY <2>1 DEF AssocIn
<1>4. PICK d : d = F!Written(disk, x)
  OBVIOUS
<1>5. d = [f \in F!FileNames |-> IF f = lastRoll_ THEN c \o x ELSE disk[f]]
  BY <1>1, <1>2, <1>4 DEF F!Written
<1>6. F!Written(d, y) = [f \in F!FileNames |-> IF f = lastRoll_ THEN (c \o x) \o y ELSE disk[f]]
  BY <1>1, <1>5 DEF F!Written
<1>7. F!Written(disk, x \o y)
        = [f \in F!FileNames |-> IF f = lastRoll_ THEN c \o (x \o y) ELSE disk[f]]
  BY <1>1, <1>2 DEF F!Written
<1> QED
  BY <1>3, <1>4, <1>6, <1>7

(* Each operation on the file moves lines; rolls go to a later second. *)
LEMMA OwnerMoves ==
    ASSUME FileInv, NEW ok \in BOOLEAN,
           F!Flush(ok) \/ F!RollFile(ok) \/ \E len \in Lens : F!AppendLine(len, ok)
    PROVE  /\ \E x \in Seq(F!Line) : Moves(x)
           /\ alive /\ alive' = alive
           /\ lastRoll_' = lastRoll_ \/ (lastRoll_' = now /\ now > lastRoll_)
<1>0. /\ buffer \in Seq(F!Line) /\ now \in Nat /\ lastRoll_ \in Nat /\ <<>> \in Seq(F!Line)
      /\ disk \in [F!FileNames -> Seq(F!Line)] /\ alive \in BOOLEAN
  BY LogOutputAssumption DEF FileInv, FileTypes, F!TypeOK, F!Times
<1>a. \A q \in Seq(F!Line) : q \o <<>> = q /\ <<>> \o q = q
  OBVIOUS
<1>b. F!Written(disk, <<>>) = disk
  BY <1>0, <1>a DEF F!Written
<1>c. F!Tried(ok) /\ failures' = IF ok THEN failures ELSE failures + 1
  <2>1. F!Tried(ok)
    BY DEF F!Flush, F!RollFile, F!AppendLine
  <2> QED
    BY <2>1, TriedType
<1>d. ASSUME NEW w \in F!Drained(buffer, ok), disk' = F!Written(disk, w), buffer' = <<>>
      PROVE  w \in Seq(F!Line) /\ Moves(w)
  <2>1. /\ w \in Seq(F!Line) /\ Len(w) \in 0..Len(buffer) /\ (ok => w = buffer)
        /\ \A i \in 1..Len(w) : w[i] = buffer[i]
    BY <1>0, DrainedLines
  <2>2. w \o buffer' = w /\ Len(w) \in Len(w)..(Len(w) + 1)
    BY <1>a, <1>d, <2>1
  <2>3. Left(Len(w), w \o buffer')
    BY <2>1, <2>2 DEF Left
  <2> QED
    BY <1>c, <1>d, <2>1, <2>3 DEF Moves
<1>1. CASE F!Flush(ok)
  <2>1. alive /\ alive' = alive /\ lastRoll_' = lastRoll_ /\ buffer' = <<>>
    BY <1>1 DEF F!Flush
  <2>2. PICK w \in F!Drained(buffer, ok) : disk' = F!Written(disk, w)
    BY <1>1 DEF F!Flush
  <2> QED
    BY <1>d, <2>1, <2>2
<1>2. CASE F!RollFile(ok)
  <2>0. alive /\ alive' = alive
    BY <1>2 DEF F!RollFile
  <2>1. CASE now > lastRoll_
    <3>1. /\ \E w \in F!Drained(buffer, ok) : disk' = F!Written(disk, w)
          /\ buffer' = <<>> /\ lastRoll_' = now
      BY <1>0, <1>2, <2>1 DEF F!RollFile, F!rollFile, F!Reopen
    <3>2. \E w \in Seq(F!Line) : Moves(w)
      BY <1>d, <3>1
    <3> QED
      BY <1>0, <2>0, <2>1, <3>1, <3>2
  <2>2. CASE ~(now > lastRoll_)
    <3>1. disk' = disk /\ buffer' = buffer /\ lastRoll_' = lastRoll_ /\ ok
      BY <1>0, <1>2, <2>2 DEF F!RollFile, F!rollFile, F!Keep, F!periodVars
    <3>2. Left(Len(buffer), <<>> \o buffer') /\ Len(buffer) \in 0..Len(buffer)
      BY <1>0, <1>a, <3>1 DEF Left
    <3>3. disk' = F!Written(disk, <<>>)
      BY <1>b, <3>1
    <3>4. Moves(<<>>)
      BY <1>c, <3>1, <3>2, <3>3 DEF Moves
    <3> QED
      BY <1>0, <2>0, <3>1, <3>4
  <2> QED
    BY <2>1, <2>2
<1>3. ASSUME NEW len \in Lens, F!AppendLine(len, ok)
      PROVE  /\ \E x \in Seq(F!Line) : Moves(x)
             /\ alive /\ alive' = alive
             /\ lastRoll_' = lastRoll_ \/ (lastRoll_' = now /\ now > lastRoll_)
  <2>1. PICK a \in Seq(F!Line), rest \in Seq(F!Line) :
          /\ F!RollOrFlush(F!Written(disk, a), rest, writtenBytes_ + len, ok)
          /\ \E n \in 0..Len(buffer) : Left(n, a \o rest) /\ (ok => n = Len(buffer))
    BY <1>3, AppendParts
  <2>n. PICK n \in 0..Len(buffer) : Left(n, a \o rest) /\ (ok => n = Len(buffer))
    BY <2>1
  <2>2. alive /\ alive' = alive
    BY <1>3 DEF F!AppendLine
  <2>3. PICK d : d = F!Written(disk, a)
    OBVIOUS
  <2>4. /\ \/ disk' = d /\ buffer' = rest
           \/ \E w \in F!Drained(rest, ok) : disk' = F!Written(d, w) /\ buffer' = <<>>
        /\ lastRoll_' = lastRoll_ \/ (lastRoll_' = now /\ now > lastRoll_)
    BY <2>1, <2>3 DEF F!RollOrFlush, F!rollFile, F!Reopen, F!Keep, F!periodVars
  <2>5. CASE disk' = d /\ buffer' = rest
    <3>1. Moves(a)
      BY <1>c, <2>n, <2>3, <2>5 DEF Moves
    <3> QED
      BY <2>2, <2>4, <3>1
  <2>6. ASSUME NEW w \in F!Drained(rest, ok), disk' = F!Written(d, w), buffer' = <<>>
        PROVE  \E x \in Seq(F!Line) : Moves(x)
    <3>0. /\ w \in Seq(F!Line) /\ Len(w) \in 0..Len(rest) /\ (ok => w = rest)
          /\ \A i \in 1..Len(w) : w[i] = rest[i]
      BY DrainedLines
    <3>1. PICK x \in Seq(F!Line) : x = a \o w
      BY <3>0, ConcatProperties
    <3>2. disk' = F!Written(disk, x)
      BY <2>3, <2>6, <3>0, <3>1, WrittenTwice
    <3>3. x \o buffer' = x
      BY <1>a, <2>6
    <3>4. PICK q \in Seq(F!Line) : q = a \o rest
      BY ConcatProperties
    <3>5. Len(x) \in 0..Len(q) /\ \A i \in 1..Len(x) : x[i] = q[i]
      <4>1. /\ Len(x) = Len(a) + Len(w) /\ Len(q) = Len(a) + Len(rest)
            /\ Len(a) \in Nat /\ Len(w) \in Nat /\ Len(rest) \in Nat /\ Len(w) <= Len(rest)
        BY <3>0, <3>1, <3>4, ConcatProperties
      <4>2. ASSUME NEW i \in 1..Len(x) PROVE x[i] = q[i]
        <5>1. i \in 1..(Len(a) + Len(w)) /\ i \in 1..(Len(a) + Len(rest))
          BY <4>1
        <5>2. x[i] = IF i <= Len(a) THEN a[i] ELSE w[i - Len(a)]
          BY <3>0, <3>1, <5>1, ConcatProperties, Zenon
        <5>3. q[i] = IF i <= Len(a) THEN a[i] ELSE rest[i - Len(a)]
          BY <3>4, <5>1, ConcatProperties, Zenon
        <5>4. ~(i <= Len(a)) => i - Len(a) \in 1..Len(w)
          BY <4>1
        <5> QED
          BY <3>0, <5>2, <5>3, <5>4
      <4> QED
        BY <4>1, <4>2
    <3>6. Len(q) \in n..(n + 1) /\ n \in Nat /\ n <= Len(buffer) /\ \A i \in 1..n : q[i] = buffer[i]
      BY <1>0, <2>n, <3>4 DEF Left
    <3>7. CASE Len(x) <= n
      <4>0. Len(x) \in Nat /\ Len(q) \in Nat /\ Len(buffer) \in Nat
        BY <1>0
      <4>1. Len(x) \in 0..Len(buffer) /\ Left(Len(x), x)
        BY <3>5, <3>6, <3>7, <4>0 DEF Left
      <4>2. ASSUME ok PROVE Len(x) = Len(buffer)
        <5>1. x = q /\ n = Len(buffer)
          BY <2>n, <3>0, <3>1, <3>4, <4>2
        <5> QED
          BY <3>6, <3>7, <4>0, <5>1
      <4> QED
        BY <1>c, <3>2, <3>3, <4>1, <4>2 DEF Moves
    <3>8. CASE ~(Len(x) <= n)
      <4>0. Len(x) \in Nat /\ Len(q) \in Nat
        OBVIOUS
      <4>1. Len(x) \in n..(n + 1) /\ \A i \in 1..n : i \in 1..Len(x)
        BY <3>5, <3>6, <3>8, <4>0
      <4>2. \A i \in 1..n : x[i] = buffer[i]
        BY <3>5, <3>6, <4>1
      <4>3. Left(n, x)
        BY <4>1, <4>2 DEF Left
      <4> QED
        BY <1>c, <2>n, <3>2, <3>3, <4>3 DEF Moves
    <3> QED
      BY <3>7, <3>8
  <2> QED
    BY <2>2, <2>4, <2>5, <2>6
<1> QED
  BY <1>1, <1>2, <1>3

LEMMA SinkStep ==
    ASSUME SinkInv, FileInv', [NextLogger \/ NextFile]_allVars
    PROVE  LaterEmpty' /\ [F!Sink!Next]_(F!Sink!vars)
<1>0. /\ now \in Nat /\ lastRoll_ \in Nat /\ lastRoll_ \in F!Times /\ LaterEmpty
      /\ disk \in [F!Times -> Seq(F!Line)]
  <2>1. /\ now \in F!Times /\ lastRoll_ \in F!Times /\ LaterEmpty
        /\ disk \in [F!Times -> Seq(F!Line)]
    BY DEF SinkInv, FileInv, FileTypes, F!TypeOK, F!FileNames
  <2>2. \A t \in F!Times : t \in Nat
    BY LogOutputAssumption DEF F!Times
  <2> QED
    BY <2>1, <2>2
<1>1. CASE UNCHANGED <<disk, buffer, alive, lastRoll_, failures>>
  <2>1. LaterEmpty'
    BY <1>0, <1>1 DEF LaterEmpty, F!Times
  <2>2. F!OnDisk' = F!OnDisk
    BY <1>1 DEF F!OnDisk
  <2>3. UNCHANGED F!Sink!vars
    BY <1>1, <2>2 DEF F!Sink!vars
  <2> QED
    BY <2>1, <2>3
<1>2. ASSUME NEW ok \in BOOLEAN,
             F!Flush(ok) \/ F!RollFile(ok) \/ \E len \in Lens : F!AppendLine(len, ok)
      PROVE  LaterEmpty' /\ [F!Sink!Next]_(F!Sink!vars)
  <2>1. /\ \E x \in Seq(F!Line) : Moves(x)
        /\ alive /\ alive' = alive
        /\ lastRoll_' = lastRoll_ \/ (lastRoll_' = now /\ now > lastRoll_)
    BY <1>2, OwnerMoves DEF SinkInv
  <2>2. PICK x \in Seq(F!Line) : Moves(x)
    BY <2>1
  <2>3. F!Sink!Take \/ F!Sink!Fail
    BY <2>1, <2>2, MoveTakes
  <2>4. \A t \in F!Times : t # lastRoll_ => disk'[t] = disk[t]
    BY <1>0, <2>2 DEF Moves, F!Written
  <2>5. LaterEmpty'
    <3> SUFFICES ASSUME NEW t \in F!Times, t > lastRoll_' PROVE disk'[t] = <<>>
      BY DEF LaterEmpty, F!Times
    <3>1. t \in Nat /\ t > lastRoll_ /\ t # lastRoll_
      BY <1>0, <2>1, LogOutputAssumption DEF F!Times
    <3> QED
      BY <1>0, <2>4, <3>1 DEF LaterEmpty
  <2> QED
    BY <2>3, <2>5 DEF F!Sink!Next
<1>3. CASE F!Crash
  <2>1. /\ alive /\ alive' = FALSE /\ disk' = disk /\ buffer' = <<>> /\ lastRoll_' = lastRoll_
        /\ failures' = failures
    BY <1>3 DEF F!Crash, F!history
  <2>2. F!OnDisk' = F!OnDisk
    BY <2>1 DEF F!OnDisk
  <2>3. F!OnDisk \in Seq(F!Line) /\ buffer \in Seq(F!Line)
    BY OnDiskType DEF SinkInv
  <2>4. F!OnDisk \o <<>> = SubSeq(F!OnDisk \o buffer, 1, Len(F!OnDisk))
    BY <2>3, FirstPart
  <2>5. F!Sink!Crash
    <3>1. PICK o : o = F!OnDisk
      OBVIOUS
    <3>2. F!OnDisk' = o /\ o \o <<>> = SubSeq(o \o buffer, 1, Len(o))
      BY <2>2, <2>4, <3>1
    <3> QED
      BY <2>1, <3>1, <3>2 DEF F!Sink!Crash
  <2>6. LaterEmpty'
    BY <1>0, <2>1 DEF LaterEmpty, F!Times
  <2> QED
    BY <2>5, <2>6 DEF F!Sink!Next
<1>4. CASE NextLogger \/ UNCHANGED allVars
  <2>1. UNCHANGED <<disk, buffer, alive, lastRoll_, failures>>
    BY <1>4 DEF NextLogger, allVars, fileVars
  <2> QED
    BY <1>1, <2>1
<1>5. CASE F!Tick \/ F!SetBack
  <2>1. UNCHANGED <<disk, buffer, alive, lastRoll_, failures>>
    BY <1>5 DEF F!Tick, F!SetBack, F!logVars, F!fileVars, F!history
  <2> QED
    BY <1>1, <2>1
<1> QED
  BY <1>2, <1>3, <1>4, <1>5 DEF NextFile, F!Next

(* For any sizes and intervals, any number of times the clock is set back  *)
(* and of writes that fail: a LogFile implements LogSink.                  *)
THEOREM FileIsSink == SpecBoth => IsSink
<1>1. InitBoth => SinkInv /\ F!Sink!Init
  <2> SUFFICES ASSUME F!Init PROVE SinkInv /\ F!Sink!Init
    BY DEF InitBoth
  <2>1. FileInv
    BY FileInit
  <2>2. LaterEmpty
    BY DEF F!Init, LaterEmpty, F!FileNames
  <2>3. /\ MaxTime \in Nat \ {0} /\ disk \in [1..MaxTime -> Seq(F!Line)]
        /\ F!OnDisk = F!FlattenSeq(disk)
    BY <2>1, OnDiskType
  <2>4. \A i \in 1..MaxTime : disk[i] = <<>>
    BY DEF F!Init, F!FileNames, F!Times
  <2>5. F!OnDisk = <<>>
    BY <2>3, <2>4, FlattenedEmpty
  <2>6. F!Sink!Init
    BY <2>5 DEF F!Sink!Init, F!Init
  <2> QED
    BY <2>1, <2>2, <2>6 DEF SinkInv
<1>2. SinkInv /\ [NextLogger \/ NextFile]_allVars => SinkInv' /\ [F!Sink!Next]_(F!Sink!vars)
  BY FileStep, SinkStep DEF SinkInv
<1> QED
  BY <1>1, <1>2, PTL DEF SpecBoth, IsSink, F!IsSink, F!Sink!Spec

-----------------------------------------------------------------------------
(* Logging: the time that messages show.                                   *)

(* A record with the fields of a message. *)
IsMsg(m) == m = [level |-> m.level, errno |-> m.errno, second |-> m.second,
                 stampedAt |-> m.stampedAt, stamp |-> m.stamp, stream |-> m.stream]

(* The zone was in force in a second from the first to the last, by f. *)
Seen(f, first, last, zone) == \E s \in first..last : zone \in f[s]

(* A message that was stamped by the second n shows its second, and a zone *)
(* in force between that second and its stamping.                          *)
GoodMsg(f, n, m) ==
    /\ m.second \in 1..n /\ m.stampedAt \in m.second..n
    /\ m.stamp.second = m.second
    /\ Seen(f, m.second, m.stampedAt, m.stamp.zone)

GoodSeq(f, n, q) == \E S : q \in Seq(S) /\ \A m \in S : GoodMsg(f, n, m)

(* The cached text shows the second it was made for, and a zone in force   *)
(* between that second and n.                                              *)
GoodText(f, n, last, text) ==
    /\ last \in 0..n /\ text.second = last
    /\ last # 0 => Seen(f, last, n, text.zone)

LoggerTypes ==
    /\ now \in Seconds /\ g_output \in Sinks
    /\ inForce \in [Seconds -> SUBSET AnyZone]
    /\ g_logTimeZone \in AnyZone /\ g_logTimeZone \in inForce[now]
    /\ t_lastSecond \in [Threads -> 0..MaxSecond] /\ t_time \in [Threads -> Stamps]
    /\ pc \in [Threads -> {"idle", "refresh", "stamp", "open", "abort", "failed"}]
    /\ msg = [t \in Threads |-> msg[t]] /\ \A t \in Threads : IsMsg(msg[t])
    /\ out = [s \in Sinks |-> out[s]]

(* What a Logger has of its message's time, at its steps. *)
GoodPhase(f, n, at, m, last) ==
    /\ at \in {"refresh", "stamp"} => m.second \in 1..n
    /\ at = "stamp" => m.second = last
    /\ at = "open" => GoodMsg(f, n, m)

LoggerInv ==
    /\ LoggerTypes
    /\ \A t \in Threads : GoodText(inForce, now, t_lastSecond[t], t_time[t])
    /\ \A t \in Threads : GoodPhase(inForce, now, pc[t], msg[t], t_lastSecond[t])
    /\ \A s \in Sinks : GoodSeq(inForce, now, out[s])

StampInv ==
    \/ half = "logger" /\ LoggerInv
    \/ /\ half = "file" /\ \A s \in Sinks : out[s] = <<>>
       /\ t_lastSecond \in [Threads -> 0..MaxSecond] /\ t_time \in [Threads -> Stamps]

LEMMA StampInit == InitBoth => StampInv
<1> SUFFICES ASSUME InitBoth PROVE StampInv
  OBVIOUS
<1>1. CASE half = "file"
  BY <1>1, LoggingAssumption DEF InitBoth, Unused, StampInv, Stamps, AnyZone
<1>2. CASE half = "logger"
  <2> USE LoggingAssumption
  <2>0. now = 1 /\ g_output \in Sinks /\ Unused
    BY <1>2 DEF InitBoth, Init
  <2>1. IsMsg(NoMessage)
    BY DEF IsMsg, NoMessage
  <2>2. LoggerTypes
    <3>1. now \in Seconds /\ 1 \in Seconds
      BY <2>0 DEF Seconds
    <3>2. inForce \in [Seconds -> SUBSET AnyZone] /\ inForce[1] = {NoZone}
      BY <2>0, <3>1 DEF Unused, AnyZone
    <3>3. g_logTimeZone \in AnyZone /\ g_logTimeZone \in inForce[now]
      BY <2>0, <3>2 DEF Unused, AnyZone
    <3>4. t_lastSecond \in [Threads -> 0..MaxSecond] /\ t_time \in [Threads -> Stamps]
      BY <2>0 DEF Unused, Stamps, AnyZone
    <3>5. /\ pc \in [Threads -> {"idle", "refresh", "stamp", "open", "abort", "failed"}]
          /\ msg = [t \in Threads |-> msg[t]] /\ \A t \in Threads : IsMsg(msg[t])
          /\ out = [s \in Sinks |-> out[s]]
      BY <2>0, <2>1 DEF Unused
    <3> QED
      BY <2>0, <3>1, <3>2, <3>3, <3>4, <3>5 DEF LoggerTypes
  <2>3. ASSUME NEW t \in Threads
        PROVE  /\ GoodText(inForce, now, t_lastSecond[t], t_time[t])
               /\ GoodPhase(inForce, now, pc[t], msg[t], t_lastSecond[t])
    BY <2>0 DEF Unused, GoodText, GoodPhase
  <2>4. ASSUME NEW s \in Sinks PROVE GoodSeq(inForce, now, out[s])
    <3>1. out[s] = <<>>
      BY <2>0 DEF Unused
    <3>2. PICK S : S = {}
      OBVIOUS
    <3>3. <<>> \in Seq(S) /\ \A m \in S : GoodMsg(inForce, now, m)
      BY <3>2
    <3>4. \E E : <<>> \in Seq(E) /\ \A m \in E : GoodMsg(inForce, now, m)
      BY <3>3, Zenon
    <3> QED
      BY <3>1, <3>4 DEF GoodSeq
  <2> QED
    BY <1>2, <2>2, <2>3, <2>4 DEF StampInv, LoggerInv
<1> QED
  BY <1>1, <1>2 DEF InitBoth

(* Zones in force are never forgotten: what was good stays so. *)
LEMMA StillGood ==
    ASSUME NEW n \in Nat, NEW k \in Nat, n <= k, NEW f, NEW g,
           \A s \in 1..n : f[s] \subseteq g[s]
    PROVE  /\ \A m : GoodMsg(f, n, m) => GoodMsg(g, k, m)
           /\ \A q : GoodSeq(f, n, q) => GoodSeq(g, k, q)
           /\ \A last, text : GoodText(f, n, last, text) => GoodText(g, k, last, text)
           /\ \A at, m, last : GoodPhase(f, n, at, m, last) => GoodPhase(g, k, at, m, last)
<1>1. ASSUME NEW a \in 1..n, NEW b \in a..n, NEW z, Seen(f, a, b, z)
      PROVE  Seen(g, a, b, z) /\ \A c \in b..k : Seen(g, a, c, z)
  <2>1. PICK s \in a..b : z \in f[s]
    BY <1>1 DEF Seen
  <2>2. s \in 1..n /\ z \in g[s]
    BY <2>1
  <2> QED
    BY <2>1, <2>2 DEF Seen
<1>2. ASSUME NEW m, GoodMsg(f, n, m) PROVE GoodMsg(g, k, m)
  BY <1>1, <1>2 DEF GoodMsg
<1>3. ASSUME NEW q, GoodSeq(f, n, q) PROVE GoodSeq(g, k, q)
  BY <1>2, <1>3 DEF GoodSeq
<1>4. ASSUME NEW last, NEW text, GoodText(f, n, last, text) PROVE GoodText(g, k, last, text)
  <2>1. last \in 0..n /\ text.second = last /\ (last # 0 => Seen(f, last, n, text.zone))
    BY <1>4 DEF GoodText
  <2>2. ASSUME last # 0 PROVE Seen(g, last, k, text.zone)
    <3>1. last \in 1..n /\ n \in last..n /\ k \in n..k
      BY <2>1, <2>2
    <3> QED
      BY <1>1, <2>1, <2>2, <3>1
  <2>3. last \in 0..k
    BY <2>1
  <2> QED
    BY <2>1, <2>2, <2>3 DEF GoodText
<1>5. ASSUME NEW at, NEW m, NEW last, GoodPhase(f, n, at, m, last) PROVE GoodPhase(g, k, at, m, last)
  <2>1. \A i \in 1..n : i \in 1..k
    OBVIOUS
  <2> QED
    BY <1>2, <1>5, <2>1 DEF GoodPhase
<1> QED
  BY <1>2, <1>3, <1>4, <1>5

(* A step that keeps the caches, messages and outputs. *)
LEMMA LoggerKeeps ==
    ASSUME LoggerInv, LoggerTypes', now <= now',
           \A s \in 1..now : inForce[s] \subseteq inForce'[s],
           UNCHANGED <<cache, pc, msg, out>>
    PROVE  LoggerInv'
<1>1. now \in Nat /\ now' \in Nat
  BY LoggingAssumption DEF LoggerInv, LoggerTypes, Seconds
<1>a. PICK k \in Nat : k = now'
  BY <1>1
<1>b. PICK f, g : f = inForce /\ g = inForce'
  OBVIOUS
<1>2. f = inForce /\ g = inForce' /\ k = now'
  BY <1>a, <1>b
<1>3. /\ \A q : GoodSeq(f, now, q) => GoodSeq(g, k, q)
      /\ \A last, text : GoodText(f, now, last, text) => GoodText(g, k, last, text)
      /\ \A at, m, last : GoodPhase(f, now, at, m, last) => GoodPhase(g, k, at, m, last)
  <2>1. now <= k /\ \A s \in 1..now : f[s] \subseteq g[s]
    BY <1>2
  <2> QED
    BY <1>1, <2>1, StillGood, Zenon
<1>4. ASSUME NEW t \in Threads
      PROVE  /\ GoodText(inForce', now', t_lastSecond'[t], t_time'[t])
             /\ GoodPhase(inForce', now', pc'[t], msg'[t], t_lastSecond'[t])
  BY <1>2, <1>3 DEF LoggerInv, cache
<1>5. ASSUME NEW s \in Sinks PROVE GoodSeq(inForce', now', out'[s])
  BY <1>2, <1>3 DEF LoggerInv
<1> QED
  BY <1>4, <1>5 DEF LoggerInv

(* The setters, the clock and g_flush: the zone in force is noted. *)
LEMMA GlobalStep ==
    ASSUME LoggerInv,
           \/ \E level \in Levels : setLogLevel(level)
           \/ \E z \in AnyZone : setTimeZone(z)
           \/ \E s \in Sinks : setOutput(s) \/ setFlush(s)
           \/ \E t \in Threads : Abort(t)
           \/ Tick
    PROVE  LoggerInv'
<1> USE LoggingAssumption
<1>0. /\ LoggerTypes /\ now \in Seconds /\ inForce \in [Seconds -> SUBSET AnyZone]
      /\ g_logTimeZone \in AnyZone /\ g_logTimeZone \in inForce[now]
  BY DEF LoggerInv, LoggerTypes
<1>1. UNCHANGED <<cache, pc, msg, out>> /\ g_output' \in Sinks
  BY DEF setLogLevel, setTimeZone, setOutput, setFlush, Abort, Tick, LoggerInv, LoggerTypes,
         sinkVars, globals
<1>2. CASE UNCHANGED <<now, g_logTimeZone, inForce>>
  <2>1. LoggerTypes'
    BY <1>0, <1>1, <1>2 DEF LoggerTypes, cache, Seconds, AnyZone, Stamps, IsMsg
  <2>2. now \in Int
    BY <1>0 DEF Seconds
  <2> QED
    BY <1>1, <1>2, <2>1, <2>2, LoggerKeeps
<1>3. ASSUME NEW z \in AnyZone, setTimeZone(z) PROVE LoggerInv'
  <2>1. now' = now /\ g_logTimeZone' = z /\ inForce' = [inForce EXCEPT ![now] = @ \cup {z}]
    BY <1>3 DEF setTimeZone
  <2>2. /\ inForce' \in [Seconds -> SUBSET AnyZone] /\ z \in inForce'[now]
        /\ \A s \in Seconds : inForce[s] \subseteq inForce'[s]
    BY <1>0, <2>1
  <2>3. LoggerTypes'
    BY <1>0, <1>1, <2>1, <2>2 DEF LoggerTypes, cache, Seconds, AnyZone, Stamps, IsMsg
  <2>4. now \in Int /\ \A s \in 1..now : s \in Seconds
    BY <1>0 DEF Seconds
  <2> QED
    BY <1>1, <2>1, <2>2, <2>3, <2>4, LoggerKeeps
<1>4. CASE Tick
  <2>1. /\ now < MaxSecond /\ now' = now + 1 /\ g_logTimeZone' = g_logTimeZone
        /\ inForce' = [inForce EXCEPT ![now + 1] = {g_logTimeZone}]
    BY <1>4 DEF Tick, globals
  <2>2. now' \in Seconds /\ now \in Int /\ \A s \in 1..now : s \in Seconds /\ s # now'
    BY <1>0, <2>1 DEF Seconds
  <2>3. /\ inForce' \in [Seconds -> SUBSET AnyZone] /\ inForce'[now'] = {g_logTimeZone}
        /\ \A s \in Seconds : s # now' => inForce'[s] = inForce[s]
    BY <1>0, <2>1, <2>2
  <2>4. LoggerTypes'
    BY <1>0, <1>1, <2>1, <2>2, <2>3 DEF LoggerTypes, cache, Seconds, AnyZone, Stamps, IsMsg
  <2>5. \A s \in 1..now : inForce[s] \subseteq inForce'[s]
    BY <2>2, <2>3
  <2>6. now <= now'
    BY <2>1, <2>2
  <2> QED
    BY <1>1, <2>4, <2>5, <2>6, LoggerKeeps
<1> QED
  BY <1>2, <1>3, <1>4 DEF setLogLevel, setOutput, setFlush, Abort, globals

(* One thread goes on, and its cache and message with it. *)
LEMMA ThreadGoes ==
    ASSUME LoggerInv, LoggerTypes', NEW t \in Threads,
           UNCHANGED <<now, inForce, out>>,
           GoodText(inForce, now, t_lastSecond'[t], t_time'[t]),
           GoodPhase(inForce, now, pc'[t], msg'[t], t_lastSecond'[t]),
           \A u \in Threads : u # t =>
             /\ t_lastSecond'[u] = t_lastSecond[u] /\ t_time'[u] = t_time[u]
             /\ pc'[u] = pc[u] /\ msg'[u] = msg[u]
    PROVE  LoggerInv'
<1>1. ASSUME NEW u \in Threads
      PROVE  /\ GoodText(inForce', now', t_lastSecond'[u], t_time'[u])
             /\ GoodPhase(inForce', now', pc'[u], msg'[u], t_lastSecond'[u])
  <2>1. CASE u = t
    BY <2>1
  <2>2. CASE u # t
    BY <2>2 DEF LoggerInv
  <2> QED
    BY <2>1, <2>2
<1>2. ASSUME NEW s \in Sinks PROVE GoodSeq(inForce', now', out'[s])
  BY DEF LoggerInv
<1> QED
  BY <1>1, <1>2 DEF LoggerInv

(* A message is begun and its time taken. *)
LEMMA LogStep ==
    ASSUME LoggerInv, NEW t \in Threads, NEW level, NEW errno, Log(t, level, errno)
    PROVE  LoggerInv'
<1>0. /\ LoggerTypes /\ now \in Seconds /\ msg = [u \in Threads |-> msg[u]]
      /\ pc \in [Threads -> {"idle", "refresh", "stamp", "open", "abort", "failed"}]
      /\ \A u \in Threads : IsMsg(msg[u])
  BY DEF LoggerInv, LoggerTypes
<1>1. PICK m : m = [NoMessage EXCEPT !.level = level, !.errno = errno, !.second = now]
  OBVIOUS
<1>2. IsMsg(m) /\ m.second = now
  BY <1>1 DEF IsMsg, NoMessage
<1>3. /\ msg' = [msg EXCEPT ![t] = m] /\ pc' = [pc EXCEPT ![t] = "refresh"]
      /\ UNCHANGED <<now, globals, cache, out, inForce>>
  BY <1>1 DEF Log, sinkVars
<1>4. /\ msg'[t] = m /\ pc'[t] = "refresh" /\ msg' = [u \in Threads |-> msg'[u]]
      /\ pc' \in [Threads -> {"idle", "refresh", "stamp", "open", "abort", "failed"}]
      /\ \A u \in Threads : u # t => pc'[u] = pc[u] /\ msg'[u] = msg[u]
  BY <1>0, <1>3
<1>5. \A u \in Threads : IsMsg(msg'[u])
  BY <1>0, <1>2, <1>4
<1>6. LoggerTypes'
  BY <1>0, <1>3, <1>4, <1>5
  DEF LoggerTypes, globals, cache, Seconds, AnyZone, Stamps, IsMsg
<1>7. GoodPhase(inForce, now, pc'[t], msg'[t], t_lastSecond'[t])
  <2>1. now \in 1..now
    BY <1>0, LoggingAssumption DEF Seconds
  <2> QED
    BY <1>2, <1>4, <2>1 DEF GoodPhase
<1> QED
  <2>1. t_lastSecond' = t_lastSecond /\ t_time' = t_time
    BY <1>3 DEF cache
  <2>2. GoodText(inForce, now, t_lastSecond'[t], t_time'[t])
    BY <2>1 DEF LoggerInv
  <2>3. UNCHANGED <<now, inForce, out>>
    BY <1>3
  <2> QED
    BY <1>4, <1>6, <1>7, <2>1, <2>2, <2>3, ThreadGoes

(* formatTime(): the text is kept, or made for this second. *)
LEMMA RefreshStep ==
    ASSUME LoggerInv, NEW t \in Threads, Refresh(t)
    PROVE  LoggerInv'
<1>0. /\ LoggerTypes /\ now \in Seconds /\ g_logTimeZone \in AnyZone /\ g_logTimeZone \in inForce[now]
      /\ pc \in [Threads -> {"idle", "refresh", "stamp", "open", "abort", "failed"}]
      /\ t_lastSecond \in [Threads -> 0..MaxSecond] /\ t_time \in [Threads -> Stamps]
      /\ GoodText(inForce, now, t_lastSecond[t], t_time[t])
  BY DEF LoggerInv, LoggerTypes
<1>1. /\ pc[t] = "refresh" /\ pc' = [pc EXCEPT ![t] = "stamp"]
      /\ UNCHANGED <<now, globals, msg, out, inForce>>
  BY DEF Refresh, sinkVars
<1>2. msg[t].second \in 1..now /\ msg[t].second \in 0..MaxSecond /\ msg[t].second # 0
      /\ now \in Nat
  <2>1. msg[t].second \in 1..now
    BY <1>1 DEF LoggerInv, GoodPhase
  <2> QED
    BY <1>0, <2>1, LoggingAssumption DEF Seconds
<1>3. PICK sec \in 0..MaxSecond : sec = msg[t].second
  BY <1>2
<1>4. /\ pc'[t] = "stamp" /\ \A u \in Threads : u # t => pc'[u] = pc[u]
      /\ pc' \in [Threads -> {"idle", "refresh", "stamp", "open", "abort", "failed"}]
  BY <1>0, <1>1
<1>5. /\ t_lastSecond'[t] = sec
      /\ t_lastSecond' \in [Threads -> 0..MaxSecond] /\ t_time' \in [Threads -> Stamps]
      /\ GoodText(inForce, now, t_lastSecond'[t], t_time'[t])
      /\ \A u \in Threads : u # t => t_lastSecond'[u] = t_lastSecond[u] /\ t_time'[u] = t_time[u]
  <2>1. CASE sec = t_lastSecond[t]
    <3>1. t_lastSecond' = t_lastSecond /\ t_time' = t_time
      BY <1>3, <2>1 DEF Refresh, cache
    <3> QED
      BY <1>0, <2>1, <3>1
  <2>2. CASE sec # t_lastSecond[t]
    <3>1. PICK r : r = [second |-> sec, zone |-> g_logTimeZone]
      OBVIOUS
    <3>2. r \in Stamps /\ r.second = sec /\ r.zone = g_logTimeZone
      BY <1>0, <3>1 DEF Stamps
    <3>3. t_lastSecond' = [t_lastSecond EXCEPT ![t] = sec] /\ t_time' = [t_time EXCEPT ![t] = r]
      BY <1>3, <2>2, <3>1 DEF Refresh
    <3>4. GoodText(inForce, now, sec, r)
      <4>1. now \in sec..now /\ sec \in 0..now
        BY <1>2, <1>3
      <4>2. Seen(inForce, sec, now, g_logTimeZone)
        BY <1>0, <4>1 DEF Seen
      <4> QED
        BY <3>2, <4>1, <4>2 DEF GoodText
    <3> QED
      BY <1>0, <3>2, <3>3, <3>4
  <2> QED
    BY <2>1, <2>2
<1>6. LoggerTypes'
  BY <1>0, <1>1, <1>4, <1>5
  DEF LoggerTypes, globals, Seconds, AnyZone, Stamps, IsMsg
<1>7. GoodPhase(inForce, now, pc'[t], msg'[t], t_lastSecond'[t])
  BY <1>1, <1>2, <1>3, <1>4, <1>5 DEF GoodPhase
<1>8. UNCHANGED <<now, inForce, out>> /\ \A u \in Threads : msg'[u] = msg[u]
  BY <1>1
<1> QED
  BY <1>4, <1>5, <1>6, <1>7, <1>8, ThreadGoes

(* The assertion on the thread id leaves the messages as they are. *)
LEMMA AssertStep ==
    ASSUME LoggerInv, NEW t \in Threads, TidAsserts(t)
    PROVE  LoggerInv'
<1>0. /\ LoggerTypes /\ pc \in [Threads -> {"idle", "refresh", "stamp", "open", "abort", "failed"}]
      /\ GoodText(inForce, now, t_lastSecond[t], t_time[t])
  BY DEF LoggerInv, LoggerTypes
<1>1. pc' = [pc EXCEPT ![t] = "failed"] /\ UNCHANGED <<now, globals, cache, msg, out, inForce>>
  BY DEF TidAsserts
<1>2. /\ pc'[t] = "failed" /\ \A u \in Threads : u # t => pc'[u] = pc[u]
      /\ pc' \in [Threads -> {"idle", "refresh", "stamp", "open", "abort", "failed"}]
  BY <1>0, <1>1
<1>3. LoggerTypes'
  BY <1>0, <1>1, <1>2
  DEF LoggerTypes, globals, cache, Seconds, AnyZone, Stamps, IsMsg
<1>4. GoodPhase(inForce, now, pc'[t], msg'[t], t_lastSecond'[t])
  BY <1>2 DEF GoodPhase
<1>5. t_lastSecond' = t_lastSecond /\ t_time' = t_time /\ UNCHANGED <<now, inForce, out, msg>>
  BY <1>1 DEF cache
<1>6. GoodText(inForce, now, t_lastSecond'[t], t_time'[t])
  BY <1>0, <1>5
<1> QED
  BY <1>2, <1>3, <1>4, <1>5, <1>6, ThreadGoes

(* The message takes the thread's text. *)
LEMMA StampStep ==
    ASSUME LoggerInv, NEW t \in Threads, Stamp(t)
    PROVE  LoggerInv'
<1>0. /\ LoggerTypes /\ now \in Seconds /\ msg = [u \in Threads |-> msg[u]]
      /\ pc \in [Threads -> {"idle", "refresh", "stamp", "open", "abort", "failed"}]
      /\ \A u \in Threads : IsMsg(msg[u])
      /\ GoodText(inForce, now, t_lastSecond[t], t_time[t])
      /\ GoodPhase(inForce, now, pc[t], msg[t], t_lastSecond[t])
  BY DEF LoggerInv, LoggerTypes
<1>1. /\ pc[t] = "stamp" /\ pc' = [pc EXCEPT ![t] = "open"]
      /\ UNCHANGED <<now, globals, cache, out, inForce>>
  BY DEF Stamp, sinkVars
<1>2. PICK m : m = msg[t]
  OBVIOUS
<1>3. PICK h : h = Header(m.errno)
  OBVIOUS
<1>4. PICK n : n = [m EXCEPT !.stamp = t_time[t], !.stampedAt = now, !.stream = h]
  OBVIOUS
<1>5. /\ IsMsg(n) /\ n.second = m.second /\ n.stamp = t_time[t] /\ n.stampedAt = now
  <2>1. m = [level |-> m.level, errno |-> m.errno, second |-> m.second,
             stampedAt |-> m.stampedAt, stamp |-> m.stamp, stream |-> m.stream]
    BY <1>0, <1>2 DEF IsMsg
  <2>2. n = [level |-> m.level, errno |-> m.errno, second |-> m.second,
             stampedAt |-> now, stamp |-> t_time[t], stream |-> h]
    BY <1>4, <2>1
  <2> QED
    BY <2>2 DEF IsMsg
<1>6. msg' = [msg EXCEPT ![t] = n]
  BY <1>2, <1>3, <1>4 DEF Stamp
<1>7. /\ msg'[t] = n /\ pc'[t] = "open" /\ msg' = [u \in Threads |-> msg'[u]]
      /\ pc' \in [Threads -> {"idle", "refresh", "stamp", "open", "abort", "failed"}]
      /\ \A u \in Threads : u # t => pc'[u] = pc[u] /\ msg'[u] = msg[u]
  BY <1>0, <1>1, <1>6
<1>8. \A u \in Threads : IsMsg(msg'[u])
  BY <1>0, <1>5, <1>7
<1>9. LoggerTypes'
  BY <1>0, <1>1, <1>7, <1>8
  DEF LoggerTypes, globals, cache, Seconds, AnyZone, Stamps, IsMsg
<1>10. GoodMsg(inForce, now, n)
  <2>1. m.second \in 1..now /\ m.second = t_lastSecond[t] /\ now \in Nat
    BY <1>0, <1>1, <1>2, LoggingAssumption DEF GoodPhase, Seconds
  <2>2. t_time[t].second = m.second /\ Seen(inForce, m.second, now, t_time[t].zone)
    BY <1>0, <2>1 DEF GoodText
  <2>3. now \in m.second..now
    BY <2>1
  <2> QED
    BY <1>5, <2>1, <2>2, <2>3 DEF GoodMsg
<1>11. GoodPhase(inForce, now, pc'[t], msg'[t], t_lastSecond'[t])
  BY <1>7, <1>10 DEF GoodPhase
<1>12. t_lastSecond' = t_lastSecond /\ t_time' = t_time /\ UNCHANGED <<now, inForce, out>>
  BY <1>1 DEF cache
<1>13. GoodText(inForce, now, t_lastSecond'[t], t_time'[t])
  BY <1>0, <1>12
<1> QED
  BY <1>7, <1>9, <1>11, <1>12, <1>13, ThreadGoes

LEMMA GoodAppend ==
    ASSUME NEW f, NEW n, NEW q, GoodSeq(f, n, q), NEW m, GoodMsg(f, n, m)
    PROVE  GoodSeq(f, n, Append(q, m))
<1>1. PICK S : q \in Seq(S) /\ \A x \in S : GoodMsg(f, n, x)
  BY DEF GoodSeq
<1>2. PICK T : T = S \cup {m}
  OBVIOUS
<1>3. q \in Seq(T)
  BY <1>1, <1>2
<1>4. Append(q, m) \in Seq(T)
  BY <1>2, <1>3
<1>5. \A x \in T : GoodMsg(f, n, x)
  BY <1>1, <1>2
<1> QED
  BY <1>4, <1>5 DEF GoodSeq

(* The caller's pieces do not touch the time; the message goes out. *)
LEMMA OutputStep ==
    ASSUME LoggerInv, NEW t \in Threads, Output(t)
    PROVE  LoggerInv'
<1>0. /\ LoggerTypes /\ msg = [u \in Threads |-> msg[u]] /\ out = [s \in Sinks |-> out[s]]
      /\ pc \in [Threads -> {"idle", "refresh", "stamp", "open", "abort", "failed"}]
      /\ g_output \in Sinks /\ \A u \in Threads : IsMsg(msg[u])
      /\ GoodPhase(inForce, now, pc[t], msg[t], t_lastSecond[t])
      /\ \A s \in Sinks : GoodSeq(inForce, now, out[s])
  BY DEF LoggerInv, LoggerTypes
<1>1. PICK to : to = IF msg[t].level = FATAL THEN "abort" ELSE "idle"
  OBVIOUS
<1>2. /\ pc[t] = "open" /\ msg' = [msg EXCEPT ![t] = NoMessage]
      /\ pc' = [pc EXCEPT ![t] = to]
      /\ UNCHANGED <<now, globals, cache, inForce>>
  BY <1>1 DEF Output
<1>3. PICK s : out' = [out EXCEPT ![g_output] = Append(@, Line(msg[t], s))]
  BY DEF Output
<1>4. PICK l : l = Line(msg[t], s)
  OBVIOUS
<1>5. GoodMsg(inForce, now, l)
  <2>1. /\ l.second = msg[t].second /\ l.stampedAt = msg[t].stampedAt /\ l.stamp = msg[t].stamp
    BY <1>4 DEF Line
  <2> QED
    BY <1>0, <1>2, <2>1 DEF GoodPhase, GoodMsg
<1>6. GoodSeq(inForce, now, Append(out[g_output], l))
  BY <1>0, <1>5, GoodAppend
<1>7. out' = [out EXCEPT ![g_output] = Append(out[g_output], l)]
  BY <1>3, <1>4
<1>8. out' = [x \in Sinks |-> out'[x]] /\ \A x \in Sinks : GoodSeq(inForce, now, out'[x])
  <2>1. \A x \in Sinks : out'[x] = IF x = g_output THEN Append(out[g_output], l) ELSE out[x]
    BY <1>0, <1>7
  <2>2. out' = [x \in Sinks |-> out'[x]]
    BY <1>0, <1>7
  <2> QED
    BY <1>0, <1>6, <2>1, <2>2
<1>9. /\ msg'[t] = NoMessage /\ pc'[t] \in {"abort", "idle"} /\ msg' = [u \in Threads |-> msg'[u]]
      /\ pc' \in [Threads -> {"idle", "refresh", "stamp", "open", "abort", "failed"}]
      /\ \A u \in Threads : u # t => pc'[u] = pc[u] /\ msg'[u] = msg[u]
  BY <1>0, <1>1, <1>2
<1>10. \A u \in Threads : IsMsg(msg'[u])
  <2>1. IsMsg(NoMessage)
    BY DEF IsMsg, NoMessage
  <2> QED
    BY <1>0, <1>9, <2>1
<1>11. LoggerTypes'
  BY <1>0, <1>2, <1>8, <1>9, <1>10
  DEF LoggerTypes, globals, cache, Seconds, AnyZone, Stamps, IsMsg
<1>12. ASSUME NEW u \in Threads
       PROVE  /\ GoodText(inForce', now', t_lastSecond'[u], t_time'[u])
              /\ GoodPhase(inForce', now', pc'[u], msg'[u], t_lastSecond'[u])
  <2>1. GoodText(inForce', now', t_lastSecond'[u], t_time'[u])
    BY <1>2 DEF LoggerInv, cache
  <2>2. CASE u = t
    <3>1. GoodPhase(inForce', now', pc'[u], msg'[u], t_lastSecond'[u])
      BY <1>9, <2>2 DEF GoodPhase
    <3> QED
      BY <2>1, <3>1
  <2>3. CASE u # t
    <3>1. GoodPhase(inForce', now', pc'[u], msg'[u], t_lastSecond'[u])
      BY <1>2, <1>9, <2>3 DEF LoggerInv, cache
    <3> QED
      BY <2>1, <3>1
  <2> QED
    BY <2>2, <2>3
<1>13. \A x \in Sinks : GoodSeq(inForce', now', out'[x])
  BY <1>2, <1>8
<1> QED
  BY <1>11, <1>12, <1>13 DEF LoggerInv

LEMMA StampInvStep == StampInv /\ [NextLogger \/ NextFile]_allVars => StampInv'
<1> SUFFICES ASSUME StampInv, [NextLogger \/ NextFile]_allVars PROVE StampInv'
  OBVIOUS
<1>1. CASE NextLogger
  <2>1. half = "logger" /\ half' = half /\ Next /\ LoggerInv
    BY <1>1 DEF NextLogger, StampInv
  <2>2. LoggerInv'
    BY <2>1, LogStep, RefreshStep, AssertStep, StampStep, OutputStep, GlobalStep DEF Next
  <2> QED
    BY <2>1, <2>2 DEF StampInv
<1>2. CASE NextFile
  <2>1. half = "file" /\ half' = half /\ out' = out /\ UNCHANGED <<t_lastSecond, t_time>>
    BY <1>2 DEF NextFile, loggerVars, sinkVars, cache
  <2> QED
    BY <2>1 DEF StampInv, Stamps, AnyZone
<1>3. CASE UNCHANGED allVars
  <2>1. UNCHANGED <<half, now, globals, cache, pc, msg, out, inForce>>
    BY <1>3 DEF allVars, loggerVars, sinkVars
  <2>2. CASE half = "file"
    BY <2>1, <2>2 DEF StampInv, cache, Stamps, AnyZone
  <2>3. CASE half # "file"
    <3>1. LoggerInv /\ half = "logger"
      BY <2>3 DEF StampInv
    <3>2. LoggerTypes'
      BY <2>1, <3>1 DEF LoggerInv, LoggerTypes, globals, cache, Seconds, AnyZone, Stamps, IsMsg
    <3>3. now \in Int
      BY <3>1 DEF LoggerInv, LoggerTypes, Seconds
    <3>4. LoggerInv'
      BY <2>1, <3>1, <3>2, <3>3, LoggerKeeps
    <3> QED
      BY <2>1, <3>1, <3>4 DEF StampInv
  <2> QED
    BY <2>2, <2>3
<1> QED
  BY <1>1, <1>2, <1>3

(* For any threads, zones and sinks, however the setters and the clock     *)
(* come between the steps of the Loggers: every message shows its second   *)
(* and a zone that was in force.                                           *)
THEOREM MessagesStampedRight == SpecBoth => []StampsRight
<1>1. StampInv => StampsRight
  <2> SUFFICES ASSUME StampInv, NEW m \in Outputs
               PROVE  /\ m.stamp.second = m.second
                      /\ m.stamp.zone \in UNION {inForce[s] : s \in m.second..m.stampedAt}
    BY DEF StampsRight, StampSecond, StampZone
  <2>1. PICK s \in Sinks : m \in {out[s][i] : i \in 1..Len(out[s])}
    BY DEF Outputs
  <2>2. PICK i \in 1..Len(out[s]) : m = out[s][i]
    BY <2>1
  <2>3. out[s] # <<>>
    BY <2>2
  <2>4. LoggerInv
    BY <2>3 DEF StampInv
  <2>5. PICK S : out[s] \in Seq(S) /\ \A x \in S : GoodMsg(inForce, now, x)
    BY <2>4 DEF LoggerInv, GoodSeq
  <2>6. GoodMsg(inForce, now, m)
    BY <2>2, <2>5
  <2> QED
    BY <2>6 DEF GoodMsg, Seen
<1> QED
  BY <1>1, StampInit, StampInvStep, PTL DEF SpecBoth

-----------------------------------------------------------------------------
(* Logging and LogStream: what is streamed stays within the buffer.  The   *)
(* loops of convert() and convertHex() and the pieces of a message are     *)
(* recursive functions; as above, that they exist and what they return is  *)
(* shown from a least number for which it fails.                           *)

(* g is computed on D by adding to first what it is at q, where more says  *)
(* so, as the loops of convert() and convertHex() do.                      *)
Looped(D, first, more, q, g) ==
    g = [i \in D |-> first[i] \o (IF more[i] THEN g[q[i]] ELSE <<>>)]

(* A loop that goes down in w to at least 0 ends. *)
Loop(S, D, N, w, first, more, q) ==
    /\ N \in Nat /\ w \in [D -> 0..N] /\ first \in [D -> Seq(S)]
    /\ \A i \in D : more[i] => q[i] \in D /\ w[q[i]] < w[i]

LEMMA LoopEnds ==
    ASSUME NEW S, NEW D, NEW N, NEW w, NEW first, NEW more, NEW q, Loop(S, D, N, w, first, more, q)
    PROVE  \E g : Looped(D, first, more, q, g)
<1> DEFINE Below(m) == {i \in D : w[i] < m}
           Bad == {m \in 0..(N + 1) : ~\E g : Looped(Below(m), first, more, q, g)}
<1>0. /\ N \in Nat /\ w \in [D -> 0..N] /\ first \in [D -> Seq(S)]
      /\ \A i \in D : more[i] => q[i] \in D /\ w[q[i]] < w[i]
  BY DEF Loop
<1>1. ASSUME Bad # {} PROVE FALSE
  <2>1. PICK m \in Bad : \A y \in Bad : m <= y
    <3>1. Bad \in SUBSET Nat
      BY <1>0
    <3> HIDE DEF Bad
    <3> QED
      BY <1>1, <3>1, LeastNat
  <2>2. m \in 0..(N + 1) /\ ~\E g : Looped(Below(m), first, more, q, g)
    BY <2>1
  <2>3. m # 0
    <3>1. ASSUME m = 0 PROVE FALSE
      <4>1. Below(m) = {}
        BY <1>0, <3>1
      <4>2. PICK g : g = [i \in {} |-> <<>>]
        OBVIOUS
      <4>3. Looped(Below(m), first, more, q, g)
        BY <4>1, <4>2 DEF Looped
      <4> QED
        BY <2>2, <4>3
    <3> QED
      BY <3>1
  <2>4. m - 1 \in 0..(N + 1) /\ ~(m <= m - 1)
    BY <1>0, <2>2, <2>3
  <2>5. PICK g : Looped(Below(m - 1), first, more, q, g)
    BY <2>1, <2>4
  <2> DEFINE h == [i \in Below(m) |-> IF w[i] < m - 1 THEN g[i]
                                      ELSE first[i] \o (IF more[i] THEN g[q[i]] ELSE <<>>)]
  <2>6. ASSUME NEW i \in Below(m)
        PROVE  h[i] = first[i] \o (IF more[i] THEN h[q[i]] ELSE <<>>)
    <3>1. i \in D /\ w[i] \in 0..N /\ w[i] < m
      BY <1>0
    <3>2. more[i] => q[i] \in D /\ w[q[i]] \in 0..N /\ w[q[i]] < m - 1 /\ q[i] \in Below(m)
      BY <1>0, <2>2, <3>1
    <3>3. more[i] => h[q[i]] = g[q[i]]
      BY <3>2
    <3>4. CASE w[i] < m - 1
      <4>1. i \in Below(m - 1) /\ h[i] = g[i]
        BY <3>1, <3>4
      <4>2. g[i] = first[i] \o (IF more[i] THEN g[q[i]] ELSE <<>>)
        BY <2>5, <4>1 DEF Looped
      <4> HIDE DEF h
      <4> QED
        BY <3>3, <4>1, <4>2
    <3>5. CASE ~(w[i] < m - 1)
      <4>1. h[i] = first[i] \o (IF more[i] THEN g[q[i]] ELSE <<>>)
        BY <3>5
      <4> HIDE DEF h
      <4> QED
        BY <3>3, <4>1
    <3> QED
      BY <3>4, <3>5
  <2>7. h = [i \in Below(m) |-> h[i]]
    OBVIOUS
  <2> HIDE DEF h
  <2>8. Looped(Below(m), first, more, q, h)
    BY <2>6, <2>7 DEF Looped
  <2> QED
    BY <2>2, <2>8
<1>2. Below(N + 1) = D /\ N + 1 \in 0..(N + 1)
  BY <1>0
<1> QED
  BY <1>1, <1>2

LEMMA LoopType ==
    ASSUME NEW S, NEW D, NEW N, NEW w, NEW first, NEW more, NEW q, Loop(S, D, N, w, first, more, q),
           NEW g, Looped(D, first, more, q, g)
    PROVE  \A i \in D : g[i] \in Seq(S)
<1> DEFINE Bad == {w[i] : i \in {j \in D : g[j] \notin Seq(S)}}
<1>0. /\ N \in Nat /\ w \in [D -> 0..N] /\ first \in [D -> Seq(S)]
      /\ \A i \in D : more[i] => q[i] \in D /\ w[q[i]] < w[i]
      /\ \A i \in D : g[i] = first[i] \o (IF more[i] THEN g[q[i]] ELSE <<>>)
  BY DEF Loop, Looped
<1> SUFFICES ASSUME Bad # {} PROVE FALSE
  OBVIOUS
<1>1. PICK m \in Bad : \A y \in Bad : m <= y
  <2>1. Bad \in SUBSET Nat
    BY <1>0
  <2> HIDE DEF Bad
  <2> QED
    BY <2>1, LeastNat
<1>2. PICK i \in D : w[i] = m /\ g[i] \notin Seq(S)
  BY <1>1
<1>3. more[i] => g[q[i]] \in Seq(S)
  <2>1. ASSUME more[i], g[q[i]] \notin Seq(S) PROVE FALSE
    <3>1. w[q[i]] \in Bad /\ w[q[i]] < w[i] /\ w[q[i]] \in 0..N /\ w[i] \in 0..N
      BY <1>0, <2>1
    <3> HIDE DEF Bad
    <3>2. m <= w[q[i]] /\ m = w[i]
      BY <1>1, <1>2, <3>1
    <3> QED
      BY <1>0, <3>1, <3>2
  <2> QED
    BY <2>1
<1>4. PICK r : r = IF more[i] THEN g[q[i]] ELSE <<>>
  OBVIOUS
<1>5. r \in Seq(S)
  <2>1. <<>> \in Seq(S)
    OBVIOUS
  <2> QED
    BY <1>3, <1>4, <2>1
<1>6. first[i] \in Seq(S) /\ g[i] = first[i] \o r
  BY <1>0, <1>4
<1> QED
  BY <1>2, <1>5, <1>6, ConcatProperties

(* A sequence of whatever. *)
IsText(x) == \E S : x \in Seq(S)

(* The ranges of the numbers are not empty. *)
LEMMA PowersLarge ==
    /\ 2^(Bits - 1) \in Nat /\ 2^(Bits - 1) > 7 /\ 2^PointerBits \in Nat /\ 2^PointerBits > 0
<1>1. 2^(Bits - 1) \in Int /\ 2^PointerBits \in Int
  BY BufferAssumption
<1>2. PICK a \in Int, b \in Int : a = 2^(Bits - 1) /\ b = 2^PointerBits
  BY <1>1
<1>3. 7 \in (-a)..(a - 1) /\ 0 \in 0..(b - 1)
  BY <1>2, LoggingAssumption DEF Signed, Pointers, LineNumber
<1>4. a > 7 /\ b > 0
  BY <1>3
<1> QED
  BY <1>2, <1>4

LEMMA ReversedText == \A v \in Signed : IsText(Reversed[v])
<1> DEFINE A == 2^(Bits - 1)
           S == {zero(r) : r \in Int}
           first == [i \in Signed |-> <<zero(Remainder(i, 10))>>]
           more == [i \in Signed |-> Quotient(i, 10) # 0]
           q == [i \in Signed |-> Quotient(i, 10)]
           w == [i \in Signed |-> IF i >= 0 THEN i ELSE -i]
<1>0. A \in Nat /\ A > 7 /\ Signed = (-A)..(A - 1)
  BY PowersLarge DEF Signed
<1> HIDE DEF A
<1>1. Loop(S, Signed, A, w, first, more, q)
  <2>1. ASSUME NEW i \in Signed
        PROVE  /\ Remainder(i, 10) \in Int /\ Quotient(i, 10) \in Signed
               /\ w[i] \in 0..A
               /\ Quotient(i, 10) # 0 => w[Quotient(i, 10)] < w[i]
    <3>1. i \in Int /\ -A <= i /\ i <= A - 1
      BY <1>0
    <3>2. CASE i >= 0
      <4>1. PICK d \in Int : d = i \div 10
        BY <3>1
      <4>2. 0 <= d /\ 10 * d <= i
        BY <3>1, <3>2, <4>1
      <4>3. Quotient(i, 10) = d
        BY <3>2, <4>1 DEF Quotient
      <4>4. d \in Signed /\ w[d] = d /\ w[i] = i
        BY <1>0, <3>1, <3>2, <4>2
      <4> QED
        BY <1>0, <3>1, <3>2, <4>2, <4>3, <4>4 DEF Remainder
    <3>3. CASE ~(i >= 0)
      <4>1. PICK d \in Int : d = (-i) \div 10
        BY <3>1
      <4>2. 0 <= d /\ 10 * d <= -i
        BY <3>1, <3>3, <4>1
      <4>3. Quotient(i, 10) = -d
        BY <3>3, <4>1 DEF Quotient
      <4>4. -d \in Signed /\ w[-d] = d /\ w[i] = -i
        BY <1>0, <3>1, <3>3, <4>2
      <4> QED
        BY <1>0, <3>1, <3>3, <4>2, <4>3, <4>4 DEF Remainder
    <3> QED
      BY <3>2, <3>3
  <2>2. first \in [Signed -> Seq(S)]
    <3>1. \A i \in Signed : zero(Remainder(i, 10)) \in S
      BY <2>1
    <3> HIDE DEF S
    <3>2. \A i \in Signed : <<zero(Remainder(i, 10))>> \in Seq(S)
      BY <3>1
    <3> QED
      BY <3>2
  <2>3. w = [i \in Signed |-> w[i]]
    OBVIOUS
  <2>4. \A i \in Signed : more[i] => q[i] \in Signed /\ w[q[i]] < w[i]
    BY <2>1
  <2> HIDE DEF w, first, more, q, S
  <2> QED
    BY <1>0, <2>1, <2>2, <2>3, <2>4 DEF Loop
<1>2. \E g : g = [i \in Signed |-> <<zero(Remainder(i, 10))>> \o
                     (IF Quotient(i, 10) # 0 THEN g[Quotient(i, 10)] ELSE <<>>)]
  <2>1. PICK g : Looped(Signed, first, more, q, g)
    <3> HIDE DEF first, more, q, w, S
    <3> QED
      BY <1>1, LoopEnds
  <2>2. g = [i \in Signed |-> <<zero(Remainder(i, 10))>> \o
               (IF Quotient(i, 10) # 0 THEN g[Quotient(i, 10)] ELSE <<>>)]
    <3>1. /\ g = [i \in Signed |-> g[i]]
          /\ \A i \in Signed : g[i] = first[i] \o (IF more[i] THEN g[q[i]] ELSE <<>>)
      <4> HIDE DEF first, more, q
      <4> QED
        BY <2>1 DEF Looped
    <3>2. \A i \in Signed : g[i] = <<zero(Remainder(i, 10))>> \o
               (IF Quotient(i, 10) # 0 THEN g[Quotient(i, 10)] ELSE <<>>)
      BY <3>1
    <3> HIDE DEF first, more, q
    <3> QED
      BY <3>1, <3>2, Zenon
  <2> QED
    BY <2>2, Zenon
<1>3. Reversed = [i \in Signed |-> <<zero(Remainder(i, 10))>> \o
                    (IF Quotient(i, 10) # 0 THEN Reversed[Quotient(i, 10)] ELSE <<>>)]
  BY <1>2, Zenon DEF Reversed
<1>4. Looped(Signed, first, more, q, Reversed)
  BY <1>3 DEF Looped
<1> HIDE DEF first, more, q, w, S
<1> QED
  BY <1>1, <1>4, LoopType DEF IsText

LEMMA ReversedHexText == \A p \in Pointers : IsText(ReversedHex[p])
<1> DEFINE B == 2^PointerBits
           S == {digitsHex[r + 1] : r \in Int}
           first == [i \in Pointers |-> <<digitsHex[(i % 16) + 1]>>]
           more == [i \in Pointers |-> i \div 16 # 0]
           q == [i \in Pointers |-> i \div 16]
           w == [i \in Pointers |-> i]
<1>0. B \in Nat /\ B > 0 /\ Pointers = 0..(B - 1)
  BY PowersLarge DEF Pointers
<1> HIDE DEF B
<1>1. Loop(S, Pointers, B, w, first, more, q)
  <2>1. ASSUME NEW i \in Pointers
        PROVE  /\ i % 16 \in Int /\ i \div 16 \in Pointers
               /\ w[i] \in 0..B
               /\ i \div 16 # 0 => w[i \div 16] < w[i]
    <3>1. i \in Int /\ 0 <= i /\ i <= B - 1
      BY <1>0
    <3>2. PICK d \in Int : d = i \div 16
      BY <3>1
    <3>3. 0 <= d /\ 16 * d <= i
      BY <3>1, <3>2
    <3>4. d \in Pointers /\ w[d] = d /\ w[i] = i
      BY <1>0, <3>1, <3>3
    <3>5. i % 16 \in Int
      BY <3>1
    <3> QED
      BY <1>0, <3>1, <3>2, <3>3, <3>4, <3>5
  <2>2. first \in [Pointers -> Seq(S)]
    <3>1. \A i \in Pointers : digitsHex[(i % 16) + 1] \in S
      BY <2>1
    <3> HIDE DEF S
    <3>2. \A i \in Pointers : <<digitsHex[(i % 16) + 1]>> \in Seq(S)
      BY <3>1
    <3> QED
      BY <3>2
  <2>3. w = [i \in Pointers |-> w[i]]
    OBVIOUS
  <2>4. \A i \in Pointers : more[i] => q[i] \in Pointers /\ w[q[i]] < w[i]
    BY <2>1
  <2> HIDE DEF w, first, more, q, S
  <2> QED
    BY <1>0, <2>1, <2>2, <2>3, <2>4 DEF Loop
<1>2. \E g : g = [i \in Pointers |-> <<digitsHex[(i % 16) + 1]>> \o
                     (IF i \div 16 # 0 THEN g[i \div 16] ELSE <<>>)]
  <2>1. PICK g : Looped(Pointers, first, more, q, g)
    <3> HIDE DEF first, more, q, w, S
    <3> QED
      BY <1>1, LoopEnds
  <2>2. g = [i \in Pointers |-> <<digitsHex[(i % 16) + 1]>> \o
               (IF i \div 16 # 0 THEN g[i \div 16] ELSE <<>>)]
    <3>1. /\ g = [i \in Pointers |-> g[i]]
          /\ \A i \in Pointers : g[i] = first[i] \o (IF more[i] THEN g[q[i]] ELSE <<>>)
      <4> HIDE DEF first, more, q
      <4> QED
        BY <2>1 DEF Looped
    <3>2. \A i \in Pointers : g[i] = <<digitsHex[(i % 16) + 1]>> \o
               (IF i \div 16 # 0 THEN g[i \div 16] ELSE <<>>)
      BY <3>1
    <3> HIDE DEF first, more, q
    <3> QED
      BY <3>1, <3>2, Zenon
  <2> QED
    BY <2>2, Zenon
<1>3. ReversedHex = [i \in Pointers |-> <<digitsHex[(i % 16) + 1]>> \o
                       (IF i \div 16 # 0 THEN ReversedHex[i \div 16] ELSE <<>>)]
  BY <1>2, Zenon DEF ReversedHex
<1>4. Looped(Pointers, first, more, q, ReversedHex)
  BY <1>3 DEF Looped
<1> HIDE DEF first, more, q, w, S
<1> QED
  BY <1>1, <1>4, LoopType DEF IsText

(* Texts, and their lengths. *)
LEMMA TextConcat ==
    ASSUME NEW x, NEW y, IsText(x), IsText(y)
    PROVE  /\ IsText(x \o y) /\ Len(x) \in Nat /\ Len(y) \in Nat /\ Len(x \o y) = Len(x) + Len(y)
<1>1. PICK S : x \in Seq(S)
  BY DEF IsText
<1>2. PICK T : y \in Seq(T)
  BY DEF IsText
<1>3. PICK U : U = S \cup T
  OBVIOUS
<1>4. x \in Seq(U) /\ y \in Seq(U)
  BY <1>1, <1>2, <1>3
<1>5. x \o y \in Seq(U) /\ Len(x \o y) = Len(x) + Len(y) /\ Len(x) \in Nat /\ Len(y) \in Nat
  BY <1>4, ConcatProperties
<1> QED
  BY <1>5 DEF IsText

LEMMA OneCharacter == \A c : IsText(<<c>>) /\ Len(<<c>>) = 1
<1> SUFFICES ASSUME NEW c PROVE IsText(<<c>>) /\ Len(<<c>>) = 1
  OBVIOUS
<1>1. <<c>> \in Seq({c})
  OBVIOUS
<1> QED
  BY <1>1 DEF IsText

LEMMA ReverseText == ASSUME NEW x, IsText(x) PROVE IsText(Reverse(x)) /\ Len(Reverse(x)) = Len(x)
<1>1. PICK S : x \in Seq(S)
  BY DEF IsText
<1>2. Reverse(x) \in Seq(S) /\ Len(Reverse(x)) = Len(x)
  BY <1>1 DEF Reverse
<1> QED
  BY <1>2 DEF IsText

LEMMA EmptyText == IsText(<<>>) /\ Len(<<>>) = 0
<1>1. PICK E : E = {}
  OBVIOUS
<1>2. <<>> \in Seq(E)
  OBVIOUS
<1> QED
  BY <1>2 DEF IsText

LEMMA NumberTexts ==
    /\ \A v \in Signed : IsText(convert(v))
    /\ \A p \in Pointers : IsText(convertHex(p))
<1>1. ASSUME NEW v \in Signed PROVE IsText(convert(v))
  <2>1. PICK sign : sign = IF v < 0 THEN <<"-">> ELSE <<>>
    OBVIOUS
  <2>2. IsText(sign)
    BY <2>1, EmptyText, OneCharacter
  <2>3. IsText(Reversed[v] \o sign)
    BY <2>2, ReversedText, TextConcat
  <2>4. IsText(Reverse(Reversed[v] \o sign))
    BY <2>3, ReverseText
  <2> QED
    BY <2>1, <2>4 DEF convert
<1>2. ASSUME NEW p \in Pointers PROVE IsText(convertHex(p))
  BY ReversedHexText, ReverseText DEF convertHex
<1> QED
  BY <1>1, <1>2

-----------------------------------------------------------------------------
(* A stream with room left, and nothing written behind its buffer. *)
GoodStream(s) == IsText(s.data) /\ Len(s.data) < SIZE /\ s.top \in Nat /\ s.top <= SIZE

LEMMA ExtendedGood ==
    ASSUME NEW s, GoodStream(s), NEW x, IsText(x), NEW nul \in {0, 1},
           Len(s.data) + Len(x) < SIZE
    PROVE  /\ GoodStream(Extended(s, x, nul))
           /\ Extended(s, x, nul).data = s.data \o x
<1>0. IsText(s.data) /\ s.top \in Nat /\ s.top <= SIZE /\ SIZE \in Nat
  BY BufferAssumption DEF GoodStream
<1>1. PICK d : d = s.data \o x
  OBVIOUS
<1>2. IsText(d) /\ Len(s.data) \in Nat /\ Len(x) \in Nat /\ Len(d) = Len(s.data) + Len(x)
  BY <1>0, <1>1, TextConcat
<1>3. PICK end \in Nat : end = Len(s.data) + Len(x) + nul
  BY <1>2
<1>4. PICK e : e = Extended(s, x, nul)
  OBVIOUS
<1>5. e = [data |-> d, top |-> IF end > s.top THEN end ELSE s.top]
  BY <1>1, <1>3, <1>4 DEF Extended
<1>6. e.data = d /\ e.top = IF end > s.top THEN end ELSE s.top
  BY <1>5
<1>7. end <= SIZE
  BY <1>0, <1>2, <1>3
<1>8. e.top \in Nat /\ e.top <= SIZE
  BY <1>0, <1>6, <1>7
<1>9. GoodStream(e)
  BY <1>2, <1>6, <1>8 DEF GoodStream
<1> QED
  BY <1>1, <1>4, <1>6, <1>9

LEMMA AppendGood ==
    ASSUME NEW s, GoodStream(s), NEW x, IsText(x)
    PROVE  /\ GoodStream(append(s, x))
           /\ \/ append(s, x).data = s.data \o x
              \/ append(s, x) = s /\ SIZE <= Len(s.data) + Len(x)
<1>0. Len(s.data) \in Nat /\ Len(x) \in Nat /\ SIZE \in Nat
  BY BufferAssumption, TextConcat DEF GoodStream
<1>1. CASE avail(s) > Len(x)
  <2>1. append(s, x) = Extended(s, x, 0)
    BY <1>1 DEF append
  <2>2. Len(s.data) + Len(x) < SIZE
    BY <1>0, <1>1 DEF avail
  <2> QED
    BY <2>1, <2>2, ExtendedGood
<1>2. CASE ~(avail(s) > Len(x))
  <2>1. append(s, x) = s
    BY <1>2 DEF append
  <2>2. SIZE <= Len(s.data) + Len(x)
    BY <1>0, <1>2 DEF avail
  <2> QED
    BY <2>1, <2>2
<1> QED
  BY <1>1, <1>2

LEMMA CharacterGood == ASSUME NEW s, GoodStream(s), NEW c PROVE GoodStream(append(s, <<c>>))
  BY AppendGood, OneCharacter

(* A number is put where there is room for any. *)
LEMMA RoomGood ==
    ASSUME NEW s, GoodStream(s), NEW x, IsText(x), Len(x) < kMaxNumericSize
    PROVE  avail(s) >= kMaxNumericSize => GoodStream(Extended(s, x, 1))
<1> SUFFICES ASSUME avail(s) >= kMaxNumericSize PROVE GoodStream(Extended(s, x, 1))
  OBVIOUS
<1>0. Len(s.data) \in Nat /\ Len(x) \in Nat /\ SIZE \in Nat /\ kMaxNumericSize \in Nat
  BY BufferAssumption, TextConcat DEF GoodStream
<1>1. Len(s.data) + Len(x) < SIZE
  BY <1>0 DEF avail
<1> QED
  BY <1>1, ExtendedGood

LEMMA IntegerGood == ASSUME NEW s, GoodStream(s), NEW v \in Signed PROVE GoodStream(formatInteger(s, v))
<1>1. IsText(convert(v)) /\ Len(convert(v)) < kMaxNumericSize
  BY NumberTexts, NumbersFit
<1>2. avail(s) >= kMaxNumericSize => GoodStream(Extended(s, convert(v), 1))
  BY <1>1, RoomGood
<1> QED
  BY <1>2 DEF formatInteger

LEMMA PointerGood == ASSUME NEW s, GoodStream(s), NEW p \in Pointers PROVE GoodStream(formatPointer(s, p))
<1>1. IsText(convertHex(p)) /\ Len(convertHex(p)) + 2 < kMaxNumericSize
  BY NumberTexts, NumbersFit
<1>2. IsText(<<"0", "x">>) /\ Len(<<"0", "x">>) = 2
  <2>1. <<"0", "x">> \in Seq({"0", "x"})
    OBVIOUS
  <2>2. PICK S : <<"0", "x">> \in Seq(S)
    BY <2>1
  <2> QED
    BY <2>2 DEF IsText
<1>3. PICK x : x = <<"0", "x">> \o convertHex(p)
  OBVIOUS
<1>4. IsText(x) /\ Len(x) < kMaxNumericSize
  <2>1. IsText(x) /\ Len(x) = 2 + Len(convertHex(p)) /\ Len(convertHex(p)) \in Nat
    BY <1>1, <1>2, <1>3, TextConcat
  <2> QED
    BY <1>1, <2>1, BufferAssumption
<1>5. avail(s) >= kMaxNumericSize => GoodStream(Extended(s, x, 1))
  BY <1>4, RoomGood
<1> QED
  BY <1>3, <1>5 DEF formatPointer

LEMMA RunText == ASSUME NEW c, NEW n \in Nat PROVE IsText(Run(c, n)) /\ Len(Run(c, n)) = n
<1>1. Run(c, n) \in Seq({c}) /\ Len(Run(c, n)) = n
  BY DEF Run
<1>2. PICK S : Run(c, n) \in Seq(S)
  BY <1>1
<1> QED
  BY <1>1, <1>2 DEF IsText

LEMMA PiecesGood == ASSUME NEW s, GoodStream(s) PROVE \A x \in Pieces(s) : GoodStream(x)
<1>1. ASSUME NEW n \in StringLens PROVE GoodStream(append(s, Run("a", n)))
  <2>1. IsText(Run("a", n))
    BY RunText, LoggingAssumption
  <2> QED
    BY <2>1, AppendGood
<1>2. Min(Signed) \in Signed /\ Max(Pointers) \in Pointers
  <2>1. PICK a \in Nat, b \in Nat : a = 2^(Bits - 1) /\ b = 2^PointerBits /\ a > 0 /\ b > 0
    BY PowersLarge
  <2>2. Signed = (-a)..(a - 1) /\ Pointers = 0..(b - 1)
    BY <2>1 DEF Signed, Pointers
  <2>3. \E x \in Signed : \A y \in Signed : x <= y
    <3>1. -a \in Signed /\ \A y \in Signed : -a <= y
      BY <2>1, <2>2
    <3> QED
      BY <3>1
  <2>4. \E x \in Pointers : \A y \in Pointers : x >= y
    <3>1. b - 1 \in Pointers /\ \A y \in Pointers : b - 1 >= y
      BY <2>1, <2>2
    <3> QED
      BY <3>1
  <2> QED
    BY <2>3, <2>4 DEF Min, Max
<1>3. GoodStream(formatInteger(s, Min(Signed))) /\ GoodStream(formatPointer(s, Max(Pointers)))
  BY <1>2, IntegerGood, PointerGood
<1>4. ASSUME NEW n \in DoubleLens PROVE GoodStream(formatDouble(s, Run("f", n)))
  <2>1. n \in Nat /\ n < kMaxNumericSize
    BY LoggingAssumption, BufferAssumption
  <2>2. IsText(Run("f", n)) /\ Len(Run("f", n)) < kMaxNumericSize
    BY <2>1, RunText
  <2>3. avail(s) >= kMaxNumericSize => GoodStream(Extended(s, Run("f", n), 1))
    BY <2>2, RoomGood
  <2> QED
    BY <2>3 DEF formatDouble
<1>5. GoodStream(debugString(s))
  <2>1. IsText(<<>>) /\ Len(<<>>) = 0
    BY EmptyText
  <2>2. Len(s.data) \in Nat /\ Len(s.data) < SIZE
    BY <2>1, TextConcat DEF GoodStream
  <2>3. Len(s.data) + Len(<<>>) < SIZE
    BY <2>1, <2>2
  <2> QED
    BY <2>1, <2>3, ExtendedGood DEF debugString
<1> QED
  BY <1>1, <1>3, <1>4, <1>5 DEF Pieces

(* The streams after up to n pieces, for every n up to m. *)
AllPut(s, m, g) ==
    g = [n \in 0..m |-> IF n = 0 THEN {s} ELSE g[n - 1] \cup UNION {Pieces(x) : x \in g[n - 1]}]

LEMMA PutExists == ASSUME NEW s, NEW m \in Nat PROVE \E g : AllPut(s, m, g)
<1> DEFINE Bad == {k \in Nat : ~\E g : AllPut(s, k, g)}
<1> SUFFICES ASSUME Bad # {} PROVE FALSE
  OBVIOUS
<1>1. PICK k \in Bad : \A y \in Bad : k <= y
  <2>1. Bad \in SUBSET Nat
    OBVIOUS
  <2> HIDE DEF Bad
  <2> QED
    BY <2>1, LeastNat
<1>2. k \in Nat /\ ~\E g : AllPut(s, k, g)
  BY <1>1
<1>3. CASE k = 0
  <2>1. PICK g : g = [n \in 0..0 |-> {s}]
    OBVIOUS
  <2>2. AllPut(s, 0, g)
    BY <2>1 DEF AllPut
  <2> QED
    BY <1>2, <1>3, <2>2
<1>4. CASE k # 0
  <2>1. k - 1 \in Nat /\ ~(k <= k - 1)
    BY <1>2, <1>4
  <2>2. PICK g : AllPut(s, k - 1, g)
    BY <1>1, <2>1
  <2>3. PICK last : last = g[k - 1] \cup UNION {Pieces(x) : x \in g[k - 1]}
    OBVIOUS
  <2> DEFINE h == [n \in 0..k |-> IF n = k THEN last ELSE g[n]]
  <2>4. ASSUME NEW n \in 0..k
        PROVE  h[n] = IF n = 0 THEN {s} ELSE h[n - 1] \cup UNION {Pieces(x) : x \in h[n - 1]}
    <3>1. CASE n = k
      <4>1. h[n] = last /\ n # 0 /\ h[n - 1] = g[k - 1]
        BY <1>2, <1>4, <3>1
      <4> HIDE DEF h
      <4> QED
        BY <2>3, <4>1
    <3>2. CASE n # k
      <4>1. n \in 0..(k - 1) /\ h[n] = g[n]
        BY <1>2, <3>2
      <4>2. n # 0 => h[n - 1] = g[n - 1]
        BY <1>2, <4>1
      <4>3. g[n] = IF n = 0 THEN {s} ELSE g[n - 1] \cup UNION {Pieces(x) : x \in g[n - 1]}
        BY <2>2, <4>1 DEF AllPut
      <4> HIDE DEF h
      <4> QED
        BY <4>1, <4>2, <4>3
    <3> QED
      BY <3>1, <3>2
  <2>5. h = [n \in 0..k |-> h[n]]
    OBVIOUS
  <2> HIDE DEF h
  <2>6. AllPut(s, k, h)
    BY <2>4, <2>5 DEF AllPut
  <2> QED
    BY <1>2, <2>6
<1> QED
  BY <1>3, <1>4

LEMMA PutGood == ASSUME NEW s, GoodStream(s) PROVE \A x \in Put(s) : GoodStream(x)
<1> DEFINE g == CHOOSE f : f = [n \in 0..MaxPieces |->
                   IF n = 0 THEN {s} ELSE f[n - 1] \cup UNION {Pieces(x) : x \in f[n - 1]}]
<1>0. MaxPieces \in Nat
  BY LoggingAssumption
<1>1. g = [n \in 0..MaxPieces |->
             IF n = 0 THEN {s} ELSE g[n - 1] \cup UNION {Pieces(x) : x \in g[n - 1]}]
  <2>1. \E f : AllPut(s, MaxPieces, f)
    BY <1>0, PutExists
  <2>2. \E f : f = [n \in 0..MaxPieces |->
                 IF n = 0 THEN {s} ELSE f[n - 1] \cup UNION {Pieces(x) : x \in f[n - 1]}]
    BY <2>1 DEF AllPut
  <2> QED
    BY <2>2, Zenon
<1>2. Put(s) = g[MaxPieces]
  BY DEF Put
<1> HIDE DEF g
<1>3. \A n \in 0..MaxPieces :
        g[n] = IF n = 0 THEN {s} ELSE g[n - 1] \cup UNION {Pieces(x) : x \in g[n - 1]}
  BY <1>1, Zenon
<1> DEFINE Bad == {n \in 0..MaxPieces : \E x \in g[n] : ~GoodStream(x)}
<1>4. ASSUME Bad # {} PROVE FALSE
  <2>1. PICK k \in Bad : \A y \in Bad : k <= y
    <3>1. Bad \in SUBSET Nat
      OBVIOUS
    <3> HIDE DEF Bad
    <3> QED
      BY <1>4, <3>1, LeastNat
  <2>2. PICK x \in g[k] : ~GoodStream(x)
    BY <2>1
  <2>3. k \in 0..MaxPieces
    BY <2>1
  <2>4. CASE k = 0
    BY <1>3, <2>2, <2>3, <2>4
  <2>5. CASE k # 0
    <3>1. k - 1 \in 0..MaxPieces /\ ~(k <= k - 1)
      BY <1>0, <2>3, <2>5
    <3>2. \A y \in g[k - 1] : GoodStream(y)
      BY <2>1, <3>1
    <3>3. g[k] = g[k - 1] \cup UNION {Pieces(y) : y \in g[k - 1]}
      BY <1>3, <2>3, <2>5
    <3>4. x \in g[k - 1] \/ \E y \in g[k - 1] : x \in Pieces(y)
      BY <2>2, <3>3
    <3> QED
      BY <2>2, <3>2, <3>4, PiecesGood
  <2> QED
    BY <2>4, <2>5
<1>5. MaxPieces \in 0..MaxPieces
  BY <1>0
<1> QED
  BY <1>2, <1>4, <1>5

LEMMA HeaderGood == \A errno \in {0, 2} : GoodStream(Header(errno))
<1> DEFINE fields == append(append(append(append(EmptyStream, <<"t">>), <<"u">>), <<"i">>), <<"l">>)
<1>1. GoodStream(EmptyStream)
  BY EmptyText, BufferAssumption DEF GoodStream, EmptyStream
<1>2. GoodStream(append(EmptyStream, <<"t">>))
  BY <1>1, CharacterGood
<1>3. GoodStream(append(append(EmptyStream, <<"t">>), <<"u">>))
  BY <1>2, CharacterGood
<1>4. GoodStream(append(append(append(EmptyStream, <<"t">>), <<"u">>), <<"i">>))
  BY <1>3, CharacterGood
<1>5. GoodStream(fields)
  BY <1>4, CharacterGood
<1>6. PICK f : f = fields /\ GoodStream(f)
  BY <1>5
<1>7. GoodStream(append(f, <<"e">>))
  BY <1>6, CharacterGood
<1>8. GoodStream(formatInteger(append(f, <<"e">>), 2))
  <2>1. 2 \in Signed
    BY LoggingAssumption
  <2> QED
    BY <1>7, <2>1, IntegerGood
<1>9. GoodStream(append(formatInteger(append(f, <<"e">>), 2), <<")">>))
  BY <1>8, CharacterGood
<1>10. Header(0) = f
  BY <1>6 DEF Header
<1>11. Header(2) = append(formatInteger(append(f, <<"e">>), 2), <<")">>)
  BY <1>6 DEF Header
<1> QED
  BY <1>6, <1>9, <1>10, <1>11

(* finish() ends the line unless the buffer is full. *)
LEMMA FinishGood ==
    ASSUME NEW s, GoodStream(s)
    PROVE  /\ GoodStream(finish(s))
           /\ Last(finish(s).data) = "\n" \/ Len(finish(s).data) = SIZE - 1
<1>1. GoodStream(append(s, <<"-">>))
  BY CharacterGood
<1>2. GoodStream(append(append(s, <<"-">>), <<"b">>))
  BY <1>1, CharacterGood
<1>3. GoodStream(append(append(append(s, <<"-">>), <<"b">>), <<":">>))
  BY <1>2, CharacterGood
<1>4. PICK r : r = formatInteger(append(append(append(s, <<"-">>), <<"b">>), <<":">>), LineNumber)
  OBVIOUS
<1>5. GoodStream(r)
  <2>1. LineNumber \in Signed
    BY LoggingAssumption
  <2> QED
    BY <1>3, <1>4, <2>1, IntegerGood
<1>6. finish(s) = append(r, <<"\n">>)
  BY <1>4 DEF finish
<1>7. IsText(<<"\n">>) /\ Len(<<"\n">>) = 1
  BY OneCharacter
<1>8. /\ GoodStream(append(r, <<"\n">>))
      /\ \/ append(r, <<"\n">>).data = r.data \o <<"\n">>
         \/ append(r, <<"\n">>) = r /\ SIZE <= Len(r.data) + 1
  BY <1>5, <1>7, AppendGood
<1>9. CASE append(r, <<"\n">>).data = r.data \o <<"\n">>
  <2>1. PICK S : r.data \in Seq(S)
    BY <1>5 DEF GoodStream, IsText
  <2>2. PICK d : d = r.data
    OBVIOUS
  <2>3. PICK T : T = S \cup {"\n"}
    OBVIOUS
  <2>4. d \in Seq(T) /\ <<"\n">> \in Seq(T)
    BY <2>1, <2>2, <2>3
  <2>5. Len(d \o <<"\n">>) = Len(d) + 1 /\ (d \o <<"\n">>)[Len(d) + 1] = "\n"
    BY <2>4
  <2> QED
    BY <1>6, <1>8, <1>9, <2>2, <2>5 DEF Last
<1>10. CASE append(r, <<"\n">>) = r /\ SIZE <= Len(r.data) + 1
  <2>1. Len(r.data) \in Nat /\ Len(r.data) < SIZE /\ SIZE \in Nat
    BY <1>5, <1>7, TextConcat, BufferAssumption DEF GoodStream
  <2>2. Len(r.data) = SIZE - 1
    BY <1>10, <2>1
  <2> QED
    BY <1>6, <1>8, <1>10, <2>2
<1> QED
  BY <1>8, <1>9, <1>10

-----------------------------------------------------------------------------
(* A message that was output ends its line and its buffer held it. *)
WholeLine(m) == m.top <= SIZE /\ (m.last = "\n" \/ m.length = SIZE - 1)

WholeLines(q) == \E S : q \in Seq(S) /\ \A m \in S : WholeLine(m)

(* While no setter was called, a thread that is about to abort has output  *)
(* its fatal message where g_flush will flush it.                          *)
FatalOut ==
    sets = 0 =>
      /\ g_flush = g_output
      /\ (\E t \in Threads : pc[t] = "abort")
           => \E i \in 1..Len(out[g_output]) : out[g_output][i].level = FATAL

LineInv ==
    /\ g_logLevel \in 0..FATAL /\ g_logTimeZone \in AnyZone
    /\ g_output \in Sinks /\ g_flush \in Sinks /\ aborted \in BOOLEAN /\ sets \in Nat
    /\ pc \in [Threads -> {"idle", "refresh", "stamp", "open", "abort", "failed"}]
    /\ msg = [t \in Threads |-> msg[t]]
    /\ \A t \in Threads : /\ IsMsg(msg[t]) /\ msg[t].errno \in {0, 2}
                          /\ GoodStream(msg[t].stream)
    /\ out = [s \in Sinks |-> out[s]] /\ \A s \in Sinks : WholeLines(out[s])
    /\ durable = [s \in Sinks |-> durable[s]] /\ \A s \in Sinks : durable[s] \in 0..Len(out[s])
    /\ FatalOut /\ FatalFlushed

LEMMA EmptyGood == GoodStream(EmptyStream)
  BY EmptyText, BufferAssumption DEF GoodStream, EmptyStream

LEMMA LineInit == InitBoth => LineInv
<1> SUFFICES ASSUME InitBoth PROVE LineInv
  OBVIOUS
<1>0. g_output \in Sinks /\ Unused
  BY LoggingAssumption DEF InitBoth, Init
<1>1. /\ g_logLevel \in 0..FATAL /\ g_logTimeZone \in AnyZone
      /\ g_flush \in Sinks /\ g_flush = g_output /\ aborted = FALSE /\ sets = 0
      /\ pc = [t \in Threads |-> "idle"]
  BY <1>0 DEF Unused, INFO, FATAL, AnyZone
<1>2. msg = [t \in Threads |-> NoMessage]
  BY <1>0 DEF Unused
<1>3. IsMsg(NoMessage) /\ NoMessage.errno = 0 /\ NoMessage.stream = EmptyStream
  BY DEF IsMsg, NoMessage
<1>4. \A t \in Threads : /\ IsMsg(msg[t]) /\ msg[t].errno \in {0, 2} /\ GoodStream(msg[t].stream)
  BY <1>2, <1>3, EmptyGood
<1>5. out = [s \in Sinks |-> <<>>] /\ durable = [s \in Sinks |-> 0]
  BY <1>0 DEF Unused
<1>6. WholeLines(<<>>)
  <2>1. PICK E : E = {}
    OBVIOUS
  <2>2. <<>> \in Seq(E) /\ \A m \in E : WholeLine(m)
    BY <2>1
  <2> QED
    BY <2>2 DEF WholeLines
<1>7. /\ \A s \in Sinks : WholeLines(out[s]) /\ durable[s] \in 0..Len(out[s])
      /\ out = [s \in Sinks |-> out[s]] /\ durable = [s \in Sinks |-> durable[s]]
  BY <1>5, <1>6
<1>8. pc \in [Threads -> {"idle", "refresh", "stamp", "open", "abort", "failed"}]
      /\ msg = [t \in Threads |-> msg[t]]
  BY <1>1, <1>2
<1>9. FatalOut /\ FatalFlushed
  BY <1>1 DEF FatalOut, FatalFlushed
<1> QED
  BY <1>0, <1>1, <1>4, <1>7, <1>8, <1>9 DEF LineInv

(* A step that keeps all but the message and the place of one thread.      *)
LEMMA MessageGoes ==
    ASSUME LineInv, NEW t \in Threads, NEW m, NEW to \in {"refresh", "stamp", "open"},
           IsMsg(m), m.errno \in {0, 2}, GoodStream(m.stream), ~aborted,
           msg' = [msg EXCEPT ![t] = m], pc' = [pc EXCEPT ![t] = to],
           UNCHANGED <<globals, out, durable, aborted, sets>>
    PROVE  LineInv'
<1>0. /\ msg = [u \in Threads |-> msg[u]]
      /\ pc \in [Threads -> {"idle", "refresh", "stamp", "open", "abort", "failed"}]
  BY DEF LineInv
<1>1. /\ msg' = [u \in Threads |-> msg'[u]]
      /\ \A u \in Threads : msg'[u] = IF u = t THEN m ELSE msg[u]
      /\ pc' \in [Threads -> {"idle", "refresh", "stamp", "open", "abort", "failed"}]
      /\ \A u \in Threads : pc'[u] = "abort" => pc[u] = "abort"
  BY <1>0
<1>2. \A u \in Threads : /\ IsMsg(msg'[u]) /\ msg'[u].errno \in {0, 2}
                         /\ GoodStream(msg'[u].stream)
  BY <1>1 DEF LineInv
<1>3. UNCHANGED <<g_logLevel, g_logTimeZone, g_output, g_flush, out, durable, aborted, sets>>
  BY DEF globals
<1>4. FatalOut' /\ FatalFlushed'
  <2>1. FatalOut'
    BY <1>1, <1>3 DEF LineInv, FatalOut
  <2>2. FatalFlushed'
    BY <1>3 DEF FatalFlushed
  <2> QED
    BY <2>1, <2>2
<1> QED
  BY <1>1, <1>2, <1>3, <1>4 DEF LineInv, IsMsg, AnyZone

LEMMA LineThreadStep ==
    ASSUME LineInv, NEW t \in Threads,
           \/ \E level \in Levels, errno \in {0, 2} : Log(t, level, errno)
           \/ Refresh(t) \/ Stamp(t)
    PROVE  LineInv'
<1>0. IsMsg(msg[t]) /\ msg[t].errno \in {0, 2} /\ GoodStream(msg[t].stream)
      /\ msg = [u \in Threads |-> msg[u]]
  BY DEF LineInv
<1>1. ASSUME NEW level \in Levels, NEW errno \in {0, 2}, Log(t, level, errno) PROVE LineInv'
  <2>1. PICK m : m = [NoMessage EXCEPT !.level = level, !.errno = errno, !.second = now]
    OBVIOUS
  <2>2. IsMsg(m) /\ m.errno = errno /\ m.stream = EmptyStream
    BY <2>1 DEF IsMsg, NoMessage
  <2>3. /\ msg' = [msg EXCEPT ![t] = m] /\ pc' = [pc EXCEPT ![t] = "refresh"] /\ ~aborted
        /\ UNCHANGED <<globals, out, durable, aborted, sets>>
    BY <1>1, <2>1 DEF Log, sinkVars
  <2> QED
    BY <2>2, <2>3, EmptyGood, MessageGoes
<1>2. CASE Refresh(t)
  <2>1. PICK m : m = msg[t]
    OBVIOUS
  <2>2. msg' = [msg EXCEPT ![t] = m]
    BY <1>0, <1>2, <2>1 DEF Refresh
  <2>3. /\ pc' = [pc EXCEPT ![t] = "stamp"] /\ ~aborted
        /\ UNCHANGED <<globals, out, durable, aborted, sets>>
    BY <1>2 DEF Refresh, sinkVars
  <2> QED
    BY <1>0, <2>1, <2>2, <2>3, MessageGoes
<1>3. CASE Stamp(t)
  <2>1. PICK m : m = msg[t]
    OBVIOUS
  <2>2. PICK h : h = Header(m.errno)
    OBVIOUS
  <2>3. PICK n : n = [m EXCEPT !.stamp = t_time[t], !.stampedAt = now, !.stream = h]
    OBVIOUS
  <2>4. m = [level |-> m.level, errno |-> m.errno, second |-> m.second,
             stampedAt |-> m.stampedAt, stamp |-> m.stamp, stream |-> m.stream]
    BY <1>0, <2>1 DEF IsMsg
  <2>5. n = [level |-> m.level, errno |-> m.errno, second |-> m.second,
             stampedAt |-> now, stamp |-> t_time[t], stream |-> h]
    BY <2>3, <2>4
  <2>6. IsMsg(n) /\ n.errno = m.errno /\ n.stream = h
    BY <2>5 DEF IsMsg
  <2>7. GoodStream(h)
    BY <1>0, <2>1, <2>2, HeaderGood
  <2>8. msg' = [msg EXCEPT ![t] = n]
    BY <1>3, <2>1, <2>2, <2>3 DEF Stamp
  <2>9. /\ pc' = [pc EXCEPT ![t] = "open"] /\ ~aborted
        /\ UNCHANGED <<globals, out, durable, aborted, sets>>
    BY <1>3 DEF Stamp, sinkVars
  <2> QED
    BY <1>0, <2>1, <2>6, <2>7, <2>8, <2>9, MessageGoes
<1> QED
  BY <1>1, <1>2, <1>3

(* ~Logger(): the message ends its line, as does every one before it. *)
LEMMA LineOutputStep ==
    ASSUME LineInv, NEW t \in Threads, Output(t)
    PROVE  LineInv'
<1>0. /\ msg = [u \in Threads |-> msg[u]] /\ out = [x \in Sinks |-> out[x]]
      /\ pc \in [Threads -> {"idle", "refresh", "stamp", "open", "abort", "failed"}]
      /\ g_output \in Sinks /\ IsMsg(msg[t]) /\ GoodStream(msg[t].stream)
      /\ \A x \in Sinks : WholeLines(out[x]) /\ durable[x] \in 0..Len(out[x])
  BY DEF LineInv
<1>1. PICK to \in {"abort", "idle"} : to = IF msg[t].level = FATAL THEN "abort" ELSE "idle"
  OBVIOUS
<1>2. /\ ~aborted /\ msg' = [msg EXCEPT ![t] = NoMessage] /\ pc' = [pc EXCEPT ![t] = to]
      /\ UNCHANGED <<g_logLevel, g_logTimeZone, g_output, g_flush, durable, aborted, sets>>
  BY <1>1 DEF Output, globals
<1>3. PICK s \in Put(msg[t].stream) : out' = [out EXCEPT ![g_output] = Append(@, Line(msg[t], s))]
  BY DEF Output
<1>4. PICK f : f = finish(s)
  OBVIOUS
<1>5. PICK l : l = Line(msg[t], s)
  OBVIOUS
<1>6. l.level = msg[t].level /\ l.length = Len(f.data) /\ l.last = Last(f.data) /\ l.top = f.top
  BY <1>4, <1>5 DEF Line
<1>7. WholeLine(l)
  <2>1. GoodStream(s)
    BY <1>0, <1>3, PutGood
  <2>2. GoodStream(f) /\ (Last(f.data) = "\n" \/ Len(f.data) = SIZE - 1)
    BY <1>4, <2>1, FinishGood
  <2> QED
    BY <1>6, <2>2 DEF WholeLine, GoodStream
<1>8. PICK q : q = out[g_output]
  OBVIOUS
<1>9. PICK S : q \in Seq(S) /\ \A m \in S : WholeLine(m)
  BY <1>0, <1>8 DEF WholeLines
<1>10. PICK T : T = S \cup {l}
  OBVIOUS
<1>11. q \in Seq(T) /\ l \in T /\ \A m \in T : WholeLine(m)
  BY <1>7, <1>9, <1>10
<1>12. /\ Append(q, l) \in Seq(T) /\ Len(Append(q, l)) = Len(q) + 1 /\ Len(q) \in Nat
       /\ Append(q, l)[Len(q) + 1] = l /\ \A i \in 1..Len(q) : Append(q, l)[i] = q[i]
  BY <1>11
<1>13. WholeLines(Append(q, l))
  BY <1>11, <1>12 DEF WholeLines
<1>14. PICK p : p = Append(q, l)
  OBVIOUS
<1>15. /\ out' = [x \in Sinks |-> out'[x]]
       /\ \A x \in Sinks : out'[x] = IF x = g_output THEN p ELSE out[x]
  BY <1>0, <1>3, <1>5, <1>8, <1>14
<1>16. \A x \in Sinks : WholeLines(out'[x]) /\ durable'[x] \in 0..Len(out'[x])
  <2> SUFFICES ASSUME NEW x \in Sinks PROVE WholeLines(out'[x]) /\ durable'[x] \in 0..Len(out'[x])
    OBVIOUS
  <2>1. CASE x = g_output
    <3>1. out'[x] = p /\ durable'[x] \in 0..Len(q) /\ Len(p) = Len(q) + 1
      BY <1>0, <1>2, <1>8, <1>12, <1>14, <1>15, <2>1
    <3> QED
      BY <1>12, <1>13, <1>14, <3>1
  <2>2. CASE x # g_output
    BY <1>0, <1>2, <1>15, <2>2
  <2> QED
    BY <2>1, <2>2
<1>17. /\ msg' = [u \in Threads |-> msg'[u]]
       /\ \A u \in Threads : msg'[u] = IF u = t THEN NoMessage ELSE msg[u]
       /\ pc' \in [Threads -> {"idle", "refresh", "stamp", "open", "abort", "failed"}]
       /\ \A u \in Threads : pc'[u] = IF u = t THEN to ELSE pc[u]
  BY <1>0, <1>2
<1>18. \A u \in Threads : /\ IsMsg(msg'[u]) /\ msg'[u].errno \in {0, 2}
                          /\ GoodStream(msg'[u].stream)
  <2>1. IsMsg(NoMessage) /\ NoMessage.errno = 0 /\ NoMessage.stream = EmptyStream
    BY DEF IsMsg, NoMessage
  <2> QED
    BY <1>17, <2>1, EmptyGood DEF LineInv
<1>19. FatalOut'
  <2> SUFFICES ASSUME sets = 0
               PROVE  /\ g_flush = g_output
                      /\ (\E u \in Threads : pc'[u] = "abort")
                           => \E i \in 1..Len(p) : p[i].level = FATAL
    BY <1>0, <1>2, <1>15 DEF FatalOut
  <2>1. g_flush = g_output
    BY DEF LineInv, FatalOut
  <2>2. CASE to = "abort"
    <3>1. p[Len(q) + 1].level = FATAL /\ Len(q) + 1 \in 1..Len(p)
      BY <1>1, <1>6, <1>12, <1>14, <2>2
    <3> QED
      BY <2>1, <3>1
  <2>3. CASE to # "abort"
    <3> SUFFICES ASSUME NEW u \in Threads, pc'[u] = "abort"
                 PROVE  \E i \in 1..Len(p) : p[i].level = FATAL
      BY <2>1
    <3>1. pc[u] = "abort"
      BY <1>17, <2>3
    <3>2. PICK i \in 1..Len(q) : q[i].level = FATAL
      BY <1>8, <3>1 DEF LineInv, FatalOut
    <3>3. i \in 1..Len(p) /\ p[i] = q[i]
      BY <1>12, <1>14
    <3> QED
      BY <3>2, <3>3
  <2> QED
    BY <2>2, <2>3
<1>20. FatalFlushed'
  BY <1>2 DEF FatalFlushed
<1>21. durable' = [x \in Sinks |-> durable'[x]]
  BY <1>2 DEF LineInv
<1>22. /\ g_logLevel' \in 0..FATAL /\ g_logTimeZone' \in AnyZone /\ g_output' \in Sinks
       /\ g_flush' \in Sinks /\ aborted' \in BOOLEAN /\ sets' \in Nat
  BY <1>2 DEF LineInv
<1> QED
  BY <1>15, <1>16, <1>17, <1>18, <1>19, <1>20, <1>21, <1>22 DEF LineInv, IsMsg, AnyZone

(* g_flush(); abort(); *)
LEMMA LineAbortStep ==
    ASSUME LineInv, NEW t \in Threads, Abort(t)
    PROVE  LineInv'
<1>0. /\ g_flush \in Sinks /\ durable = [x \in Sinks |-> durable[x]] /\ pc[t] = "abort"
      /\ \A x \in Sinks : WholeLines(out[x]) /\ durable[x] \in 0..Len(out[x])
  BY DEF LineInv, Abort
<1>1. /\ durable' = [durable EXCEPT ![g_flush] = Len(out[g_flush])] /\ aborted' = TRUE
      /\ UNCHANGED <<g_logLevel, g_logTimeZone, g_output, g_flush, pc, msg, out, sets>>
  BY DEF Abort, globals
<1>2. Len(out[g_flush]) \in Nat
  BY <1>0 DEF WholeLines
<1>3. /\ durable' = [x \in Sinks |-> durable'[x]]
      /\ \A x \in Sinks : durable'[x] \in 0..Len(out[x])
      /\ durable'[g_flush] = Len(out[g_flush])
  BY <1>0, <1>1, <1>2
<1>4. FatalOut'
  BY <1>1 DEF LineInv, FatalOut
<1>5. FatalFlushed'
  <2>1. sets = 0 => \E i \in 1..Len(out[g_flush]) : out[g_flush][i].level = FATAL
    BY <1>0 DEF LineInv, FatalOut
  <2> QED
    BY <1>1, <1>3, <2>1 DEF FatalFlushed
<1> QED
  BY <1>1, <1>3, <1>4, <1>5 DEF LineInv, IsMsg, AnyZone

(* The assertion on the thread id: nothing is flushed. *)
LEMMA LineAssertStep ==
    ASSUME LineInv, NEW t \in Threads, TidAsserts(t)
    PROVE  LineInv'
<1>1. /\ aborted' = TRUE /\ pc' = [pc EXCEPT ![t] = "failed"]
      /\ UNCHANGED <<g_logLevel, g_logTimeZone, g_output, g_flush, msg, out, durable, sets>>
  BY DEF TidAsserts, globals
<1>2. pc \in [Threads -> {"idle", "refresh", "stamp", "open", "abort", "failed"}]
  BY DEF LineInv
<1>3. /\ pc'[t] = "failed" /\ \A u \in Threads : pc'[u] = "abort" => pc[u] = "abort"
      /\ pc' \in [Threads -> {"idle", "refresh", "stamp", "open", "abort", "failed"}]
  BY <1>1, <1>2
<1>4. FatalOut'
  BY <1>1, <1>3 DEF LineInv, FatalOut
<1>5. FatalFlushed'
  BY <1>3 DEF FatalFlushed
<1> QED
  BY <1>1, <1>3, <1>4, <1>5 DEF LineInv, IsMsg, AnyZone

(* The setters and the clock. *)
LEMMA LineGlobalStep ==
    ASSUME LineInv,
           \/ \E level \in Levels : setLogLevel(level)
           \/ \E z \in AnyZone : setTimeZone(z)
           \/ \E s \in Sinks : setOutput(s) \/ setFlush(s)
           \/ Tick \/ UNCHANGED <<globals, pc, msg, sinkVars, sets>>
    PROVE  LineInv'
<1>1. UNCHANGED <<pc, msg, out, durable, aborted>>
  BY DEF setLogLevel, setTimeZone, setOutput, setFlush, Tick, sinkVars
<1>2. CASE UNCHANGED <<globals, sets>>
  <2>1. UNCHANGED <<g_logLevel, g_logTimeZone, g_output, g_flush, sets>>
    BY <1>2 DEF globals
  <2> QED
    BY <1>1, <2>1 DEF LineInv, FatalOut, FatalFlushed, IsMsg, AnyZone
<1>3. CASE ~aborted /\ sets' = sets + 1
  <2>1. sets' \in Nat /\ sets' # 0
    BY <1>3 DEF LineInv
  <2>2. /\ g_logLevel' \in 0..FATAL /\ g_logTimeZone' \in AnyZone /\ g_output' \in Sinks
        /\ g_flush' \in Sinks
    BY <1>3, LoggingAssumption
    DEF setLogLevel, setTimeZone, setOutput, setFlush, Tick, globals, LineInv
  <2>3. FatalOut' /\ FatalFlushed'
    BY <1>1, <1>3, <2>1 DEF FatalOut, FatalFlushed
  <2> QED
    BY <1>1, <2>1, <2>2, <2>3 DEF LineInv, IsMsg, AnyZone
<1> QED
  BY <1>2, <1>3 DEF setLogLevel, setTimeZone, setOutput, setFlush, MaySet, Tick

LEMMA LineStep == LineInv /\ [NextLogger \/ NextFile]_allVars => LineInv'
<1> SUFFICES ASSUME LineInv, [NextLogger \/ NextFile]_allVars PROVE LineInv'
  OBVIOUS
<1>1. CASE NextLogger
  <2>1. Next
    BY <1>1 DEF NextLogger
  <2> QED
    BY <2>1, LineThreadStep, LineAssertStep, LineOutputStep, LineAbortStep, LineGlobalStep
       DEF Next
<1>2. CASE NextFile \/ UNCHANGED allVars
  <2>1. UNCHANGED <<globals, pc, msg, sinkVars, sets>>
    BY <1>2 DEF NextFile, loggerVars, allVars
  <2> QED
    BY <2>1, LineGlobalStep
<1> QED
  BY <1>1, <1>2

(* For any size of the buffer and any texts and numbers streamed, when the *)
(* numbers pass LogStream::staticCheck(): nothing is written behind the    *)
(* buffer, a message ends its line unless the text filled all but the last *)
(* byte of it, and a fatal one is flushed before the program aborts.       *)
THEOREM MessagesWhole == SpecBoth => []LinesWhole
<1>1. FileInv /\ StampInv /\ LineInv => LinesWhole
  <2> SUFFICES ASSUME FileInv, StampInv, LineInv PROVE LinesWhole
    OBVIOUS
  <2>1. TypeOK
    <3>1. now \in Nat
      BY LogOutputAssumption DEF FileInv, FileTypes, F!TypeOK, F!Times
    <3>2. t_lastSecond \in [Threads -> 0..MaxSecond] /\ t_time \in [Threads -> Stamps]
      BY DEF StampInv, LoggerInv, LoggerTypes
    <3>3. \A t \in Threads : Len(msg[t].stream.data) < SIZE
      BY DEF LineInv, GoodStream
    <3> QED
      BY <3>1, <3>2, <3>3 DEF TypeOK, LineInv
  <2>2. ASSUME NEW m \in Outputs PROVE WholeLine(m)
    <3>1. PICK s \in Sinks : m \in {out[s][i] : i \in 1..Len(out[s])}
      BY DEF Outputs
    <3>2. PICK i \in 1..Len(out[s]) : m = out[s][i]
      BY <3>1
    <3>3. PICK S : out[s] \in Seq(S) /\ \A x \in S : WholeLine(x)
      BY DEF LineInv, WholeLines
    <3> QED
      BY <3>2, <3>3
  <2>3. LinesEnd /\ WritesInside
    BY <2>2 DEF LinesEnd, WritesInside, WholeLine
  <2>4. FatalFlushed
    BY DEF LineInv
  <2> QED
    BY <2>1, <2>3, <2>4 DEF LinesWhole
<1>2. InitBoth => FileInv /\ StampInv /\ LineInv
  BY FileInit, StampInit, LineInit DEF InitBoth
<1> QED
  BY <1>1, <1>2, FileStep, StampInvStep, LineStep, PTL DEF SpecBoth
=============================================================================

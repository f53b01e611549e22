----------------------------- MODULE TimeProofs -----------------------------
(***************************************************************************)
(* Proofs about time and its conversions.                                  *)
(*                                                                         *)
(* TimerQueue, for any threads, addresses, intervals and settings of the   *)
(* wall clock, and any bounds: the lists agree and own every Timer once, a *)
(* Timer is deleted only when it is over, a queued cancel comes after its  *)
(* add, and the timerfd never sleeps over a timer.                         *)
(*                                                                         *)
(* Conversions, for any years from 1900 on, any offset and changes of a    *)
(* zone, any width of numbers and any texts: the calendar, the zones, the  *)
(* numerals and the order of pieces of text are right.  What needs an      *)
(* induction is proved with the least element of a set of natural numbers, *)
(* which the provers can use.                                              *)
(***************************************************************************)
EXTENDS TimerQueue, Conversions, FiniteSetTheorems, SequenceTheorems,
        WellFoundedInduction, TLAPS

-----------------------------------------------------------------------------
(* The inductive invariant, in parts. *)

TimerType == [sequence : Seqs, expiration : Nat, interval : Intervals]
OpType == {AddOp(a) : a \in Addr} \cup {CancelOp(id) : id \in Addr \X Seqs}

(* TypeOK, its Booleans apart. *)
Flags == readable \in BOOLEAN /\ reported \in BOOLEAN /\ callingExpiredTimers_ \in BOOLEAN

Ranges ==
    /\ now \in 1..Horizon /\ jumps \in 0..MaxJumps /\ alarm \in Nat
    /\ created \in 0..MaxTimers
    /\ timers_ \subseteq Nat \X Addr /\ expired \subseteq Nat \X Addr
    /\ toRun \subseteq expired
    /\ activeTimers_ \subseteq Addr \X Seqs /\ cancelingTimers_ \subseteq Addr \X Seqs
    /\ batchNow \in 0..Horizon
    /\ Len(ops) <= MaxOps
    /\ returning \in [Threads -> (Addr \X Seqs) \cup {Idle}]
    /\ ids \subseteq Addr \X Seqs
    /\ runs \in [Seqs -> 0..2]
    /\ cancelled \in [Seqs -> {"no", "pending", "active", "expired"}]

Shapes ==
    /\ heap \in [Addr -> TimerType \cup {NoTimer}]
    /\ ops \in Seq(OpType)

(* The places a Timer can be in; every Timer on the heap is in one.        *)
Waiting == {e[2] : e \in timers_}
InBatch == {e[2] : e \in expired}
Queued == {a \in Addr : \E i \in 1..Len(ops) : ops[i] = AddOp(a)}

Partition ==
    /\ Live = Waiting \cup InBatch \cup Queued
    /\ Waiting \cap InBatch = {} /\ Waiting \cap Queued = {} /\ InBatch \cap Queued = {}

(* What the places say of a Timer is what it says itself, and they say it  *)
(* once.                                                                   *)
Entries ==
    /\ \A e \in timers_ \cup expired : e[1] = heap[e[2]].expiration
    /\ activeTimers_ = {<<a, heap[a].sequence>> : a \in Waiting}

QueuedOnce ==
    \A a \in Addr : \A i, j \in 1..Len(ops) :
        ops[i] = AddOp(a) /\ ops[j] = AddOp(a) => i = j

(* Sequence numbers are unique, and none is known before it is given.      *)
Numbers ==
    /\ \A a \in Live : heap[a].sequence <= created
    /\ \A a, b \in Live : heap[a].sequence = heap[b].sequence => a = b
    /\ \A id \in ids : id[2] <= created
    /\ \A t \in Threads : returning[t] # Idle => returning[t][2] <= created
    /\ \A i \in 1..Len(ops) : ops[i][3] <= created
    /\ \A s \in Seqs : s > created => cancelled[s] = "no" /\ runs[s] = 0

(* The batch exists while callbacks run. *)
Batches ==
    /\ ~callingExpiredTimers_ => expired = {}
    /\ callingExpiredTimers_ => ~reported /\ batchNow > 0

(* Of the timers that exist, those that cancelInLoop found are those of    *)
(* the batch that cancelingTimers_ names.                                  *)
Cancels ==
    \A a \in Live :
        /\ cancelled[heap[a].sequence] # "active"
        /\ cancelled[heap[a].sequence] = "expired" <=>
             a \in InBatch /\ <<a, heap[a].sequence>> \in cancelingTimers_

(* A one-shot timer has run once its turn in the batch is over. *)
RunCounts ==
    \A a \in Live : ~Repeat(a) =>
        runs[heap[a].sequence] = IF \E e \in expired \ toRun : e[2] = a THEN 1 ELSE 0

(* A cancel is queued behind the add of its timer. *)
CancelsAfter ==
    \A a \in Addr : \A i, j \in 1..Len(ops) :
        ops[j] = AddOp(a) /\ ops[i] = CancelOp(<<a, heap[a].sequence>>) => j < i

(* A timer for the epoch, whose expiration reset() takes for an invalid    *)
(* one, was the first when it came and has set the timerfd itself.         *)
ZeroAlarm ==
    callingExpiredTimers_ /\ (\E e \in timers_ : e[1] = 0) => readable \/ alarm = 1

ListInv ==
    /\ Flags /\ Ranges /\ Shapes
    /\ Partition
    /\ Entries
    /\ QueuedOnce
    /\ Numbers
    /\ Batches
    /\ Cancels
    /\ RunCounts
    /\ CancelsAfter

AlarmInv == AlarmSound /\ ZeroAlarm

-----------------------------------------------------------------------------
(* Lemmas about timers, functors and the places of a Timer. *)

LEMMA OpsDiffer ==
    /\ \A a, b : AddOp(a) = AddOp(b) => a = b
    /\ \A a, id : AddOp(a) # CancelOp(id)
    /\ \A a : AddOp(a)[2] = a /\ AddOp(a)[3] = 0
    /\ \A id : CancelOp(id)[2] = id[1] /\ CancelOp(id)[3] = id[2]
  BY DEF AddOp, CancelOp

LEMMA TimersOnHeap ==
    ASSUME Shapes
    PROVE  /\ Live = {a \in Addr : heap[a] \in TimerType}
           /\ \A a \in Live : /\ a \in Addr
                              /\ heap[a] # NoTimer
                              /\ heap[a] \in TimerType
                              /\ heap[a].sequence \in Seqs
                              /\ heap[a].expiration \in Nat
                              /\ heap[a].interval \in Intervals
                              /\ heap[a].interval \in Nat
<1>1. NoTimer \notin TimerType /\ Intervals \subseteq Nat
  BY TimerAssumption DEF TimerType, Seqs
<1> QED
  BY <1>1 DEF Shapes, Live, TimerType

LEMMA TypesAgree == Flags /\ Ranges /\ Shapes /\ Numbers => TypeOK
<1> SUFFICES ASSUME Flags, Ranges, Shapes, Numbers PROVE TypeOK
  OBVIOUS
<1>1. \A a \in Live : /\ heap[a].sequence \in 1..created
                      /\ heap[a].expiration \in Nat
                      /\ heap[a].interval \in Intervals
  <2>1. TimerAssumption
    BY TimerAssumption
  <2> QED
    BY <2>1, TimersOnHeap DEF Ranges, Numbers, Seqs, TimerAssumption
<1>2. \A i \in 1..Len(ops) : ops[i][2] \in Addr
  <2> TAKE i \in 1..Len(ops)
  <2>1. ops[i] \in OpType
    BY ElementOfSeq DEF Shapes
  <2> QED
    BY <2>1, OpsDiffer DEF OpType
<1> QED
  BY <1>1, <1>2, Zenon DEF Flags, Ranges, TypeOK

(* A step that leaves the lists, the heap and the functors alone. *)
LEMMA PlacesKept ==
    ASSUME ListInv, UNCHANGED <<heap, timers_, activeTimers_, expired, ops>>
    PROVE  /\ Live' = Live /\ InBatch' = InBatch
           /\ Shapes' /\ Partition' /\ Entries' /\ QueuedOnce' /\ CancelsAfter'
<1>1. Shapes'
  BY DEF ListInv, Shapes, TimerType, OpType, AddOp, CancelOp, Seqs
<1>2. Live' = Live /\ Waiting' = Waiting /\ InBatch' = InBatch /\ Queued' = Queued
  BY DEF Live, Waiting, InBatch, Queued, AddOp
<1>3. Partition' /\ Entries' /\ QueuedOnce' /\ CancelsAfter'
  BY <1>2 DEF ListInv, Partition, Entries, QueuedOnce, CancelsAfter, AddOp, CancelOp
<1> QED
  BY <1>1, <1>2, <1>3

LEMMA ListsUntouched ==
    ASSUME ListInv,
           UNCHANGED <<heap, created, timers_, activeTimers_, cancelingTimers_,
                       callingExpiredTimers_, expired, toRun, batchNow, ops, returning, ids,
                       runs, cancelled>>,
           now' \in 1..Horizon, jumps' \in 0..MaxJumps, alarm' \in Nat,
           readable' \in BOOLEAN, reported' \in BOOLEAN,
           callingExpiredTimers_ => ~reported'
    PROVE  ListInv'
<1>1. Flags'
  BY Zenon DEF ListInv, Flags
<1>2. Ranges'
  BY DEF ListInv, Ranges, Seqs
<1>3. Numbers' /\ Cancels' /\ RunCounts'
  BY DEF ListInv, Numbers, Cancels, RunCounts, Live, InBatch, Repeat, Seqs
<1>4. Batches'
  BY DEF ListInv, Batches
<1> QED
  BY <1>1, <1>2, <1>3, <1>4, PlacesKept DEF ListInv

LEMMA ClockSteps ==
    ASSUME ListInv, Tick \/ ClockJump \/ Poll
    PROVE  ListInv'
<1>0. now \in 1..Horizon /\ jumps \in 0..MaxJumps /\ alarm \in Nat /\ MaxJumps \in Nat
      /\ Horizon \in Nat
  BY TimerAssumption DEF ListInv, Ranges
<1>1. CASE Tick
  <2>1. now' \in 1..Horizon /\ alarm' \in Nat /\ jumps' \in 0..MaxJumps
    BY <1>0, <1>1 DEF Tick
  <2>2. readable' \in BOOLEAN
    BY <1>1, Zenon DEF Tick
  <2>3. reported' \in BOOLEAN /\ (callingExpiredTimers_ => ~reported')
    BY <1>1, Zenon DEF Tick, ListInv, Flags, Batches
  <2> QED
    BY <1>1, <2>1, <2>2, <2>3, ListsUntouched DEF Tick, listVars, batchVars
<1>2. CASE ClockJump
  <2>1. now' \in 1..Horizon /\ alarm' \in Nat /\ jumps' \in 0..MaxJumps
    BY <1>0, <1>2 DEF ClockJump, fdVars
  <2>2. readable' \in BOOLEAN /\ reported' \in BOOLEAN /\ (callingExpiredTimers_ => ~reported')
    BY <1>2, Zenon DEF ClockJump, fdVars, ListInv, Flags, Batches
  <2> QED
    BY <1>2, <2>1, <2>2, ListsUntouched DEF ClockJump, listVars, batchVars
<1>3. CASE Poll
  <2>1. now' \in 1..Horizon /\ alarm' \in Nat /\ jumps' \in 0..MaxJumps
    BY <1>0, <1>3 DEF Poll, clockVars, fdVars
  <2>2. readable' \in BOOLEAN /\ reported' \in BOOLEAN /\ (callingExpiredTimers_ => ~reported')
    BY <1>3, Zenon DEF Poll, fdVars, ListInv, Flags, Batches
  <2> QED
    BY <1>3, <2>1, <2>2, ListsUntouched DEF Poll, listVars, batchVars
<1> QED
  BY <1>1, <1>2, <1>3

-----------------------------------------------------------------------------
(* The functors. *)

LEMMA OpAppended ==
    ASSUME Shapes, NEW op \in OpType, ops' = Append(ops, op)
    PROVE  /\ ops' \in Seq(OpType)
           /\ Len(ops') = Len(ops) + 1 /\ Len(ops) \in Nat
           /\ \A i \in 1..Len(ops) : ops'[i] = ops[i]
           /\ ops'[Len(ops) + 1] = op
           /\ Queued' = Queued \cup {a \in Addr : op = AddOp(a)}
<1>1. /\ ops' \in Seq(OpType)
      /\ Len(ops') = Len(ops) + 1 /\ Len(ops) \in Nat
      /\ \A i \in 1..Len(ops) : ops'[i] = ops[i]
      /\ ops'[Len(ops) + 1] = op
  BY AppendProperties, LenProperties DEF Shapes
<1>2. \A a \in Addr : (\E i \in 1..Len(ops') : ops'[i] = AddOp(a)) <=>
                      (op = AddOp(a) \/ \E i \in 1..Len(ops) : ops[i] = AddOp(a))
  BY <1>1
<1>3. Queued' = {a \in Addr : \E i \in 1..Len(ops') : ops'[i] = AddOp(a)}
  BY DEF Queued, AddOp
<1> QED
  BY <1>1, <1>2, <1>3 DEF Queued

LEMMA OpTaken ==
    ASSUME Shapes, QueuedOnce, ops # <<>>, ops' = Tail(ops)
    PROVE  /\ ops' \in Seq(OpType) /\ Head(ops) \in OpType
           /\ Len(ops') = Len(ops) - 1 /\ Len(ops) \in Nat /\ Len(ops) > 0
           /\ \A i \in 1..Len(ops') : ops'[i] = ops[i + 1]
           /\ Head(ops) = ops[1]
           /\ Queued' = Queued \ {a \in Addr : Head(ops) = AddOp(a)}
<1>1. /\ ops' \in Seq(OpType) /\ Head(ops) \in OpType
      /\ Len(ops') = Len(ops) - 1 /\ Len(ops) \in Nat /\ Len(ops) > 0
      /\ \A i \in 1..Len(ops') : ops'[i] = ops[i + 1]
      /\ Head(ops) = ops[1]
  BY HeadTailProperties, LenProperties, EmptySeq DEF Shapes
<1>2. \A a \in Addr : (\E i \in 1..Len(ops') : ops'[i] = AddOp(a)) <=>
                      (ops[1] # AddOp(a) /\ \E i \in 1..Len(ops) : ops[i] = AddOp(a))
  <2> TAKE a \in Addr
  <2>1. ASSUME NEW i \in 1..Len(ops'), ops'[i] = AddOp(a)
        PROVE  ops[1] # AddOp(a) /\ \E j \in 1..Len(ops) : ops[j] = AddOp(a)
    <3>1. i + 1 \in 1..Len(ops) /\ i + 1 # 1 /\ 1 \in 1..Len(ops) /\ ops[i + 1] = AddOp(a)
      BY <1>1, <2>1
    <3> QED
      BY <3>1 DEF QueuedOnce
  <2>2. ASSUME NEW i \in 1..Len(ops), ops[i] = AddOp(a), ops[1] # AddOp(a)
        PROVE  \E j \in 1..Len(ops') : ops'[j] = AddOp(a)
    <3>1. i - 1 \in 1..Len(ops') /\ ops'[i - 1] = ops[i]
      BY <1>1, <2>2
    <3> QED
      BY <2>2, <3>1
  <2> QED
    BY <2>1, <2>2
<1>3. Queued' = {a \in Addr : \E i \in 1..Len(ops') : ops'[i] = AddOp(a)}
  BY DEF Queued, AddOp
<1> QED
  BY <1>1, <1>2, <1>3 DEF Queued

(* addTimer returns on another thread: the number it reads has been given. *)
LEMMA ReturnStep ==
    ASSUME ListInv, NEW t \in Threads, ThreadAddReturns(t)
    PROVE  ListInv'
<1>0. /\ returning[t] # Idle /\ returning[t] \in Addr \X Seqs /\ returning[t][2] <= created
      /\ created \in Nat
      /\ \A a \in Live : heap[a].sequence \in Seqs /\ heap[a].sequence <= created
      /\ returning \in [Threads -> (Addr \X Seqs) \cup {Idle}]
  BY TimersOnHeap DEF ThreadAddReturns, ListInv, Ranges, Numbers
<1> DEFINE a == returning[t][1]
<1>1. PICK s \in {returning[t][2]} \cup (IF heap[a] = NoTimer THEN {} ELSE {heap[a].sequence}) :
        ids' = ids \cup {<<a, s>>}
  BY DEF ThreadAddReturns
<1>2. a \in Addr /\ s \in Seqs /\ s <= created
  BY <1>0, <1>1 DEF Live
<1>3. /\ returning' = [returning EXCEPT ![t] = Idle]
      /\ UNCHANGED <<now, jumps, alarm, readable, reported, heap, created, timers_,
                     activeTimers_, cancelingTimers_, callingExpiredTimers_, expired, toRun,
                     batchNow, ops, runs, cancelled>>
  BY DEF ThreadAddReturns, clockVars, fdVars, listVars, batchVars
<1> HIDE DEF a
<1>4. Flags' /\ Batches'
  BY <1>3, Zenon DEF ListInv, Flags, Batches
<1>5. Ranges'
  <2>1. ids' \subseteq Addr \X Seqs
    BY <1>1, <1>2 DEF ListInv, Ranges
  <2>2. returning' \in [Threads -> (Addr \X Seqs) \cup {Idle}]
    BY <1>0, <1>3
  <2> QED
    BY <1>3, <2>1, <2>2 DEF ListInv, Ranges, Seqs
<1>6. Numbers'
  <2>1. \A u \in Threads : returning'[u] # Idle => returning'[u][2] <= created
    BY <1>0, <1>3 DEF ListInv, Numbers
  <2>2. \A id \in ids' : id[2] <= created
    BY <1>1, <1>2 DEF ListInv, Numbers
  <2> QED
    BY <1>3, <2>1, <2>2 DEF ListInv, Numbers, Live, Seqs
<1>7. Cancels' /\ RunCounts'
  BY <1>3 DEF ListInv, Cancels, RunCounts, Live, InBatch, Repeat
<1> QED
  BY <1>3, <1>4, <1>5, <1>6, <1>7, PlacesKept DEF ListInv

(* cancel on another thread puts the cancelInLoop behind everything queued. *)
LEMMA QueueCancelStep ==
    ASSUME ListInv, NEW id \in ids, ThreadCancels(id)
    PROVE  ListInv'
<1>0. id \in Addr \X Seqs /\ id[2] <= created /\ Len(ops) < MaxOps
  BY DEF ListInv, Ranges, Numbers, ThreadCancels
<1>1. /\ ops' = Append(ops, CancelOp(id))
      /\ UNCHANGED <<now, jumps, alarm, readable, reported, heap, created, timers_,
                     activeTimers_, cancelingTimers_, callingExpiredTimers_, expired, toRun,
                     batchNow, returning, ids, runs, cancelled>>
  BY DEF ThreadCancels, clockVars, fdVars, listVars, batchVars
<1>2. CancelOp(id) \in OpType
  BY <1>0 DEF OpType
<1>3. /\ ops' \in Seq(OpType)
      /\ Len(ops') = Len(ops) + 1 /\ Len(ops) \in Nat
      /\ \A i \in 1..Len(ops) : ops'[i] = ops[i]
      /\ ops'[Len(ops) + 1] = CancelOp(id)
      /\ Queued' = Queued
  <2>1. {a \in Addr : CancelOp(id) = AddOp(a)} = {}
    BY OpsDiffer
  <2>2. Queued' = Queued \cup {a \in Addr : CancelOp(id) = AddOp(a)}
    BY <1>1, <1>2, OpAppended DEF ListInv
  <2>3. Queued' = Queued
    BY <2>1, <2>2
  <2> HIDE DEF Queued
  <2> QED
    BY <1>1, <1>2, <2>3, OpAppended DEF ListInv
<1>4. Flags' /\ Batches'
  BY <1>1, Zenon DEF ListInv, Flags, Batches
<1>5. Ranges'
  BY <1>0, <1>1, <1>3, TimerAssumption DEF ListInv, Ranges, Seqs
<1>6. Shapes'
  BY <1>1, <1>3 DEF ListInv, Shapes, TimerType, OpType, AddOp, CancelOp, Seqs
<1>7. Live' = Live /\ Waiting' = Waiting /\ InBatch' = InBatch
  BY <1>1 DEF Live, Waiting, InBatch
<1>8. Partition' /\ Entries' /\ Cancels' /\ RunCounts'
  BY <1>1, <1>3, <1>7 DEF ListInv, Partition, Entries, Cancels, RunCounts, Repeat
<1>9. Numbers'
  <2>1. \A i \in 1..Len(ops') : ops'[i][3] <= created
    BY <1>0, <1>3, OpsDiffer DEF ListInv, Numbers
  <2>2. Numbers
    BY DEF ListInv
  <2> QED
    BY <1>1, <1>7, <2>1, <2>2 DEF Numbers, Seqs
<1>10. \A b \in Addr : \A j \in 1..Len(ops') : ops'[j] = AddOp(b) => j \in 1..Len(ops)
  BY <1>3, OpsDiffer
<1>11. QueuedOnce'
  <2>1. \A b \in Addr : \A i, j \in 1..Len(ops') :
          ops'[i] = AddOp(b) /\ ops'[j] = AddOp(b) => i = j
    BY <1>3, <1>10 DEF ListInv, QueuedOnce
  <2> QED
    BY <2>1 DEF QueuedOnce, AddOp
<1>12. CancelsAfter'
  <2>1. \A b \in Addr : \A i, j \in 1..Len(ops') :
          ops'[j] = AddOp(b) /\ ops'[i] = CancelOp(<<b, heap[b].sequence>>) => j < i
    BY <1>3, <1>10 DEF ListInv, CancelsAfter
  <2> QED
    BY <1>1, <2>1 DEF CancelsAfter, AddOp, CancelOp
<1> QED
  BY <1>4, <1>5, <1>6, <1>8, <1>9, <1>11, <1>12 DEF ListInv

-----------------------------------------------------------------------------
(* Expiration. *)

LEMMA EarliestIs ==
    ASSUME NEW list \in SUBSET (Nat \X Addr), list # {}
    PROVE  /\ NextExpire(list) \in Nat
           /\ \E e \in list : e[1] = NextExpire(list)
           /\ \A e \in list : NextExpire(list) <= e[1]
<1> DEFINE T == {e[1] : e \in list}
<1>1. T \subseteq Nat /\ T # {}
  OBVIOUS
<1>2. \E x \in T : \A y \in T : x <= y
  <2> HIDE DEF T
  <2>1. PICK x \in T : \A y \in T : ~(<<y, x>> \in OpToRel(<, Nat))
    BY <1>1, NatLessThanWellFounded, WFMin
  <2>2. \A y \in T : ~(y < x)
    BY <1>1, <2>1 DEF OpToRel
  <2> QED
    BY <1>1, <2>2
<1>3. Min(T) \in T /\ \A y \in T : Min(T) <= y
  BY <1>2 DEF Min
<1>4. NextExpire(list) = Min(T)
  BY DEF NextExpire
<1> QED
  BY <1>1, <1>3, <1>4

(* One callback of the batch. *)
LEMMA RunStep ==
    ASSUME ListInv, NEW e \in toRun, RunTimer(e)
    PROVE  ListInv'
<1> DEFINE s == heap[e[2]].sequence
<1>0. /\ e \in expired /\ e[2] \in InBatch /\ e[2] \in Live
      /\ toRun \subseteq expired /\ expired \subseteq Nat \X Addr
      /\ runs \in [Seqs -> 0..2]
      /\ \A d \in expired : d[1] = heap[d[2]].expiration
      /\ \A a, b \in Live : heap[a].sequence = heap[b].sequence => a = b
  BY DEF ListInv, Ranges, Partition, InBatch, Entries, Numbers
<1>1. s \in Seqs /\ s <= created /\ \A a \in Live : heap[a].sequence \in Seqs
  BY <1>0, TimersOnHeap DEF ListInv, Numbers
<1>2. /\ toRun' = toRun \ {e}
      /\ runs' = [runs EXCEPT ![s] = IF runs[s] < 2 THEN runs[s] + 1 ELSE 2]
      /\ UNCHANGED <<now, jumps, alarm, readable, reported, heap, created, timers_,
                     activeTimers_, cancelingTimers_, callingExpiredTimers_, expired,
                     batchNow, ops, returning, ids, cancelled>>
  BY DEF RunTimer, clockVars, fdVars, listVars
<1> HIDE DEF s
<1>3. Flags' /\ Batches'
  BY <1>2, Zenon DEF ListInv, Flags, Batches
<1>4. /\ runs' \in [Seqs -> 0..2]
      /\ \A r \in Seqs : r # s => runs'[r] = runs[r]
      /\ runs[s] = 0 => runs'[s] = 1
  BY <1>0, <1>1, <1>2
<1>5. Ranges'
  BY <1>2, <1>4 DEF ListInv, Ranges, Seqs
<1>6. Numbers'
  <2>1. \A r \in Seqs : r > created => cancelled[r] = "no" /\ runs'[r] = 0
    <3>1. \A r \in Seqs : r > created => r # s
      BY <1>1, TimerAssumption DEF ListInv, Ranges, Seqs
    <3> QED
      BY <1>4, <3>1 DEF ListInv, Numbers
  <2> QED
    BY <1>2, <2>1 DEF ListInv, Numbers, Live, Seqs
<1>7. Cancels'
  BY <1>2 DEF ListInv, Cancels, Live, InBatch
<1>8. RunCounts'
  <2>1. ASSUME NEW a \in Live, ~(heap[a].interval > 0)
        PROVE  runs'[heap[a].sequence] = IF \E d \in expired \ (toRun \ {e}) : d[2] = a
                                         THEN 1 ELSE 0
    <3>0. runs[heap[a].sequence] = IF \E d \in expired \ toRun : d[2] = a THEN 1 ELSE 0
      BY <2>1 DEF ListInv, RunCounts, Repeat
    <3>1. CASE a = e[2]
      <4>1. \A d \in expired : d[2] = a => d = e
        BY <1>0, <3>1
      <4>2. runs[s] = 0
        BY <3>0, <3>1, <4>1 DEF s
      <4> QED
        BY <1>0, <1>4, <3>1, <4>2 DEF s
    <3>2. CASE a # e[2]
      <4>1. heap[a].sequence # s
        BY <1>0, <3>2 DEF s
      <4>2. (\E d \in expired \ (toRun \ {e}) : d[2] = a) <=> (\E d \in expired \ toRun : d[2] = a)
        BY <3>2
      <4> QED
        BY <1>1, <1>4, <3>0, <4>1, <4>2
    <3> QED
      BY <3>1, <3>2
  <2> QED
    BY <1>2, <2>1 DEF RunCounts, Repeat, Live
<1> QED
  BY <1>2, <1>3, <1>5, <1>6, <1>7, <1>8, PlacesKept DEF ListInv

(* handleRead moves the timers that are due from the lists to the batch. *)
LEMMA ReadStep ==
    ASSUME ListInv, HandleRead
    PROVE  ListInv'
<1>0. /\ callingExpiredTimers_ = FALSE /\ expired = {}
      /\ now \in 1..Horizon /\ Horizon \in Nat
      /\ timers_ \subseteq Nat \X Addr
      /\ \A e \in timers_ : e[1] = heap[e[2]].expiration
      /\ activeTimers_ = {<<a, heap[a].sequence>> : a \in Waiting}
      /\ Due \subseteq timers_
  BY TimerAssumption DEF HandleRead, ListInv, Flags, Batches, Ranges, Entries, Due
<1>1. /\ reported' = FALSE /\ readable' = FALSE /\ callingExpiredTimers_' = TRUE
      /\ batchNow' = now /\ expired' = Due /\ toRun' = Due /\ timers_' = timers_ \ Due
      /\ activeTimers_' = activeTimers_ \ {<<e[2], heap[e[2]].sequence>> : e \in Due}
      /\ cancelingTimers_' = {}
      /\ UNCHANGED <<now, jumps, alarm, heap, created, ops, returning, ids, runs, cancelled>>
  BY DEF HandleRead, clockVars
<1>2. Flags'
  BY <1>1, Zenon DEF Flags
<1>3. Batches'
  BY <1>0, <1>1 DEF Batches
<1> DEFINE D == {e[2] : e \in Due}
<1>4. /\ Live' = Live /\ Queued' = Queued
      /\ InBatch' = D /\ InBatch = {}
  BY <1>0, <1>1 DEF Live, Queued, AddOp, InBatch
<1>5. Waiting' = Waiting \ D /\ D \subseteq Waiting
  <2>1. \A e, d \in timers_ : e[2] = d[2] => e = d
    BY <1>0
  <2> QED
    BY <1>0, <1>1, <2>1 DEF Waiting
<1>6. activeTimers_' = {<<a, heap[a].sequence>> : a \in Waiting'}
  <2>1. {<<e[2], heap[e[2]].sequence>> : e \in Due} = {<<a, heap[a].sequence>> : a \in D}
    OBVIOUS
  <2> HIDE DEF D
  <2> QED
    BY <1>0, <1>1, <1>5, <2>1
<1> HIDE DEF D
<1>7. Ranges'
  BY <1>0, <1>1 DEF ListInv, Ranges, Seqs
<1>8. Shapes'
  BY <1>1 DEF ListInv, Shapes, TimerType, OpType, AddOp, CancelOp, Seqs
<1>9. Partition'
  BY <1>4, <1>5 DEF ListInv, Partition
<1>10. Entries'
  BY <1>0, <1>1, <1>6 DEF Entries
<1>11. QueuedOnce' /\ CancelsAfter'
  BY <1>1 DEF ListInv, QueuedOnce, CancelsAfter, AddOp, CancelOp
<1>12. Numbers'
  BY <1>1 DEF ListInv, Numbers, Live, Seqs
<1>13. Cancels'
  BY <1>1, <1>4 DEF ListInv, Cancels
<1>14. RunCounts'
  <2>1. expired \ toRun = {} /\ expired' \ toRun' = {}
    BY <1>0, <1>1
  <2> QED
    BY <1>1, <1>4, <2>1 DEF ListInv, RunCounts, Repeat
<1> QED
  BY <1>2, <1>3, <1>7, <1>8, <1>9, <1>10, <1>11, <1>12, <1>13, <1>14 DEF ListInv

(* timerfd_settime. *)
LEMMA TimerfdSet ==
    ASSUME NEW when \in Nat, now \in Nat, ResetTimerfd(when)
    PROVE  /\ alarm' \in Nat /\ alarm' >= 1 /\ readable' = FALSE
           /\ alarm' = 1 \/ now + alarm' = when
           /\ when <= now => alarm' = 1
  BY DEF ResetTimerfd, HowMuchTimeFromNow

(* What reset() makes of the heap. *)
LEMMA ResetHeap ==
    ASSUME ListInv, Reset
    PROVE  LET again == {a \in InBatch : Restarts(a)} IN
           /\ again \subseteq InBatch /\ InBatch \subseteq Live
           /\ \A a \in again : /\ heap'[a] \in TimerType
                               /\ heap'[a].sequence = heap[a].sequence
                               /\ heap'[a].interval = heap[a].interval
                               /\ heap'[a].interval > 0
                               /\ heap'[a].expiration = restart(a)
                               /\ restart(a) \in Nat /\ restart(a) > 0
                               /\ <<a, heap[a].sequence>> \notin cancelingTimers_
           /\ \A a \in InBatch \ again : heap'[a] = NoTimer
           /\ \A a \in Addr \ InBatch : heap'[a] = heap[a]
           /\ heap' \in [Addr -> TimerType \cup {NoTimer}]
           /\ timers_' = timers_ \cup {<<restart(a), a>> : a \in again}
           /\ activeTimers_' = activeTimers_ \cup {<<a, heap[a].sequence>> : a \in again}
<1> DEFINE again == {a \in InBatch : Restarts(a)}
<1>1. /\ heap' = [a \in Addr |->
                    CASE a \in again -> [heap[a] EXCEPT !.expiration = restart(a)]
                      [] a \in InBatch \ again -> NoTimer
                      [] OTHER -> heap[a]]
      /\ timers_' = timers_ \cup {<<restart(a), a>> : a \in again}
      /\ activeTimers_' = activeTimers_ \cup {<<a, heap[a].sequence>> : a \in again}
  BY DEF Reset, InBatch
<1>2. InBatch \subseteq Live /\ Live \subseteq Addr
  BY DEF ListInv, Partition, Live
<1>3. batchNow \in Nat /\ batchNow > 0
  BY TimerAssumption DEF ListInv, Ranges, Batches, Reset
<1>4. \A a \in again : /\ a \in InBatch /\ a \in Addr
                       /\ heap[a].interval > 0
                       /\ <<a, heap[a].sequence>> \notin cancelingTimers_
                       /\ heap[a] \in TimerType /\ heap[a].interval \in Nat
  BY <1>2, TimersOnHeap DEF ListInv, Restarts, Repeat
<1> HIDE DEF again
<1>5. ASSUME NEW a \in again
      PROVE  restart(a) \in Nat /\ restart(a) > 0
  <2>1. heap[a].interval \in Nat /\ heap[a].interval > 0
    BY <1>4
  <2> QED
    BY <1>3, <2>1 DEF restart
<1>6. ASSUME NEW a \in again
      PROVE  /\ heap'[a] \in TimerType
             /\ heap'[a].sequence = heap[a].sequence
             /\ heap'[a].interval = heap[a].interval
             /\ heap'[a].expiration = restart(a)
  <2>1. heap'[a] = [heap[a] EXCEPT !.expiration = restart(a)]
    BY <1>1, <1>4
  <2>2. heap[a] \in TimerType /\ restart(a) \in Nat
    BY <1>4, <1>5
  <2> QED
    BY <2>1, <2>2 DEF TimerType
<1>7. \A a \in InBatch \ again : heap'[a] = NoTimer
  BY <1>1, <1>2
<1>8. \A a \in Addr \ InBatch : heap'[a] = heap[a]
  BY <1>1, <1>4
<1>9. heap' \in [Addr -> TimerType \cup {NoTimer}]
  <2>1. \A a \in Addr : heap'[a] \in TimerType \cup {NoTimer}
    BY <1>6, <1>7, <1>8 DEF ListInv, Shapes
  <2>2. heap' = [a \in Addr |-> heap'[a]]
    BY <1>1
  <2> QED
    BY <2>1, <2>2
<1>10. again \subseteq InBatch
  BY DEF again
<1> QED
  BY <1>1, <1>2, <1>4, <1>5, <1>6, <1>7, <1>8, <1>9, <1>10 DEF again

(* reset() puts the repeating timers back and deletes the others. *)
LEMMA ResetStep ==
    ASSUME ListInv, Reset
    PROVE  ListInv'
<1> DEFINE again == {a \in InBatch : Restarts(a)}
<1>0. /\ again \subseteq InBatch /\ InBatch \subseteq Live
      /\ \A a \in again : /\ heap'[a] \in TimerType
                          /\ heap'[a].sequence = heap[a].sequence
                          /\ heap'[a].interval = heap[a].interval
                          /\ heap'[a].interval > 0
                          /\ heap'[a].expiration = restart(a)
                          /\ restart(a) \in Nat /\ restart(a) > 0
                          /\ <<a, heap[a].sequence>> \notin cancelingTimers_
      /\ \A a \in InBatch \ again : heap'[a] = NoTimer
      /\ \A a \in Addr \ InBatch : heap'[a] = heap[a]
      /\ heap' \in [Addr -> TimerType \cup {NoTimer}]
      /\ timers_' = timers_ \cup {<<restart(a), a>> : a \in again}
      /\ activeTimers_' = activeTimers_ \cup {<<a, heap[a].sequence>> : a \in again}
  BY ResetHeap
<1>1. /\ callingExpiredTimers_' = FALSE /\ expired' = {} /\ batchNow' = 0
      /\ toRun = {} /\ toRun' = {}
      /\ UNCHANGED <<now, jumps, reported, created, cancelingTimers_, ops, returning, ids,
                     runs, cancelled>>
  BY DEF Reset, clockVars
<1> HIDE DEF again
<1>2. NoTimer \notin TimerType
  BY TimerAssumption DEF TimerType, Seqs
<1>3. /\ Live \subseteq Addr /\ Waiting \subseteq Live /\ Queued \subseteq Live
      /\ Waiting \cap InBatch = {} /\ Queued \cap InBatch = {}
      /\ Live = Waiting \cup InBatch \cup Queued
      /\ Waiting \cap Queued = {}
  BY DEF ListInv, Partition, Live
<1>4. Live' = Live \ (InBatch \ again)
  <2>1. \A a \in Addr : heap'[a] # NoTimer <=> a \in Live /\ a \notin InBatch \ again
    <3> SUFFICES ASSUME NEW a \in Addr
                 PROVE  heap'[a] # NoTimer <=> a \in Live /\ a \notin InBatch \ again
      OBVIOUS
    <3>1. CASE a \in again
      <4>1. heap'[a] \in TimerType /\ a \in Live
        BY <1>0, <3>1
      <4> QED
        BY <1>2, <3>1, <4>1
    <3>2. CASE a \in InBatch \ again
      BY <1>0, <3>2
    <3>3. CASE a \notin InBatch
      <4>1. heap'[a] = heap[a]
        BY <1>0, <3>3
      <4> QED
        BY <3>3, <4>1 DEF Live
    <3> QED
      BY <1>0, <3>1, <3>2, <3>3
  <2>2. Live' = {a \in Addr : heap'[a] # NoTimer}
    BY DEF Live
  <2> QED
    BY <1>3, <2>1, <2>2
<1>5. /\ InBatch' = {} /\ Queued' = Queued
      /\ Waiting' = Waiting \cup again
  <2> DEFINE restarted == {<<restart(a), a>> : a \in again}
  <2>a. \A e \in restarted : e[2] \in again
    OBVIOUS
  <2>b. ASSUME NEW a \in again PROVE \E e \in restarted : e[2] = a
    <3>1. <<restart(a), a>> \in restarted /\ <<restart(a), a>>[2] = a
      OBVIOUS
    <3> QED
      BY <3>1
  <2> HIDE DEF restarted
  <2>1. {e[2] : e \in restarted} = again
    BY <2>a, <2>b
  <2>2. Waiting' = Waiting \cup {e[2] : e \in restarted}
    BY <1>0 DEF Waiting, restarted
  <2> QED
    BY <1>1, <2>1, <2>2 DEF InBatch, Queued, AddOp
<1>6. \A a \in Live' : /\ a \in Live /\ heap'[a].sequence = heap[a].sequence
                       /\ a \in again \/ (a \notin InBatch /\ heap'[a] = heap[a])
  BY <1>0, <1>3, <1>4
<1>7. timers_' \subseteq Nat \X Addr
  <2>1. \A a \in again : a \in Addr /\ restart(a) \in Nat
    BY <1>0, <1>3
  <2>2. {<<restart(a), a>> : a \in again} \subseteq Nat \X Addr
    BY <2>1
  <2> QED
    BY <1>0, <2>2 DEF ListInv, Ranges
<1>8. alarm' \in Nat /\ readable' \in BOOLEAN
  <2>0. now \in Nat /\ alarm \in Nat
    BY TimerAssumption DEF ListInv, Ranges
  <2>1. CASE NextExpire(timers_') > 0
    <3>1. timers_' # {}
      BY <2>1 DEF NextExpire
    <3>2. NextExpire(timers_') \in Nat
      BY <1>7, <3>1, EarliestIs
    <3>3. ResetTimerfd(NextExpire(timers_'))
      BY <2>1 DEF Reset
    <3>4. alarm' \in Nat /\ readable' = FALSE
      BY <2>0, <3>2, <3>3, TimerfdSet
    <3> QED
      BY <3>4
  <2>2. CASE ~(NextExpire(timers_') > 0)
    <3>1. UNCHANGED fdVars
      BY <2>2 DEF Reset
    <3> QED
      BY <2>0, <3>1, Zenon DEF fdVars, ListInv, Flags
  <2> QED
    BY <2>1, <2>2
<1>9. Flags'
  BY <1>1, <1>8, Zenon DEF ListInv, Flags
<1>10. Ranges'
  <2>1. activeTimers_' \subseteq Addr \X Seqs
    <3>1. \A a \in again : a \in Addr /\ heap[a].sequence \in Seqs
      BY <1>0, <1>3, TimersOnHeap DEF ListInv
    <3> QED
      BY <1>0, <3>1 DEF ListInv, Ranges
  <2>2. batchNow' \in 0..Horizon
    BY <1>1, TimerAssumption
  <2> QED
    BY <1>1, <1>7, <1>8, <2>1, <2>2 DEF ListInv, Ranges, Seqs
<1>11. Shapes'
  BY <1>0, <1>1 DEF ListInv, Shapes, TimerType, OpType, AddOp, CancelOp, Seqs
<1>12. Partition'
  BY <1>0, <1>3, <1>4, <1>5 DEF Partition
<1>13. Entries'
  <2>1. ASSUME NEW e \in timers_' PROVE e[1] = heap'[e[2]].expiration
    <3>1. CASE e \in timers_
      <4>1. e[2] \in Waiting /\ e[2] \in Addr \ InBatch /\ e[1] = heap[e[2]].expiration
        BY <1>3, <3>1 DEF Waiting, ListInv, Entries
      <4> QED
        BY <1>0, <4>1
    <3>2. CASE e \notin timers_
      <4>1. PICK a \in again : e = <<restart(a), a>>
        BY <1>0, <3>2
      <4> QED
        BY <1>0, <4>1
    <3> QED
      BY <3>1, <3>2
  <2>2. \A a \in Waiting' : heap'[a].sequence = heap[a].sequence
    BY <1>0, <1>3, <1>5
  <2>3. activeTimers_ = {<<a, heap[a].sequence>> : a \in Waiting}
    BY DEF ListInv, Entries
  <2>4. activeTimers_' = {<<a, heap[a].sequence>> : a \in Waiting'}
    BY <1>0, <1>5, <2>3
  <2>5. activeTimers_' = {<<a, heap'[a].sequence>> : a \in Waiting'}
    BY <2>2, <2>4
  <2> QED
    BY <1>1, <2>1, <2>5 DEF Entries
<1>14. QueuedOnce'
  BY <1>1 DEF ListInv, QueuedOnce, AddOp
<1>15. Numbers'
  BY <1>1, <1>6 DEF ListInv, Numbers, Seqs
<1>16. Batches'
  BY <1>1 DEF Batches
<1>17. Cancels'
  BY <1>0, <1>1, <1>5, <1>6 DEF ListInv, Cancels
<1>18. RunCounts'
  <2>1. ASSUME NEW a \in Live', ~(heap'[a].interval > 0)
        PROVE  runs[heap'[a].sequence] = 0
    <3>1. a \in Live /\ a \notin InBatch /\ heap'[a] = heap[a]
      BY <1>0, <1>6, <2>1
    <3>2. ~ \E e \in expired \ toRun : e[2] = a
      BY <3>1 DEF InBatch
    <3> QED
      BY <2>1, <3>1, <3>2 DEF ListInv, RunCounts, Repeat
  <2> QED
    BY <1>1, <2>1 DEF RunCounts, Repeat
<1>19. CancelsAfter'
  <2>1. \A a \in Addr : \A j \in 1..Len(ops) : ops[j] = AddOp(a) => heap'[a] = heap[a]
    BY <1>0, <1>3 DEF Queued
  <2>2. \A a \in Addr : \A i, j \in 1..Len(ops) :
          ops[j] = AddOp(a) /\ ops[i] = CancelOp(<<a, heap'[a].sequence>>) => j < i
    BY <2>1 DEF ListInv, CancelsAfter
  <2> QED
    BY <1>1, <2>2 DEF CancelsAfter, AddOp, CancelOp
<1> QED
  BY <1>9, <1>10, <1>11, <1>12, <1>13, <1>14, <1>15, <1>16, <1>17, <1>18, <1>19 DEF ListInv

-----------------------------------------------------------------------------
(* addTimer *)

LEMMA Created ==
    ASSUME ListInv, NEW a \in Addr, NEW when \in 0..Horizon, NEW i \in Intervals,
           NewTimer(a, when, i)
    PROVE  /\ a \notin Live /\ created \in Nat /\ created' = created + 1
           /\ created' \in 0..MaxTimers /\ created' \in Seqs
           /\ heap' \in [Addr -> TimerType \cup {NoTimer}]
           /\ heap'[a].sequence = created' /\ heap'[a].expiration = when
           /\ heap'[a].interval = i
           /\ when \in Nat
           /\ \A b \in Addr \ {a} : heap'[b] = heap[b]
           /\ Live' = Live \cup {a} /\ a \in Live'
           /\ \A b \in Live' : heap'[b].sequence <= created'
           /\ \A b \in Live : heap'[b].sequence # created' /\ heap'[b] = heap[b] /\ b # a
           /\ \A b, c \in Live' : heap'[b].sequence = heap'[c].sequence => b = c
<1>0. /\ MaxTimers \in Nat /\ Horizon \in Nat
      /\ created \in 0..MaxTimers
      /\ heap \in [Addr -> TimerType \cup {NoTimer}]
      /\ \A b \in Live : heap[b].sequence <= created /\ heap[b].sequence \in Nat
      /\ \A b, c \in Live : heap[b].sequence = heap[c].sequence => b = c
      /\ NoTimer \notin TimerType
  BY TimerAssumption, TimersOnHeap DEF ListInv, Ranges, Shapes, Numbers, Seqs, TimerType
<1>1. /\ created < MaxTimers /\ heap[a] = NoTimer /\ created' = created + 1
      /\ heap' = [heap EXCEPT ![a] = Timer(created + 1, when, i)]
  BY DEF NewTimer
<1>2. created \in Nat /\ created' \in 0..MaxTimers /\ created' \in Seqs /\ when \in Nat
  BY <1>0, <1>1 DEF Seqs
<1>3. /\ Timer(created + 1, when, i) \in TimerType
      /\ Timer(created + 1, when, i).sequence = created'
      /\ Timer(created + 1, when, i).expiration = when
      /\ Timer(created + 1, when, i).interval = i
  BY <1>1, <1>2 DEF Timer, TimerType
<1>4. /\ heap' \in [Addr -> TimerType \cup {NoTimer}]
      /\ heap'[a] = Timer(created + 1, when, i) /\ heap'[a] # NoTimer
      /\ \A b \in Addr \ {a} : heap'[b] = heap[b]
  BY <1>0, <1>1, <1>3
<1>5. a \notin Live /\ \A b \in Live : b \in Addr /\ b # a
  BY <1>1 DEF Live
<1>6. Live' = Live \cup {a}
  <2>1. Live' = {b \in Addr : heap'[b] # NoTimer}
    BY DEF Live
  <2> QED
    BY <1>4, <1>5, <2>1 DEF Live
<1>7. \A b \in Live : heap'[b] = heap[b] /\ heap'[b].sequence # created'
                      /\ heap'[b].sequence <= created'
  BY <1>0, <1>1, <1>2, <1>4, <1>5
<1>8. \A b, c \in Live' : heap'[b].sequence = heap'[c].sequence => b = c
  BY <1>0, <1>3, <1>4, <1>6, <1>7
<1>9. \A b \in Live' : heap'[b].sequence <= created'
  BY <1>2, <1>3, <1>4, <1>6, <1>7
<1> QED
  BY <1>1, <1>2, <1>3, <1>4, <1>5, <1>6, <1>7, <1>8, <1>9

(* The new number is in no functor, TimerId or count yet. *)
LEMMA FreshNumber ==
    ASSUME ListInv, created' = created + 1, created' \in Seqs, created \in Nat
    PROVE  /\ cancelled[created'] = "no" /\ runs[created'] = 0
           /\ \A id \in ids : id[2] <= created'
           /\ \A t \in Threads : returning[t] # Idle => returning[t][2] <= created'
           /\ \A i \in 1..Len(ops) : ops[i][3] <= created' /\ ops[i][3] # created'
           /\ \A s \in Seqs : s > created' => cancelled[s] = "no" /\ runs[s] = 0
<1>1. \A id \in ids : id[2] \in Nat /\ id[2] <= created
  BY DEF ListInv, Ranges, Numbers, Seqs
<1>2. \A t \in Threads : returning[t] # Idle => returning[t][2] \in Nat /\ returning[t][2] <= created
  BY DEF ListInv, Ranges, Numbers, Seqs
<1>3. \A i \in 1..Len(ops) : ops[i][3] \in Nat /\ ops[i][3] <= created
  <2> TAKE i \in 1..Len(ops)
  <2>1. ops[i] \in OpType
    BY ElementOfSeq DEF ListInv, Shapes
  <2>2. ops[i][3] \in Nat
    BY <2>1, OpsDiffer DEF OpType, Seqs
  <2> QED
    BY <2>2 DEF ListInv, Numbers
<1>4. \A s \in Seqs : s > created => cancelled[s] = "no" /\ runs[s] = 0
  BY DEF ListInv, Numbers
<1> QED
  BY <1>1, <1>2, <1>3, <1>4 DEF Seqs

LEMMA WaitsToo ==
    ASSUME NEW when, NEW a, timers_' = timers_ \cup {<<when, a>>}
    PROVE  Waiting' = Waiting \cup {a}
<1> DEFINE e == <<when, a>>
<1>1. e[2] = a
  OBVIOUS
<1> HIDE DEF e
<1>2. timers_' = timers_ \cup {e}
  BY DEF e
<1> QED
  BY <1>1, <1>2 DEF Waiting

LEMMA AddSetsTimerfd ==
    ASSUME ListInv, NEW a, NEW timer, timer.expiration \in Nat, AddTimerInLoop(a, timer)
    PROVE  alarm' \in Nat /\ readable' \in BOOLEAN
<1>0. now \in Nat /\ alarm \in Nat /\ readable \in BOOLEAN
  BY TimerAssumption DEF ListInv, Ranges, Flags
<1>1. CASE EarliestChanged(timer.expiration)
  <2>1. alarm' \in Nat /\ readable' = FALSE
    BY <1>0, <1>1, TimerfdSet DEF AddTimerInLoop
  <2> QED
    BY <2>1
<1>2. CASE ~EarliestChanged(timer.expiration)
  BY <1>0, <1>2, Zenon DEF AddTimerInLoop, fdVars
<1> QED
  BY <1>1, <1>2

(* addTimer on the loop thread. *)
LEMMA LoopAddStep ==
    ASSUME ListInv, NEW a \in Addr, NEW when \in 0..Horizon, NEW i \in Intervals,
           LoopAdds(a, when, i)
    PROVE  ListInv'
<1>0. NewTimer(a, when, i)
  BY DEF LoopAdds
<1> DEFINE timer == Timer(created + 1, when, i)
<1>1. AddTimerInLoop(a, timer) /\ timer.expiration = when /\ timer.sequence = created + 1
  BY DEF LoopAdds, Timer
<1>2. /\ timers_' = timers_ \cup {<<when, a>>}
      /\ activeTimers_' = activeTimers_ \cup {<<a, created'>>}
      /\ ids' = ids \cup {<<a, created'>>}
      /\ UNCHANGED <<now, jumps, reported, cancelingTimers_, callingExpiredTimers_, expired,
                     toRun, batchNow, ops, returning, runs, cancelled>>
  BY <1>0, <1>1, Created DEF AddTimerInLoop, LoopAdds, clockVars, batchVars
<1> HIDE DEF timer
<1>3. alarm' \in Nat /\ readable' \in BOOLEAN
  BY <1>0, <1>1, Created, AddSetsTimerfd
<1>4. Flags' /\ Batches'
  BY <1>2, <1>3, Zenon DEF ListInv, Flags, Batches
<1>5. /\ a \notin Live /\ created' \in 0..MaxTimers /\ created' \in Seqs /\ created \in Nat
      /\ created' = created + 1 /\ when \in Nat
      /\ heap' \in [Addr -> TimerType \cup {NoTimer}]
      /\ heap'[a].sequence = created' /\ heap'[a].expiration = when
      /\ \A b \in Addr \ {a} : heap'[b] = heap[b]
      /\ \A b \in Live : heap'[b].sequence # created' /\ heap'[b] = heap[b] /\ b # a
      /\ Live' = Live \cup {a}
      /\ \A b \in Live' : heap'[b].sequence <= created'
      /\ \A b, c \in Live' : heap'[b].sequence = heap'[c].sequence => b = c
  BY <1>0, Created
<1>6. Ranges'
  BY <1>2, <1>3, <1>5 DEF ListInv, Ranges, Seqs
<1>7. Shapes'
  BY <1>2, <1>5 DEF ListInv, Shapes, TimerType, OpType, AddOp, CancelOp, Seqs
<1>8. InBatch' = InBatch /\ Queued' = Queued /\ Waiting' = Waiting \cup {a}
  <2>1. Waiting' = Waiting \cup {a}
    BY <1>2, WaitsToo
  <2> QED
    BY <1>2, <2>1 DEF InBatch, Queued, AddOp
<1>9. Live = Waiting \cup InBatch \cup Queued
  BY DEF ListInv, Partition
<1>10. Partition'
  BY <1>5, <1>8, <1>9 DEF ListInv, Partition
<1>11. Entries'
  <2>1. \A e \in timers_ \cup expired : e[2] \in Live
    BY <1>9 DEF Waiting, InBatch
  <2>2. \A e \in timers_' \cup expired' : e[1] = heap'[e[2]].expiration
    BY <1>2, <1>5, <2>1 DEF ListInv, Entries
  <2>3. activeTimers_' = {<<b, heap'[b].sequence>> : b \in Waiting'}
    <3>1. \A b \in Waiting : heap'[b].sequence = heap[b].sequence
      BY <1>5, <1>9
    <3> QED
      BY <1>2, <1>5, <1>8, <3>1 DEF ListInv, Entries
  <2> QED
    BY <2>2, <2>3 DEF Entries
<1>12. QueuedOnce'
  BY <1>2 DEF ListInv, QueuedOnce, AddOp
<1>13. Numbers'
  <2>1. \A id \in ids' : id[2] <= created'
    BY <1>2, <1>5, FreshNumber
  <2> QED
    BY <1>2, <1>5, <2>1, FreshNumber DEF Numbers, Seqs
<1>14. cancelled[created'] = "no" /\ runs[created'] = 0
  BY <1>5, FreshNumber
<1>15. Cancels'
  BY <1>2, <1>5, <1>8, <1>9, <1>14 DEF ListInv, Cancels
<1>16. RunCounts'
  <2>1. ~ \E e \in expired \ toRun : e[2] = a
    BY <1>5, <1>9 DEF InBatch
  <2> QED
    BY <1>2, <1>5, <1>14, <2>1 DEF ListInv, RunCounts, Repeat
<1>17. CancelsAfter'
  <2>1. \A b \in Addr : \A j \in 1..Len(ops) : ops[j] = AddOp(b) => heap'[b] = heap[b]
    BY <1>5, <1>9 DEF Queued
  <2>2. \A b \in Addr : \A k, j \in 1..Len(ops) :
          ops[j] = AddOp(b) /\ ops[k] = CancelOp(<<b, heap'[b].sequence>>) => j < k
    BY <2>1 DEF ListInv, CancelsAfter
  <2> QED
    BY <1>2, <2>2 DEF CancelsAfter, AddOp, CancelOp
<1> QED
  BY <1>4, <1>6, <1>7, <1>10, <1>11, <1>12, <1>13, <1>15, <1>16, <1>17 DEF ListInv

(* addTimer on another thread, up to the queueing of addTimerInLoop. *)
LEMMA ThreadAddStep ==
    ASSUME ListInv, NEW t \in Threads, NEW a \in Addr, NEW when \in 0..Horizon,
           NEW i \in Intervals, ThreadAdds(t, a, when, i)
    PROVE  ListInv'
<1>0. NewTimer(a, when, i) /\ Len(ops) < MaxOps
  BY DEF ThreadAdds
<1>1. /\ a \notin Live /\ created' \in 0..MaxTimers /\ created' \in Seqs /\ created \in Nat
      /\ created' = created + 1
      /\ heap' \in [Addr -> TimerType \cup {NoTimer}]
      /\ heap'[a].sequence = created'
      /\ \A b \in Addr \ {a} : heap'[b] = heap[b]
      /\ \A b \in Live : heap'[b].sequence # created' /\ heap'[b] = heap[b] /\ b # a
      /\ Live' = Live \cup {a}
      /\ \A b \in Live' : heap'[b].sequence <= created'
      /\ \A b, c \in Live' : heap'[b].sequence = heap'[c].sequence => b = c
  BY <1>0, Created
<1>2. /\ ops' = Append(ops, AddOp(a))
      /\ returning' = [returning EXCEPT ![t] = <<a, created'>>]
      /\ UNCHANGED <<now, jumps, alarm, readable, reported, timers_, activeTimers_,
                     cancelingTimers_, callingExpiredTimers_, expired, toRun, batchNow, ids,
                     runs, cancelled>>
  BY <1>1 DEF ThreadAdds, clockVars, fdVars, listVars, batchVars
<1>3. Flags' /\ Batches'
  BY <1>2, Zenon DEF ListInv, Flags, Batches
<1>4. AddOp(a) \in OpType
  BY DEF OpType
<1>5. /\ ops' \in Seq(OpType)
      /\ Len(ops') = Len(ops) + 1 /\ Len(ops) \in Nat
      /\ \A j \in 1..Len(ops) : ops'[j] = ops[j]
      /\ ops'[Len(ops) + 1] = AddOp(a)
  BY <1>2, <1>4, OpAppended DEF ListInv
<1>6. Queued' = Queued \cup {a}
  <2>1. {b \in Addr : AddOp(a) = AddOp(b)} = {a}
    BY OpsDiffer
  <2> QED
    BY <1>2, <1>4, <2>1, OpAppended DEF ListInv
<1>7. Ranges'
  <2>1. returning' \in [Threads -> (Addr \X Seqs) \cup {Idle}]
    BY <1>1, <1>2 DEF ListInv, Ranges
  <2>2. Len(ops') <= MaxOps
    BY <1>0, <1>5, TimerAssumption
  <2> QED
    BY <1>1, <1>2, <2>1, <2>2 DEF ListInv, Ranges, Seqs
<1>8. Shapes'
  BY <1>1, <1>5 DEF Shapes, TimerType, OpType, AddOp, CancelOp, Seqs
<1>9. InBatch' = InBatch /\ Waiting' = Waiting /\ Live = Waiting \cup InBatch \cup Queued
  BY <1>2 DEF InBatch, Waiting, ListInv, Partition
<1>10. Partition'
  BY <1>1, <1>6, <1>9 DEF ListInv, Partition
<1>11. Entries'
  <2>1. \A e \in timers_ \cup expired : e[2] \in Live
    BY <1>9 DEF Waiting, InBatch
  <2>2. \A e \in timers_' \cup expired' : e[1] = heap'[e[2]].expiration
    BY <1>1, <1>2, <2>1 DEF ListInv, Entries
  <2>3. activeTimers_' = {<<b, heap'[b].sequence>> : b \in Waiting'}
    <3>1. \A b \in Waiting : heap'[b].sequence = heap[b].sequence
      BY <1>1, <1>9
    <3> QED
      BY <1>2, <1>9, <3>1 DEF ListInv, Entries
  <2> QED
    BY <2>2, <2>3 DEF Entries
<1>12. \A b \in Addr : \A j \in 1..Len(ops') :
          ops'[j] = AddOp(b) => \/ b = a /\ j = Len(ops) + 1
                                \/ b # a /\ j \in 1..Len(ops) /\ ops[j] = AddOp(b)
  <2>1. \A j \in 1..Len(ops) : ops[j] # AddOp(a)
    BY <1>1, <1>9 DEF Queued
  <2> TAKE b \in Addr
  <2> TAKE j \in 1..Len(ops')
  <2> HAVE ops'[j] = AddOp(b)
  <2>2. CASE j = Len(ops) + 1
    BY <1>5, <2>2, OpsDiffer
  <2>3. CASE j # Len(ops) + 1
    <3>1. j \in 1..Len(ops) /\ ops[j] = AddOp(b)
      BY <1>5, <2>3
    <3> QED
      BY <2>1, <3>1
  <2> QED
    BY <2>2, <2>3
<1>13. QueuedOnce'
  <2>1. \A b \in Addr : \A k, j \in 1..Len(ops') :
          ops'[k] = AddOp(b) /\ ops'[j] = AddOp(b) => k = j
    BY <1>12 DEF ListInv, QueuedOnce
  <2> QED
    BY <2>1 DEF QueuedOnce, AddOp
<1>14. Numbers'
  <2>1. \A u \in Threads : returning'[u] # Idle => returning'[u][2] <= created'
    <3> TAKE u \in Threads
    <3>1. CASE u = t
      BY <1>1, <1>2, <3>1 DEF ListInv, Ranges
    <3>2. CASE u # t
      BY <1>1, <1>2, <3>2, FreshNumber DEF ListInv, Ranges
    <3> QED
      BY <3>1, <3>2
  <2>2. ASSUME NEW j \in 1..Len(ops') PROVE ops'[j][3] <= created'
    <3>1. CASE j = Len(ops) + 1
      BY <1>1, <1>5, <3>1, OpsDiffer
    <3>2. CASE j # Len(ops) + 1
      <4>1. j \in 1..Len(ops) /\ ops'[j] = ops[j]
        BY <1>5, <3>2
      <4> QED
        BY <1>1, <4>1, FreshNumber
    <3> QED
      BY <3>1, <3>2
  <2> QED
    BY <1>1, <1>2, <2>1, <2>2, FreshNumber DEF Numbers, Seqs
<1>15. cancelled[created'] = "no" /\ runs[created'] = 0
  BY <1>1, FreshNumber
<1>16. Cancels'
  BY <1>1, <1>2, <1>9, <1>15 DEF ListInv, Cancels
<1>17. RunCounts'
  <2>1. ~ \E e \in expired \ toRun : e[2] = a
    BY <1>1, <1>9 DEF InBatch
  <2> QED
    BY <1>1, <1>2, <1>15, <2>1 DEF ListInv, RunCounts, Repeat
<1>18. CancelsAfter'
  <2>1. ASSUME NEW b \in Addr, NEW k \in 1..Len(ops'), NEW j \in 1..Len(ops'),
               ops'[j] = AddOp(b), ops'[k] = CancelOp(<<b, heap'[b].sequence>>)
        PROVE  j < k
    <3>1. k \in 1..Len(ops)
      BY <1>5, <2>1, OpsDiffer
    <3>2. b # a
      <4>1. ops[k][3] # created'
        BY <1>1, <3>1, FreshNumber
      <4> QED
        BY <1>1, <1>5, <2>1, <3>1, <4>1, OpsDiffer
    <3> QED
      BY <1>1, <1>5, <1>12, <2>1, <3>1, <3>2 DEF ListInv, CancelsAfter
  <2> QED
    BY <2>1 DEF CancelsAfter, AddOp, CancelOp
<1> QED
  BY <1>3, <1>7, <1>8, <1>10, <1>11, <1>13, <1>14, <1>16, <1>17, <1>18 DEF ListInv

(* doPendingFunctors reaches an addTimerInLoop. *)
LEMMA AddOpStep ==
    ASSUME ListInv, NEW a \in Addr, ops # <<>>, Head(ops) = AddOp(a), RunOp
    PROVE  ListInv'
<1>1. /\ ops' = Tail(ops)
      /\ AddTimerInLoop(a, heap[a])
      /\ UNCHANGED <<now, jumps, reported, heap, created, cancelingTimers_,
                     callingExpiredTimers_, expired, toRun, batchNow, returning, ids, runs,
                     cancelled>>
  BY OpsDiffer DEF RunOp, clockVars, batchVars
<1>2. /\ ops' \in Seq(OpType)
      /\ Len(ops') = Len(ops) - 1 /\ Len(ops) \in Nat /\ Len(ops) > 0
      /\ \A i \in 1..Len(ops') : ops'[i] = ops[i + 1]
      /\ ops[1] = AddOp(a)
  BY <1>1, OpTaken DEF ListInv
<1>3. Queued' = Queued \ {a} /\ a \in Queued
  <2>1. {b \in Addr : AddOp(a) = AddOp(b)} = {a}
    BY OpsDiffer
  <2>2. a \in Queued
    BY <1>2 DEF Queued
  <2> QED
    BY <1>1, <2>1, <2>2, OpTaken DEF ListInv
<1>4. Live = Waiting \cup InBatch \cup Queued /\ a \in Live
  BY <1>3 DEF ListInv, Partition
<1>5. heap[a].expiration \in Nat /\ heap[a].sequence \in Seqs
  BY <1>4, TimersOnHeap DEF ListInv
<1>6. /\ timers_' = timers_ \cup {<<heap[a].expiration, a>>}
      /\ activeTimers_' = activeTimers_ \cup {<<a, heap[a].sequence>>}
  BY <1>1 DEF AddTimerInLoop
<1>7. alarm' \in Nat /\ readable' \in BOOLEAN
  BY <1>1, <1>5, AddSetsTimerfd
<1>8. Flags' /\ Batches'
  BY <1>1, <1>7, Zenon DEF ListInv, Flags, Batches
<1>9. Ranges'
  <2>1. Len(ops') <= MaxOps
    BY <1>2, TimerAssumption DEF ListInv, Ranges
  <2>2. timers_' \subseteq Nat \X Addr /\ activeTimers_' \subseteq Addr \X Seqs
    BY <1>5, <1>6 DEF ListInv, Ranges
  <2> QED
    BY <1>1, <1>7, <2>1, <2>2 DEF ListInv, Ranges, Seqs
<1>10. Shapes'
  BY <1>1, <1>2 DEF ListInv, Shapes, TimerType, OpType, AddOp, CancelOp, Seqs
<1>11. Waiting' = Waiting \cup {a}
  BY <1>6, WaitsToo
<1>12. Live' = Live /\ InBatch' = InBatch
  BY <1>1 DEF Live, InBatch
<1>13. Partition'
  BY <1>3, <1>4, <1>11, <1>12 DEF ListInv, Partition
<1>14. Entries'
  <2>1. \A e \in timers_' \cup expired' : e[1] = heap'[e[2]].expiration
    BY <1>1, <1>6 DEF ListInv, Entries
  <2>2. activeTimers_' = {<<b, heap[b].sequence>> : b \in Waiting'}
    BY <1>6, <1>11 DEF ListInv, Entries
  <2> QED
    BY <1>1, <2>1, <2>2 DEF Entries
<1>15. QueuedOnce'
  <2> SUFFICES ASSUME NEW b \in Addr, NEW i \in 1..Len(ops'), NEW j \in 1..Len(ops'),
                      ops'[i] = AddOp(b), ops'[j] = AddOp(b)
               PROVE  i = j
    BY DEF QueuedOnce, AddOp
  <2>1. /\ i + 1 \in 1..Len(ops) /\ ops[i + 1] = AddOp(b)
        /\ j + 1 \in 1..Len(ops) /\ ops[j + 1] = AddOp(b)
    BY <1>2
  <2>2. i + 1 = j + 1
    BY <2>1 DEF ListInv, QueuedOnce
  <2> QED
    BY <2>2
<1>16. Numbers'
  <2>1. \A j \in 1..Len(ops') : ops'[j][3] <= created
    BY <1>2 DEF ListInv, Numbers
  <2> QED
    BY <1>1, <1>12, <2>1 DEF ListInv, Numbers, Seqs
<1>17. Cancels' /\ RunCounts'
  BY <1>1, <1>12 DEF ListInv, Cancels, RunCounts, Repeat
<1>18. CancelsAfter'
  <2>1. ASSUME NEW b \in Addr, NEW i \in 1..Len(ops'), NEW j \in 1..Len(ops'),
               ops'[j] = AddOp(b), ops'[i] = CancelOp(<<b, heap[b].sequence>>)
        PROVE  j < i
    <3>1. /\ i + 1 \in 1..Len(ops) /\ ops[i + 1] = CancelOp(<<b, heap[b].sequence>>)
          /\ j + 1 \in 1..Len(ops) /\ ops[j + 1] = AddOp(b)
      BY <1>2, <2>1
    <3>2. j + 1 < i + 1
      BY <3>1 DEF ListInv, CancelsAfter
    <3> QED
      BY <3>2
  <2> QED
    BY <1>1, <2>1 DEF CancelsAfter, AddOp, CancelOp
<1> QED
  BY <1>8, <1>9, <1>10, <1>13, <1>14, <1>15, <1>16, <1>17, <1>18 DEF ListInv

-----------------------------------------------------------------------------
(* cancel *)

(* How cancelInLoop meets the timer of a TimerId, by the place that has it. *)
LEMMA MeetsIs ==
    ASSUME ListInv, NEW id \in Addr \X Seqs
    PROVE  LET own == id[1] \in Live /\ heap[id[1]].sequence = id[2] IN
           /\ id \in activeTimers_ <=> id[1] \in Waiting /\ own
           /\ Meets(id) = IF own
                          THEN IF id[1] \in Waiting THEN "active"
                               ELSE IF id[1] \in InBatch THEN "expired" ELSE "pending"
                          ELSE cancelled[id[2]]
           /\ Found(id) = IF id \in activeTimers_ THEN {id} ELSE {}
<1> DEFINE own == id[1] \in Live /\ heap[id[1]].sequence = id[2]
<1>1. /\ Live = Waiting \cup InBatch \cup Queued
      /\ Waiting \cap InBatch = {} /\ Waiting \cap Queued = {} /\ InBatch \cap Queued = {}
  BY DEF ListInv, Partition
<1>2. id = <<id[1], id[2]>> /\ id[1] \in Addr
  OBVIOUS
<1>3. id \in activeTimers_ <=> id[1] \in Waiting /\ own
  <2>1. activeTimers_ = {<<a, heap[a].sequence>> : a \in Waiting}
    BY DEF ListInv, Entries
  <2> QED
    BY <1>1, <1>2, <2>1
<1>4. (\E e \in expired : e[2] = id[1] /\ heap[id[1]].sequence = id[2])
        <=> id[1] \in InBatch /\ own
  BY <1>1 DEF InBatch
<1>5. (\E i \in 1..Len(ops) : ops[i] = AddOp(id[1]) /\ heap[id[1]].sequence = id[2])
        <=> id[1] \in Queued /\ own
  BY <1>1, <1>2 DEF Queued
<1>6. Found(id) = IF id \in activeTimers_ THEN {id} ELSE {}
  BY DEF Found
<1>7. Meets(id) = CASE id[1] \in Waiting /\ own -> "active"
                    [] id[1] \in InBatch /\ own -> "expired"
                    [] id[1] \in Queued /\ own -> "pending"
                    [] OTHER -> cancelled[id[2]]
  BY <1>3, <1>4, <1>5 DEF Meets
<1> HIDE DEF Meets, Waiting, InBatch, Queued, Live
<1>8. Meets(id) = IF own
                  THEN IF id[1] \in Waiting THEN "active"
                       ELSE IF id[1] \in InBatch THEN "expired" ELSE "pending"
                  ELSE cancelled[id[2]]
  BY <1>1, <1>7
<1> QED
  BY <1>3, <1>6, <1>8

(* cancelInLoop, whether it is called at once or taken from the functors.  *)
(* The assumptions on ops' hold in both cases.                             *)
LEMMA CancelStep ==
    ASSUME ListInv, NEW id \in Addr \X Seqs, id[2] <= created, CancelInLoop(id),
           ops' \in Seq(OpType), Len(ops') <= MaxOps, Queued' = Queued, QueuedOnce',
           \A i \in 1..Len(ops') : ops'[i][3] <= created,
           \A b \in Addr : \A i, j \in 1..Len(ops') :
              ops'[j] = AddOp(b) /\ ops'[i] = CancelOp(<<b, heap[b].sequence>>) => j < i
    PROVE  ListInv'
<1> DEFINE a == id[1]
           r == id[2]
           own == a \in Live /\ heap[a].sequence = r
<1>0. /\ Live = Waiting \cup InBatch \cup Queued /\ Live \subseteq Addr
      /\ Waiting \cap InBatch = {} /\ Waiting \cap Queued = {} /\ InBatch \cap Queued = {}
  BY DEF ListInv, Partition, Live
<1>1. id = <<a, r>> /\ a \in Addr /\ r \in Seqs
  OBVIOUS
<1>2. /\ id \in activeTimers_ <=> a \in Waiting /\ own
      /\ Meets(id) = IF own
                     THEN IF a \in Waiting THEN "active"
                          ELSE IF a \in InBatch THEN "expired" ELSE "pending"
                     ELSE cancelled[r]
      /\ Found(id) = IF id \in activeTimers_ THEN {id} ELSE {}
  BY MeetsIs
<1>3. /\ cancelled' = [cancelled EXCEPT ![r] = Meets(id)]
      /\ UNCHANGED <<now, jumps, alarm, readable, reported, created, callingExpiredTimers_,
                     expired, toRun, batchNow, returning, ids, runs>>
  BY DEF CancelInLoop, clockVars, fdVars, batchVars
<1>4. /\ cancelled \in [Seqs -> {"no", "pending", "active", "expired"}]
      /\ \A b \in Live : heap[b].sequence \in Seqs
      /\ \A b, c \in Live : heap[b].sequence = heap[c].sequence => b = c
  BY TimersOnHeap DEF ListInv, Ranges, Numbers
<1> HIDE DEF a, r
<1>5. /\ cancelled' \in [Seqs -> {"no", "pending", "active", "expired"}]
      /\ cancelled'[r] = Meets(id)
      /\ \A s \in Seqs \ {r} : cancelled'[s] = cancelled[s]
  <2>1. Meets(id) \in {"no", "pending", "active", "expired"}
    BY <1>1, <1>2, <1>4
  <2> QED
    BY <1>1, <1>3, <1>4, <2>1
<1>6. Flags' /\ Batches' /\ InBatch' = InBatch
  BY <1>3, Zenon DEF ListInv, Flags, Batches, InBatch
<1>7. \A s \in Seqs : s > created => cancelled'[s] = "no" /\ runs'[s] = 0
  <2>1. \A s \in Seqs : s > created => s # r
    BY <1>1, TimerAssumption DEF r, ListInv, Ranges, Seqs
  <2> QED
    BY <1>3, <1>5, <2>1 DEF ListInv, Numbers
<1>8. CASE id \in activeTimers_
  <2>0. a \in Waiting /\ a \in Live /\ heap[a].sequence = r
        /\ a \notin InBatch /\ a \notin Queued
    BY <1>0, <1>2, <1>8
  <2>1. /\ timers_' = timers_ \ {<<heap[a].expiration, a>>}
        /\ activeTimers_' = activeTimers_ \ {id}
        /\ heap' = [heap EXCEPT ![a] = NoTimer]
        /\ UNCHANGED cancelingTimers_
    BY <1>2, <1>8 DEF CancelInLoop, a
  <2>2. /\ heap' \in [Addr -> TimerType \cup {NoTimer}]
        /\ heap'[a] = NoTimer /\ \A b \in Addr \ {a} : heap'[b] = heap[b]
    BY <1>1, <2>1 DEF ListInv, Shapes
  <2>3. Live' = Live \ {a}
    <3>1. Live' = {b \in Addr : heap'[b] # NoTimer}
      BY DEF Live
    <3> QED
      BY <2>2, <3>1 DEF Live
  <2>4. \A b \in Live' : b \in Live /\ b # a /\ heap'[b] = heap[b] /\ b \in Addr
                         /\ heap[b].sequence # r /\ heap[b].sequence \in Seqs
    BY <1>0, <1>4, <2>0, <2>2, <2>3
  <2>5. Waiting' = Waiting \ {a}
    <3>1. \A e \in timers_ : e[2] = a => e = <<heap[a].expiration, a>>
      BY DEF ListInv, Entries, Ranges
    <3> DEFINE x == <<heap[a].expiration, a>>
    <3>2. x[2] = a /\ timers_' = timers_ \ {x} /\ \A e \in timers_ : e[2] = a => e = x
      BY <2>1, <3>1
    <3> HIDE DEF x
    <3> QED
      BY <3>2 DEF Waiting
  <2>6. Ranges'
    BY <1>3, <1>5, <2>1 DEF ListInv, Ranges, Seqs
  <2>7. Shapes'
    BY <2>2 DEF Shapes, TimerType, OpType, AddOp, CancelOp, Seqs
  <2>8. Partition'
    BY <1>0, <1>6, <2>0, <2>3, <2>5 DEF Partition
  <2>9. Entries'
    <3>1. \A e \in timers_' \cup expired' : e[2] \in Live'
      BY <2>8 DEF Partition, Waiting, InBatch
    <3>2. \A e \in timers_' \cup expired' : e[1] = heap'[e[2]].expiration
      BY <1>3, <2>1, <2>4, <3>1 DEF ListInv, Entries
    <3>3. \A b \in Waiting' : heap'[b].sequence = heap[b].sequence
      BY <2>4, <2>8 DEF Partition
    <3>4. activeTimers_' = {<<b, heap[b].sequence>> : b \in Waiting'}
      BY <1>1, <2>0, <2>1, <2>5 DEF ListInv, Entries
    <3> QED
      BY <3>2, <3>3, <3>4 DEF Entries
  <2>10. Numbers'
    <3>1. Numbers
      BY DEF ListInv
    <3>2. \A b \in Live' : heap'[b].sequence <= created
      BY <2>4, <3>1 DEF Numbers
    <3>3. \A b, c \in Live' : heap'[b].sequence = heap'[c].sequence => b = c
      BY <2>4, <3>1 DEF Numbers
    <3> QED
      BY <1>3, <1>7, <3>1, <3>2, <3>3 DEF Numbers
  <2>11. Cancels'
    BY <1>5, <1>6, <2>1, <2>4 DEF ListInv, Cancels
  <2>12. RunCounts'
    BY <1>3, <2>4 DEF ListInv, RunCounts, Repeat
  <2>13. CancelsAfter'
    <3>1. \A b \in Addr : \A j \in 1..Len(ops') : ops'[j] = AddOp(b) => b \in Queued'
      BY DEF Queued, AddOp
    <3>2. \A b \in Queued' : heap'[b] = heap[b]
      BY <1>0, <2>0, <2>2
    <3>3. \A b \in Addr : \A i, j \in 1..Len(ops') :
            ops'[j] = AddOp(b) /\ ops'[i] = CancelOp(<<b, heap'[b].sequence>>) => j < i
      BY <3>1, <3>2
    <3> QED
      BY <3>3 DEF CancelsAfter, AddOp, CancelOp
  <2> QED
    BY <1>6, <2>6, <2>7, <2>8, <2>9, <2>10, <2>11, <2>12, <2>13 DEF ListInv
<1>9. CASE id \notin activeTimers_
  <2>1. /\ cancelingTimers_' = IF callingExpiredTimers_ THEN cancelingTimers_ \cup {id}
                               ELSE cancelingTimers_
        /\ UNCHANGED <<heap, timers_, activeTimers_>>
    BY <1>2, <1>9 DEF CancelInLoop
  <2>2. Live' = Live /\ Waiting' = Waiting
    BY <2>1 DEF Live, Waiting
  <2>3. Ranges'
    <3>1. cancelingTimers_' \subseteq Addr \X Seqs
      BY <2>1 DEF ListInv, Ranges
    <3> QED
      BY <1>3, <1>5, <2>1, <3>1 DEF ListInv, Ranges, Seqs
  <2>4. Shapes'
    BY <2>1 DEF ListInv, Shapes, TimerType, OpType, AddOp, CancelOp, Seqs
  <2>5. Partition' /\ Entries'
    BY <1>3, <1>6, <2>1, <2>2 DEF ListInv, Partition, Entries
  <2>6. Numbers'
    BY <1>3, <1>7, <2>1, <2>2 DEF ListInv, Numbers, Seqs
  <2>7. Cancels'
    <3>1. ASSUME NEW b \in Live
          PROVE  /\ cancelled'[heap[b].sequence] # "active"
                 /\ cancelled'[heap[b].sequence] = "expired" <=>
                      b \in InBatch /\ <<b, heap[b].sequence>> \in cancelingTimers_'
      <4>0. /\ cancelled[heap[b].sequence] # "active"
            /\ cancelled[heap[b].sequence] = "expired" <=>
                 b \in InBatch /\ <<b, heap[b].sequence>> \in cancelingTimers_
        BY DEF ListInv, Cancels
      <4>1. CASE id = <<b, heap[b].sequence>>
        <5>1. a = b /\ r = heap[b].sequence /\ own /\ a \notin Waiting
          BY <1>2, <1>9, <4>1 DEF a, r
        <5>2. a \in InBatch => callingExpiredTimers_
          BY DEF ListInv, Batches, InBatch
        <5>3. cancelled'[r] = IF a \in InBatch THEN "expired" ELSE "pending"
          BY <1>2, <1>5, <5>1
        <5>4. a \in InBatch => id \in cancelingTimers_'
          BY <2>1, <5>2
        <5> QED
          BY <4>1, <5>1, <5>3, <5>4
      <4>2. CASE id # <<b, heap[b].sequence>>
        <5>1. <<b, heap[b].sequence>> \in cancelingTimers_'
                <=> <<b, heap[b].sequence>> \in cancelingTimers_
          BY <2>1, <4>2
        <5>2. cancelled'[heap[b].sequence] = cancelled[heap[b].sequence]
          <6>1. CASE heap[b].sequence # r
            BY <1>4, <1>5, <6>1
          <6>2. CASE heap[b].sequence = r
            <7>1. ~own
              BY <1>1, <1>4, <4>2, <6>2
            <7> QED
              BY <1>2, <1>5, <6>2, <7>1
          <6> QED
            BY <6>1, <6>2
        <5> QED
          BY <4>0, <5>1, <5>2
      <4> QED
        BY <4>1, <4>2
    <3> QED
      BY <1>6, <2>1, <2>2, <3>1 DEF Cancels
  <2>8. RunCounts'
    BY <1>3, <2>1, <2>2 DEF ListInv, RunCounts, Repeat
  <2>9. CancelsAfter'
    BY <2>1 DEF CancelsAfter, AddOp, CancelOp
  <2> QED
    BY <1>6, <2>3, <2>4, <2>5, <2>6, <2>7, <2>8, <2>9 DEF ListInv
<1> QED
  BY <1>8, <1>9

LEMMA LoopCancelStep ==
    ASSUME ListInv, NEW id \in ids, LoopCancels(id)
    PROVE  ListInv'
<1>1. /\ id \in Addr \X Seqs /\ id[2] <= created /\ CancelInLoop(id) /\ ops' = ops
  BY DEF ListInv, Ranges, Numbers, LoopCancels
<1>2. ops' \in Seq(OpType) /\ Len(ops') <= MaxOps /\ Queued' = Queued
  BY <1>1 DEF ListInv, Shapes, Ranges, Queued, AddOp
<1>3. QueuedOnce'
  BY <1>1 DEF ListInv, QueuedOnce, AddOp
<1>4. /\ \A i \in 1..Len(ops') : ops'[i][3] <= created
      /\ \A b \in Addr : \A i, j \in 1..Len(ops') :
            ops'[j] = AddOp(b) /\ ops'[i] = CancelOp(<<b, heap[b].sequence>>) => j < i
  BY <1>1 DEF ListInv, Numbers, CancelsAfter
<1> QED
  BY <1>1, <1>2, <1>3, <1>4, CancelStep

(* doPendingFunctors reaches a cancelInLoop: the add of its timer is not   *)
(* behind it.                                                              *)
LEMMA CancelOpStep ==
    ASSUME ListInv, ops # <<>>, NEW id \in Addr \X Seqs, Head(ops) = CancelOp(id), RunOp
    PROVE  /\ ListInv' /\ CancelInLoop(id)
           /\ ~(id[1] \in Queued /\ heap[id[1]].sequence = id[2])
<1>1. ops' = Tail(ops) /\ CancelInLoop(id)
  <2>1. id = <<id[1], id[2]>>
    OBVIOUS
  <2>2. CancelOp(id)[2] = id[1] /\ CancelOp(id)[3] = id[2] /\ CancelOp(id) # AddOp(id[1])
    BY OpsDiffer
  <2> QED
    BY <2>1, <2>2 DEF RunOp
<1>2. /\ ops' \in Seq(OpType)
      /\ Len(ops') = Len(ops) - 1 /\ Len(ops) \in Nat /\ Len(ops) > 0
      /\ \A i \in 1..Len(ops') : ops'[i] = ops[i + 1]
      /\ ops[1] = CancelOp(id)
  BY <1>1, OpTaken DEF ListInv
<1>3. Queued' = Queued
  <2>1. {b \in Addr : CancelOp(id) = AddOp(b)} = {}
    BY OpsDiffer
  <2>2. Queued' = Queued \ {b \in Addr : Head(ops) = AddOp(b)}
    BY <1>1, OpTaken DEF ListInv
  <2> QED
    BY <2>1, <2>2
<1>4. id[2] <= created
  <2>1. ops[1][3] <= created
    BY <1>2 DEF ListInv, Numbers
  <2> QED
    BY <1>2, <2>1, OpsDiffer
<1>5. Len(ops') <= MaxOps
  BY <1>2, TimerAssumption DEF ListInv, Ranges
<1>6. QueuedOnce'
  <2> SUFFICES ASSUME NEW b \in Addr, NEW i \in 1..Len(ops'), NEW j \in 1..Len(ops'),
                      ops'[i] = AddOp(b), ops'[j] = AddOp(b)
               PROVE  i = j
    BY DEF QueuedOnce, AddOp
  <2>1. /\ i + 1 \in 1..Len(ops) /\ ops[i + 1] = AddOp(b)
        /\ j + 1 \in 1..Len(ops) /\ ops[j + 1] = AddOp(b)
    BY <1>2
  <2>2. i + 1 = j + 1
    BY <2>1 DEF ListInv, QueuedOnce
  <2> QED
    BY <2>2
<1>7. \A i \in 1..Len(ops') : ops'[i][3] <= created
  BY <1>2 DEF ListInv, Numbers
<1>8. ASSUME NEW b \in Addr, NEW i \in 1..Len(ops'), NEW j \in 1..Len(ops'),
             ops'[j] = AddOp(b), ops'[i] = CancelOp(<<b, heap[b].sequence>>)
      PROVE  j < i
  <2>1. /\ i + 1 \in 1..Len(ops) /\ ops[i + 1] = CancelOp(<<b, heap[b].sequence>>)
        /\ j + 1 \in 1..Len(ops) /\ ops[j + 1] = AddOp(b)
    BY <1>2, <1>8
  <2>2. j + 1 < i + 1
    BY <2>1 DEF ListInv, CancelsAfter
  <2> QED
    BY <2>2
<1>9. ListInv'
  BY <1>1, <1>2, <1>3, <1>4, <1>5, <1>6, <1>7, <1>8, CancelStep
<1>10. ASSUME id[1] \in Queued, heap[id[1]].sequence = id[2] PROVE FALSE
  <2>1. PICK j \in 1..Len(ops) : ops[j] = AddOp(id[1])
    BY <1>10 DEF Queued
  <2>2. id = <<id[1], heap[id[1]].sequence>> /\ id[1] \in Addr /\ 1 \in 1..Len(ops)
    BY <1>2, <1>10
  <2>3. j < 1
    BY <1>2, <2>1, <2>2 DEF ListInv, CancelsAfter
  <2> QED
    BY <1>2, <2>3
<1> QED
  BY <1>1, <1>9, <1>10

LEMMA HeadIs ==
    ASSUME ListInv, RunOp
    PROVE  /\ ops # <<>>
           /\ \/ \E a \in Addr : Head(ops) = AddOp(a)
              \/ \E id \in Addr \X Seqs : Head(ops) = CancelOp(id)
<1>1. ops # <<>> /\ ops \in Seq(OpType)
  BY DEF RunOp, ListInv, Shapes
<1>2. Head(ops) \in OpType
  BY <1>1, HeadTailProperties
<1> QED
  BY <1>1, <1>2 DEF OpType

-----------------------------------------------------------------------------
(* The lists. *)

LEMMA ListInit == Init => ListInv
<1> SUFFICES ASSUME Init PROVE ListInv
  OBVIOUS
<1>1. ops \in Seq(OpType) /\ Len(ops) = 0
  BY EmptySeq DEF Init
<1>2. Live = {} /\ Waiting = {} /\ InBatch = {} /\ Queued = {}
  BY <1>1 DEF Init, Live, Waiting, InBatch, Queued
<1>3. Flags
  BY Zenon DEF Init, Flags
<1>4. Ranges
  BY <1>1, TimerAssumption DEF Init, Ranges, Seqs
<1>5. Shapes /\ Partition /\ Entries /\ QueuedOnce
  BY <1>1, <1>2 DEF Init, Shapes, Partition, Entries, QueuedOnce
<1>6. Numbers /\ Batches /\ Cancels /\ RunCounts /\ CancelsAfter
  BY <1>1, <1>2 DEF Init, Numbers, Batches, Cancels, RunCounts, CancelsAfter
<1> QED
  BY <1>3, <1>4, <1>5, <1>6 DEF ListInv

LEMMA ListNext == ListInv /\ [Next]_vars => ListInv'
<1> SUFFICES ASSUME ListInv, [Next]_vars PROVE ListInv'
  OBVIOUS
<1>1. CASE RunOp
  BY <1>1, HeadIs, AddOpStep, CancelOpStep
<1>2. CASE UNCHANGED vars
  <2>1. /\ UNCHANGED <<heap, created, timers_, activeTimers_, cancelingTimers_,
                       callingExpiredTimers_, expired, toRun, batchNow, ops, returning, ids,
                       runs, cancelled>>
        /\ UNCHANGED <<now, jumps, alarm, readable, reported>>
    BY <1>2 DEF vars, clockVars, fdVars, listVars, batchVars
  <2>2. now' \in 1..Horizon /\ jumps' \in 0..MaxJumps /\ alarm' \in Nat
    BY <2>1 DEF ListInv, Ranges
  <2>3. readable' \in BOOLEAN /\ reported' \in BOOLEAN /\ (callingExpiredTimers_ => ~reported')
    BY <2>1, Zenon DEF ListInv, Flags, Batches
  <2> QED
    BY <2>1, <2>2, <2>3, ListsUntouched
<1>3. CASE LoopStep
  BY <1>1, <1>3, ClockSteps, ReadStep, RunStep, ResetStep DEF LoopStep
<1>4. CASE ClientStep
  BY <1>4, LoopAddStep, ThreadAddStep, ReturnStep, LoopCancelStep, QueueCancelStep
  DEF ClientStep
<1> QED
  BY <1>2, <1>3, <1>4, ClockSteps DEF Next

LEMMA ListInvariant == Spec => []ListInv
  BY ListInit, ListNext, PTL DEF Spec

LEMMA ListsAgree == ListInv => SameData
<1> SUFFICES ASSUME ListInv PROVE SameData
  OBVIOUS
<1>1. /\ activeTimers_ = {<<a, heap[a].sequence>> : a \in Waiting}
      /\ \A e \in timers_ : e[1] = heap[e[2]].expiration /\ e = <<e[1], e[2]>>
      /\ Waiting = {e[2] : e \in timers_}
  BY DEF ListInv, Entries, Ranges, Waiting
<1>2. activeTimers_ = {<<e[2], heap[e[2]].sequence>> : e \in timers_}
  BY <1>1
<1>3. \A e \in timers_ : \E x \in activeTimers_ : e = <<heap[x[1]].expiration, x[1]>>
  <2> TAKE e \in timers_
  <2> DEFINE x == <<e[2], heap[e[2]].sequence>>
  <2>1. x \in activeTimers_ /\ x[1] = e[2]
    BY <1>2
  <2>2. e = <<heap[x[1]].expiration, x[1]>>
    BY <1>1, <2>1
  <2> QED
    BY <2>1, <2>2
<1>4. \A x \in activeTimers_ : <<heap[x[1]].expiration, x[1]>> \in timers_
  <2> TAKE x \in activeTimers_
  <2>1. PICK e \in timers_ : x = <<e[2], heap[e[2]].sequence>>
    BY <1>2
  <2>2. x[1] = e[2] /\ e = <<heap[e[2]].expiration, e[2]>>
    BY <1>1, <2>1
  <2> QED
    BY <2>2
<1>5. timers_ = {<<heap[x[1]].expiration, x[1]>> : x \in activeTimers_}
  BY <1>3, <1>4
<1> QED
  BY <1>2, <1>5 DEF SameData

LEMMA OneOrNone ==
    ASSUME NEW S, \A x, y \in S : x = y
    PROVE  Cardinality(S) = IF S = {} THEN 0 ELSE 1
<1>1. CASE S = {}
  BY <1>1, FS_EmptySet
<1>2. CASE S # {}
  <2>1. PICK x \in S : TRUE
    BY <1>2
  <2>2. S = {x}
    BY <2>1
  <2> QED
    BY <1>2, <2>2, FS_Singleton
<1> QED
  BY <1>1, <1>2

LEMMA OwnedOnce == ListInv => OneOwner
<1> SUFFICES ASSUME ListInv, NEW a \in Addr
             PROVE  Places(a) = IF a \in Live THEN 1 ELSE 0
  BY DEF OneOwner
<1> DEFINE T == {e \in timers_ : e[2] = a}
           E == {e \in expired : e[2] = a}
           Q == {i \in 1..Len(ops) : ops[i] = AddOp(a)}
<1>1. \A e \in timers_ \cup expired : e = <<e[1], e[2]>> /\ e[1] = heap[e[2]].expiration
  BY DEF ListInv, Ranges, Entries
<1>2. Cardinality(T) = IF a \in Waiting THEN 1 ELSE 0
  <2>1. T # {} <=> a \in Waiting
    BY DEF Waiting
  <2>2. \A x, y \in T : x = y
    BY <1>1
  <2> HIDE DEF T
  <2> QED
    BY <2>1, <2>2, OneOrNone
<1>3. Cardinality(E) = IF a \in InBatch THEN 1 ELSE 0
  <2>1. E # {} <=> a \in InBatch
    BY DEF InBatch
  <2>2. \A x, y \in E : x = y
    BY <1>1
  <2> HIDE DEF E
  <2> QED
    BY <2>1, <2>2, OneOrNone
<1>4. Cardinality(Q) = IF a \in Queued THEN 1 ELSE 0
  <2>1. Q # {} <=> a \in Queued
    BY DEF Queued
  <2>2. \A x, y \in Q : x = y
    BY DEF ListInv, QueuedOnce
  <2> HIDE DEF Q
  <2> QED
    BY <2>1, <2>2, OneOrNone
<1>5. /\ Live = Waiting \cup InBatch \cup Queued
      /\ Waiting \cap InBatch = {} /\ Waiting \cap Queued = {} /\ InBatch \cap Queued = {}
  BY DEF ListInv, Partition
<1>6. Places(a) = Cardinality(T) + Cardinality(E) + Cardinality(Q)
  BY DEF Places
<1> HIDE DEF T, E, Q
<1> QED
  BY <1>2, <1>3, <1>4, <1>5, <1>6

LEMMA CancelledOut == ListInv => CancelledStaysOut
<1> SUFFICES ASSUME ListInv, ~callingExpiredTimers_, NEW x \in activeTimers_
             PROVE  cancelled[x[2]] \notin {"active", "expired"}
  BY DEF CancelledStaysOut
<1>1. InBatch = {}
  BY DEF ListInv, Batches, InBatch
<1>2. PICK a \in Waiting : x = <<a, heap[a].sequence>>
  BY DEF ListInv, Entries
<1>3. a \in Live /\ x[2] = heap[a].sequence
  BY <1>2 DEF ListInv, Partition
<1> QED
  BY <1>1, <1>3 DEF ListInv, Cancels

(***************************************************************************)
(* For any number of threads, timers, addresses and queued functors, and   *)
(* however the clock is set: timers_ and activeTimers_ always hold the     *)
(* same timers, every Timer on the heap is in exactly one of the lists,    *)
(* the batch of handleRead and the functors, and none of these names a     *)
(* deleted Timer; a timer that cancelInLoop found does not wait again.     *)
(***************************************************************************)
THEOREM TimersSound == Spec => []ListsSound
<1>1. ListInv => ListsSound
  BY TypesAgree, ListsAgree, OwnedOnce, CancelledOut DEF ListInv, ListsSound
<1> QED
  BY ListInvariant, <1>1, PTL

(***************************************************************************)
(* A Timer is deleted only by a cancel that names it, not by an old        *)
(* TimerId for the same address, or at the end of the batch in which a     *)
(* one-shot timer has run, and then it has run exactly once.               *)
(***************************************************************************)
THEOREM DeletionsJustified == Spec => DeletedWhenOver
<1> DEFINE A == \A a \in Live :
                  heap'[a] = NoTimer =>
                     \/ ~Repeat(a) /\ runs[heap[a].sequence] = 1
                     \/ cancelled'[heap[a].sequence] \in {"active", "expired"}
<1>1. ASSUME ListInv, [Next]_vars PROVE [A]_vars
  <2> SUFFICES ASSUME NEW a \in Live, heap'[a] = NoTimer
               PROVE  \/ ~Repeat(a) /\ runs[heap[a].sequence] = 1
                      \/ cancelled'[heap[a].sequence] \in {"active", "expired"}
    OBVIOUS
  <2>0. a \in Addr /\ heap[a] # NoTimer /\ heap[a].sequence \in Seqs
    BY <1>1, TimersOnHeap DEF ListInv
  <2>1. ASSUME NEW b \in Addr, NEW when \in 0..Horizon, NEW i \in Intervals,
               NewTimer(b, when, i)
        PROVE  FALSE
    BY <1>1, <2>0, <2>1, Created
  <2>2. ASSUME NEW id \in Addr \X Seqs, CancelInLoop(id)
        PROVE  cancelled'[heap[a].sequence] \in {"active", "expired"}
    <3>1. /\ id \in activeTimers_ <=>
               id[1] \in Waiting /\ id[1] \in Live /\ heap[id[1]].sequence = id[2]
          /\ id \in activeTimers_ => Meets(id) = "active"
          /\ Found(id) = IF id \in activeTimers_ THEN {id} ELSE {}
      BY <1>1, MeetsIs
    <3>2. heap' # heap
      BY <2>0
    <3>3. id \in activeTimers_ /\ heap' = [heap EXCEPT ![id[1]] = NoTimer]
      BY <2>2, <3>1, <3>2 DEF CancelInLoop
    <3>4. id[1] = a
      BY <2>0, <3>3
    <3>5. cancelled' = [cancelled EXCEPT ![id[2]] = Meets(id)]
      BY <2>2 DEF CancelInLoop
    <3>6. cancelled \in [Seqs -> {"no", "pending", "active", "expired"}]
      BY <1>1 DEF ListInv, Ranges
    <3> QED
      BY <2>0, <3>1, <3>3, <3>4, <3>5, <3>6
  <2>3. CASE Reset
    <3>1. toRun = {} /\ cancelled' = cancelled
      BY <2>3 DEF Reset
    <3>2. a \in InBatch /\ ~Restarts(a)
      <4>1. \A b \in {c \in InBatch : Restarts(c)} : heap'[b] \in TimerType
        BY <1>1, <2>3, ResetHeap
      <4>2. \A b \in Addr \ InBatch : heap'[b] = heap[b]
        BY <1>1, <2>3, ResetHeap
      <4>3. NoTimer \notin TimerType
        BY TimerAssumption DEF TimerType, Seqs
      <4> QED
        BY <2>0, <4>1, <4>2, <4>3
    <3>3. CASE ~Repeat(a)
      <4>1. \E e \in expired \ toRun : e[2] = a
        BY <3>1, <3>2 DEF InBatch
      <4> QED
        BY <1>1, <3>3, <4>1 DEF ListInv, RunCounts
    <3>4. CASE Repeat(a)
      <4>1. <<a, heap[a].sequence>> \in cancelingTimers_
        BY <3>2, <3>4 DEF Restarts
      <4> QED
        BY <1>1, <3>1, <3>2, <4>1 DEF ListInv, Cancels
    <3> QED
      BY <3>3, <3>4
  <2>4. CASE UNCHANGED heap
    BY <2>0, <2>4
  <2>5. CASE RunOp
    <3>1. CASE \E b \in Addr : Head(ops) = AddOp(b)
      <4>1. UNCHANGED heap
        BY <2>5, <3>1, OpsDiffer DEF RunOp
      <4> QED
        BY <2>4, <4>1
    <3>2. CASE \E id \in Addr \X Seqs : Head(ops) = CancelOp(id)
      BY <1>1, <2>2, <2>5, <3>2, HeadIs, CancelOpStep
    <3> QED
      BY <1>1, <2>5, <3>1, <3>2, HeadIs
  <2>6. ids \subseteq Addr \X Seqs
    BY <1>1 DEF ListInv, Ranges
  <2>7. CASE ClientStep
    <3>1. CASE \E t \in Threads : ThreadAddReturns(t)
      BY <2>4, <3>1 DEF ThreadAddReturns
    <3>2. CASE \E id \in ids : LoopCancels(id)
      BY <2>2, <2>6, <3>2 DEF LoopCancels
    <3>3. CASE \E id \in ids : ThreadCancels(id)
      BY <2>4, <3>3 DEF ThreadCancels
    <3> QED
      BY <2>1, <2>7, <3>1, <3>2, <3>3 DEF ClientStep, LoopAdds, ThreadAdds
  <2>8. CASE Tick \/ ClockJump \/ Poll \/ HandleRead \/ (\E e \in toRun : RunTimer(e))
             \/ UNCHANGED vars
    BY <2>4, <2>8 DEF Tick, ClockJump, Poll, HandleRead, RunTimer, vars
  <2> QED
    BY <1>1, <2>3, <2>5, <2>7, <2>8 DEF Next, LoopStep
<1>2. DeletedWhenOver <=> [][A]_vars
  BY DEF DeletedWhenOver
<1> HIDE DEF A
<1> QED
  BY <1>1, <1>2, ListInvariant, PTL DEF Spec

(***************************************************************************)
(* A cancelInLoop taken from the functors never meets its timer with the   *)
(* addTimerInLoop still behind it, whichever threads queued the two: only  *)
(* a cancel on the loop thread itself can be too early.                    *)
(***************************************************************************)
THEOREM CancelsInOrder == Spec => CancelsReach
<1> DEFINE A == \A s \in Seqs : (cancelled'[s] = "pending" /\ cancelled[s] # "pending")
                                   => ops' = ops
<1>1. ASSUME ListInv, [Next]_vars PROVE [A]_vars
  <2> SUFFICES ASSUME NEW s \in Seqs, cancelled'[s] = "pending", cancelled[s] # "pending"
               PROVE  ops' = ops
    OBVIOUS
  <2>1. CASE RunOp
    <3>1. CASE \E b \in Addr : Head(ops) = AddOp(b)
      <4>1. UNCHANGED cancelled
        BY <2>1, <3>1, OpsDiffer DEF RunOp
      <4> QED
        BY <4>1
    <3>2. CASE \E id \in Addr \X Seqs : Head(ops) = CancelOp(id)
      <4>1. PICK id \in Addr \X Seqs : Head(ops) = CancelOp(id)
        BY <3>2
      <4>2. CancelInLoop(id) /\ ~(id[1] \in Queued /\ heap[id[1]].sequence = id[2])
        BY <1>1, <2>1, <4>1, HeadIs, CancelOpStep
      <4>3. Meets(id) = IF id[1] \in Live /\ heap[id[1]].sequence = id[2]
                        THEN IF id[1] \in Waiting THEN "active"
                             ELSE IF id[1] \in InBatch THEN "expired" ELSE "pending"
                        ELSE cancelled[id[2]]
        BY <1>1, MeetsIs
      <4>4. Live = Waiting \cup InBatch \cup Queued
        BY <1>1 DEF ListInv, Partition
      <4>5. Meets(id) = "pending" => cancelled[id[2]] = "pending"
        BY <4>2, <4>3, <4>4
      <4>6. cancelled' = [cancelled EXCEPT ![id[2]] = Meets(id)] /\ DOMAIN cancelled = Seqs
        BY <1>1, <4>2 DEF CancelInLoop, ListInv, Ranges
      <4> QED
        BY <4>5, <4>6
    <3> QED
      BY <1>1, <2>1, <3>1, <3>2, HeadIs
  <2>2. CASE ClientStep
    BY <2>2 DEF ClientStep, LoopAdds, ThreadAdds, ThreadAddReturns, LoopCancels, ThreadCancels
  <2>3. CASE Tick \/ ClockJump \/ Poll \/ HandleRead \/ (\E e \in toRun : RunTimer(e))
             \/ Reset \/ UNCHANGED vars
    BY <2>3 DEF Tick, ClockJump, Poll, HandleRead, RunTimer, Reset, vars
  <2> QED
    BY <1>1, <2>1, <2>2, <2>3 DEF Next, LoopStep
<1>2. CancelsReach <=> [][A]_vars
  BY DEF CancelsReach
<1> HIDE DEF A
<1> QED
  BY <1>1, <1>2, ListInvariant, PTL DEF Spec

-----------------------------------------------------------------------------
(* The timerfd. *)

(* A new timer either sets the timerfd or comes after another that waits. *)
LEMMA AddKeepsAlarm ==
    ASSUME ListInv, AlarmInv, NEW a, NEW timer, timer.expiration \in Nat,
           AddTimerInLoop(a, timer),
           UNCHANGED <<now, jumps, reported, callingExpiredTimers_>>
    PROVE  AlarmInv'
<1> DEFINE w == timer.expiration
           x == <<w, a>>
<1>0. /\ now \in Nat /\ now > 0 /\ alarm \in Nat /\ w \in Nat
      /\ \A e \in timers_ : e[1] \in Nat
      /\ timers_' = timers_ \cup {x} /\ x[1] = w
  BY TimerAssumption DEF ListInv, Ranges, AddTimerInLoop
<1> HIDE DEF w, x
<1>1. CASE EarliestChanged(w)
  <2>1. /\ alarm' \in Nat /\ alarm' >= 1 /\ readable' = FALSE
        /\ alarm' = 1 \/ now + alarm' = w
        /\ w <= now => alarm' = 1
    BY <1>0, <1>1, TimerfdSet DEF AddTimerInLoop, w
  <2>2. \A e \in timers_' : w <= e[1] /\ e[1] \in Nat
    BY <1>0, <1>1 DEF EarliestChanged
  <2>3. NoLostAlarm'
    BY <2>1 DEF NoLostAlarm
  <2>4. \A e \in timers_' : now + alarm' <= e[1] \/ alarm' = 1
    BY <1>0, <2>1, <2>2
  <2>5. AlarmOnTime'
    BY <2>4 DEF AlarmOnTime
  <2>6. (\E e \in timers_' : e[1] = 0) => alarm' = 1
    BY <1>0, <2>1, <2>2
  <2>7. ZeroAlarm'
    BY <2>6 DEF ZeroAlarm
  <2> QED
    BY <2>3, <2>5, <2>7 DEF AlarmInv, AlarmSound
<1>2. CASE ~EarliestChanged(w)
  <2>1. PICK d \in timers_ : d[1] <= w
    BY <1>0, <1>2 DEF EarliestChanged
  <2>2. UNCHANGED <<alarm, readable>>
    BY <1>2 DEF AddTimerInLoop, fdVars, w
  <2>3. NoLostAlarm'
    BY <1>0, <2>1, <2>2 DEF NoLostAlarm, AlarmInv, AlarmSound
  <2>4. AlarmOnTime'
    <3> SUFFICES ASSUME jumps = 0, ~callingExpiredTimers_, ~readable, ~reported,
                        NEW e \in timers_'
                 PROVE  now + alarm <= e[1] \/ alarm = 1
      BY <2>2 DEF AlarmOnTime
    <3>1. \A c \in timers_ : now + alarm <= c[1] \/ alarm = 1
      BY <2>1 DEF AlarmInv, AlarmSound, AlarmOnTime
    <3>2. CASE e \in timers_
      BY <3>1, <3>2
    <3>3. CASE e = x
      <4>1. now + alarm <= d[1] \/ alarm = 1
        BY <2>1, <3>1
      <4> QED
        BY <1>0, <2>1, <3>3, <4>1
    <3> QED
      BY <1>0, <3>2, <3>3
  <2>5. (\E e \in timers_' : e[1] = 0) => (\E e \in timers_ : e[1] = 0)
    BY <1>0, <2>1
  <2>6. ZeroAlarm'
    BY <2>2, <2>5 DEF ZeroAlarm, AlarmInv
  <2> QED
    BY <2>3, <2>4, <2>6 DEF AlarmInv, AlarmSound
<1> QED
  BY <1>1, <1>2

(* A step that takes no timer into the list and leaves the timerfd alone. *)
LEMMA FewerTimers ==
    ASSUME AlarmInv, timers_' \subseteq timers_,
           UNCHANGED <<now, jumps, alarm, readable, reported, callingExpiredTimers_>>
    PROVE  AlarmInv'
  BY DEF AlarmInv, AlarmSound, NoLostAlarm, AlarmOnTime, ZeroAlarm

LEMMA CancelKeepsAlarm ==
    ASSUME AlarmInv, NEW id, CancelInLoop(id)
    PROVE  AlarmInv'
<1>1. timers_' \subseteq timers_
  BY DEF CancelInLoop
<1> QED
  BY <1>1, FewerTimers DEF CancelInLoop, clockVars, fdVars, batchVars

LEMMA AlarmNext == ListInv /\ AlarmInv /\ [Next]_vars => AlarmInv'
<1> SUFFICES ASSUME ListInv, AlarmInv, [Next]_vars PROVE AlarmInv'
  OBVIOUS
<1>0. /\ now \in Nat /\ now > 0 /\ alarm \in Nat
      /\ timers_ \subseteq Nat \X Addr
      /\ \A e \in timers_ : e[1] \in Nat
      /\ callingExpiredTimers_ => ~reported
  BY TimerAssumption DEF ListInv, Ranges, Batches
<1>1. CASE Tick
  <2>1. /\ UNCHANGED <<jumps, reported, timers_, callingExpiredTimers_>>
        /\ now' \in {now, now + 1}
        /\ alarm' = IF alarm > 0 THEN alarm - 1 ELSE 0
        /\ alarm = 1 => readable' = TRUE
        /\ readable => readable' = TRUE
        /\ readable' => readable \/ alarm = 1
    BY <1>1 DEF Tick, listVars, batchVars
  <2>2. NoLostAlarm'
    BY <1>0, <2>1 DEF AlarmInv, AlarmSound, NoLostAlarm
  <2>3. AlarmOnTime'
    <3> SUFFICES ASSUME jumps = 0, ~callingExpiredTimers_, ~readable', ~reported,
                        NEW e \in timers_
                 PROVE  now' + alarm' <= e[1] \/ alarm' = 1
      BY <2>1 DEF AlarmOnTime
    <3>1. ~readable /\ alarm # 1 /\ alarm > 0
      BY <1>0, <2>1 DEF AlarmInv, AlarmSound, NoLostAlarm
    <3>2. now + alarm <= e[1]
      BY <3>1 DEF AlarmInv, AlarmSound, AlarmOnTime
    <3> QED
      BY <1>0, <2>1, <3>1, <3>2
  <2>4. ZeroAlarm'
    BY <2>1 DEF AlarmInv, ZeroAlarm
  <2> QED
    BY <2>2, <2>3, <2>4 DEF AlarmInv, AlarmSound
<1>2. CASE ClockJump
  <2>1. /\ UNCHANGED <<alarm, readable, reported, timers_, callingExpiredTimers_>>
        /\ jumps' = jumps + 1 /\ jumps \in Nat
    BY <1>2, TimerAssumption DEF ClockJump, fdVars, listVars, batchVars, ListInv, Ranges
  <2>2. jumps' # 0
    BY <2>1
  <2> QED
    BY <2>1, <2>2 DEF AlarmInv, AlarmSound, NoLostAlarm, AlarmOnTime, ZeroAlarm
<1>3. CASE RunOp
  <2>1. CASE \E a \in Addr : Head(ops) = AddOp(a)
    <3>1. PICK a \in Addr : Head(ops) = AddOp(a)
      BY <2>1
    <3>2. AddTimerInLoop(a, heap[a])
          /\ UNCHANGED <<now, jumps, reported, callingExpiredTimers_>>
      BY <1>3, <3>1, OpsDiffer DEF RunOp, clockVars, batchVars
    <3>3. heap[a].expiration \in Nat
      <4>1. a \in Queued
        <5>1. 1 \in 1..Len(ops) /\ Head(ops) = ops[1]
          BY <1>3, LenProperties, EmptySeq DEF RunOp, ListInv, Shapes
        <5> QED
          BY <3>1, <5>1 DEF Queued
      <4>2. a \in Live
        BY <4>1 DEF ListInv, Partition
      <4> QED
        BY <4>2, TimersOnHeap DEF ListInv
    <3> QED
      BY <3>2, <3>3, AddKeepsAlarm
  <2>2. CASE \E id \in Addr \X Seqs : Head(ops) = CancelOp(id)
    BY <1>3, <2>2, HeadIs, CancelOpStep, CancelKeepsAlarm
  <2> QED
    BY <1>3, <2>1, <2>2, HeadIs
<1>4. CASE Poll
  <2>1. UNCHANGED <<now, jumps, alarm, readable, timers_, callingExpiredTimers_>>
        /\ reported' = TRUE /\ ~callingExpiredTimers_
    BY <1>4 DEF Poll, clockVars, fdVars, listVars, batchVars
  <2> QED
    BY <2>1 DEF AlarmInv, AlarmSound, NoLostAlarm, AlarmOnTime, ZeroAlarm
<1>5. CASE HandleRead
  <2>1. callingExpiredTimers_' = TRUE /\ timers_' = timers_ \ Due
    BY <1>5 DEF HandleRead
  <2>2. ~ \E e \in timers_' : e[1] = 0
    BY <1>0, <2>1 DEF Due
  <2> QED
    BY <2>1, <2>2 DEF AlarmInv, AlarmSound, NoLostAlarm, AlarmOnTime, ZeroAlarm
<1>6. CASE \E e \in toRun : RunTimer(e)
  BY <1>6, FewerTimers DEF RunTimer, clockVars, fdVars, listVars
<1>7. CASE Reset
  <2>0. /\ callingExpiredTimers_ = TRUE /\ callingExpiredTimers_' = FALSE /\ ~reported
        /\ UNCHANGED <<now, jumps, reported>>
    BY <1>0, <1>7 DEF Reset, clockVars, ListInv, Flags
  <2>1. ZeroAlarm'
    BY <2>0 DEF ZeroAlarm
  <2>2. timers_' \subseteq Nat \X Addr
    BY <1>7, ResetStep DEF ListInv, Ranges
  <2>3. CASE NextExpire(timers_') > 0
    <3>1. timers_' # {}
      BY <2>3 DEF NextExpire
    <3>2. /\ NextExpire(timers_') \in Nat
          /\ \A e \in timers_' : NextExpire(timers_') <= e[1] /\ e[1] \in Nat
      BY <2>2, <3>1, EarliestIs
    <3>3. ResetTimerfd(NextExpire(timers_'))
      BY <1>7, <2>3 DEF Reset
    <3>4. /\ alarm' \in Nat /\ alarm' >= 1 /\ readable' = FALSE
          /\ alarm' = 1 \/ now + alarm' = NextExpire(timers_')
      BY <1>0, <3>2, <3>3, TimerfdSet
    <3>5. \A e \in timers_' : now + alarm' <= e[1] \/ alarm' = 1
      BY <1>0, <3>2, <3>4
    <3> QED
      BY <2>0, <2>1, <3>4, <3>5 DEF AlarmInv, AlarmSound, NoLostAlarm, AlarmOnTime
  <2>4. CASE ~(NextExpire(timers_') > 0)
    <3>1. UNCHANGED <<alarm, readable>>
      BY <1>7, <2>4 DEF Reset, fdVars
    <3>2. timers_' # {} => readable \/ alarm = 1
      <4> SUFFICES ASSUME timers_' # {} PROVE readable \/ alarm = 1
        OBVIOUS
      <4>1. NextExpire(timers_') \in Nat /\ \E e \in timers_' : e[1] = NextExpire(timers_')
        BY <2>2, EarliestIs
      <4>2. PICK e \in timers_' : e[1] = 0
        BY <2>4, <4>1
      <4>3. e \in timers_
        <5> DEFINE again == {a \in InBatch : Restarts(a)}
        <5>1. /\ timers_' = timers_ \cup {<<restart(a), a>> : a \in again}
              /\ \A a \in again : restart(a) \in Nat /\ restart(a) > 0
          BY <1>7, ResetHeap
        <5> HIDE DEF again
        <5>2. \A d \in {<<restart(a), a>> : a \in again} : d[1] # 0
          BY <5>1
        <5> QED
          BY <4>2, <5>1, <5>2
      <4> QED
        BY <2>0, <4>2, <4>3 DEF AlarmInv, ZeroAlarm
    <3>3. NoLostAlarm'
      BY <3>1, <3>2 DEF NoLostAlarm
    <3>4. AlarmOnTime'
      BY <3>1, <3>2 DEF AlarmOnTime
    <3> QED
      BY <2>1, <3>3, <3>4 DEF AlarmInv, AlarmSound
  <2> QED
    BY <2>3, <2>4
<1>8. CASE ClientStep
  <2>1. ASSUME NEW a \in Addr, NEW when \in 0..Horizon, NEW i \in Intervals,
               LoopAdds(a, when, i)
        PROVE  AlarmInv'
    <3>1. Timer(created + 1, when, i).expiration \in Nat
      BY TimerAssumption DEF Timer
    <3> QED
      BY <2>1, <3>1, AddKeepsAlarm DEF LoopAdds, clockVars, batchVars
  <2>2. ASSUME NEW t \in Threads, NEW a \in Addr, NEW when \in 0..Horizon,
               NEW i \in Intervals, ThreadAdds(t, a, when, i)
        PROVE  AlarmInv'
    BY <2>2, FewerTimers DEF ThreadAdds, clockVars, fdVars, listVars, batchVars
  <2>3. ASSUME NEW t \in Threads, ThreadAddReturns(t) PROVE AlarmInv'
    BY <2>3, FewerTimers DEF ThreadAddReturns, clockVars, fdVars, listVars, batchVars
  <2>4. ASSUME NEW id \in ids, LoopCancels(id) PROVE AlarmInv'
    BY <2>4, CancelKeepsAlarm DEF LoopCancels
  <2>5. ASSUME NEW id \in ids, ThreadCancels(id) PROVE AlarmInv'
    BY <2>5, FewerTimers DEF ThreadCancels, clockVars, fdVars, listVars, batchVars
  <2> QED
    BY <1>8, <2>1, <2>2, <2>3, <2>4, <2>5 DEF ClientStep
<1>9. CASE UNCHANGED vars
  BY <1>9, FewerTimers DEF vars, clockVars, fdVars, listVars, batchVars
<1> QED
  BY <1>1, <1>2, <1>3, <1>4, <1>5, <1>6, <1>7, <1>8, <1>9 DEF Next, LoopStep

(***************************************************************************)
(* While timers wait, the timerfd is armed, has expired, or is about to be *)
(* handled, whatever settime, read, reset and the wall clock did in which  *)
(* order; and while nobody sets the clock it expires by the time the first *)
(* timer is due.  A timer for the epoch, which reset() cannot tell from no *)
(* timer, is covered too.                                                  *)
(***************************************************************************)
THEOREM TimerfdKeepsTime == Spec => []AlarmSound
<1>1. Init => AlarmInv
  BY DEF Init, AlarmInv, AlarmSound, NoLostAlarm, AlarmOnTime, ZeroAlarm
<1>2. AlarmInv => AlarmSound
  BY DEF AlarmInv
<1> QED
  BY <1>1, <1>2, ListInvariant, AlarmNext, PTL DEF Spec

-----------------------------------------------------------------------------
(* The calendar. *)

(* A nonempty set of natural numbers has a least element. *)
LEMMA LeastOf ==
    ASSUME NEW S \in SUBSET Nat, S # {}
    PROVE  \E x \in S : \A y \in S : x =< y
<1>1. PICK x \in S : \A y \in S : ~(<<y, x>> \in OpToRel(<, Nat))
  BY NatLessThanWellFounded, WFMin
<1>2. \A y \in S : ~(y < x)
  BY <1>1 DEF OpToRel
<1> QED
  BY <1>2

Dates == [year : Nat, month : 1..12, day : 1..31]

(* The calendar shows a date it has, at the day number the code gives it.  *)
CalendarInv ==
    /\ today \in Dates /\ today.year >= 1900
    /\ today.day <= DaysIn(today.year, today.month)
    /\ dayCount \in Int /\ JulianDayRight
    /\ yearDay = JulianDay - getJulianDayNumber(today.year, 1, 1)

(* The leap years before y, from 1900 on. *)
LeapsBefore(y) == (y - 1) \div 4 - (y - 1) \div 100 + (y - 1) \div 400 - 460

(* Counted one by one they are as many. *)
LEMMA LeapCount ==
    ASSUME NEW y \in Nat, y >= 1900
    PROVE  Cardinality({x \in 1900..(y - 1) : Leap(x)}) = LeapsBefore(y)
<1> DEFINE Leaps(n) == {x \in 1900..(n - 1) : Leap(x)}
           Bad == {n \in Nat : n >= 1900 /\ Cardinality(Leaps(n)) # LeapsBefore(n)}
<1>1. ASSUME NEW n \in Bad, \A k \in Bad : n =< k PROVE FALSE
  <2>1. n \in Nat /\ n >= 1900 /\ Cardinality(Leaps(n)) # LeapsBefore(n)
    OBVIOUS
  <2> DEFINE p == n - 1
  <2>2. CASE n = 1900
    <3>1. \A x : x \notin Leaps(n)
      BY <2>2
    <3>2. Cardinality(Leaps(n)) = 0
      BY <3>1, FS_EmptySet
    <3>3. LeapsBefore(n) = 0
      BY <2>2 DEF LeapsBefore
    <3> QED
      BY <2>1, <3>2, <3>3
  <2>3. CASE n > 1900
    <3>1. p \in Nat /\ p >= 1900 /\ n = p + 1 /\ ~(n =< p)
      BY <2>1, <2>3
    <3>2. p \notin Bad
      BY <1>1, <3>1
    <3>3. Cardinality(Leaps(p)) = LeapsBefore(p)
      BY <3>1, <3>2
    <3>4. IsFiniteSet(Leaps(p)) /\ p \notin Leaps(p)
      <4>1. IsFiniteSet(1900..(p - 1))
        BY <3>1, FS_Interval
      <4>2. Leaps(p) \subseteq 1900..(p - 1) /\ p \notin Leaps(p)
        BY <3>1
      <4> QED
        BY <4>1, <4>2, FS_Subset
    <3>5. \A x : x \in Leaps(n) <=> x \in Leaps(p) \/ (x = p /\ Leap(p))
      BY <3>1
    <3>6. LeapsBefore(p) \in Int /\ LeapsBefore(n) = LeapsBefore(p) + (IF Leap(p) THEN 1 ELSE 0)
      BY <3>1 DEF LeapsBefore, Leap
    <3> HIDE DEF Leaps
    <3>7. CASE Leap(p)
      <4>1. Leaps(n) = Leaps(p) \cup {p}
        BY <3>5, <3>7
      <4>2. Cardinality(Leaps(n)) = Cardinality(Leaps(p)) + 1
        BY <3>4, <4>1, FS_AddElement
      <4> QED
        BY <2>1, <3>3, <3>6, <3>7, <4>2
    <3>8. CASE ~Leap(p)
      <4>1. Leaps(n) = Leaps(p)
        BY <3>5, <3>8
      <4> QED
        BY <2>1, <3>3, <3>6, <3>8, <4>1
    <3> QED
      BY <3>7, <3>8
  <2> QED
    BY <2>1, <2>2, <2>3
<1>2. Bad \in SUBSET Nat
  OBVIOUS
<1>3. Bad = {}
  <2> HIDE DEF Bad
  <2> QED
    BY <1>1, <1>2, LeastOf
<1> QED
  BY <1>3

(* The first of January has the day number that counting gives it. *)
LEMMA NewYearsDay ==
    ASSUME NEW y \in Nat, y >= 1900
    PROVE  DaysBefore(y) \in Int /\ 2415021 + DaysBefore(y) = getJulianDayNumber(y, 1, 1)
<1>1. DaysBefore(y) = 365 * (y - 1900) + LeapsBefore(y)
  BY LeapCount DEF DaysBefore
<1> QED
  BY <1>1 DEF LeapsBefore, getJulianDayNumber

(* The day after the last of a month. *)
LEMMA MonthEnds ==
    ASSUME NEW y \in Nat, NEW m \in 1..11
    PROVE  getJulianDayNumber(y, m + 1, 1) = getJulianDayNumber(y, m, DaysIn(y, m)) + 1
<1>1. CASE m = 2
  BY <1>1 DEF getJulianDayNumber, DaysIn, Leap
<1>2. CASE m # 2
  BY <1>2 DEF getJulianDayNumber, DaysIn
<1> QED
  BY <1>1, <1>2

(* The day after New Year's Eve. *)
LEMMA YearEnds ==
    ASSUME NEW y \in Nat
    PROVE  getJulianDayNumber(y + 1, 1, 1) = getJulianDayNumber(y, 12, 31) + 1
  BY DEF getJulianDayNumber

(***************************************************************************)
(* Days are counted from 1 March: year Y, month M and day of that year N,  *)
(* where only a year before a leap day has a day 365.                      *)
(***************************************************************************)
MarchYear(date) == date.year + 4800 - (14 - date.month) \div 12
MarchMonth(date) == date.month + 12 * ((14 - date.month) \div 12) - 3
MarchDay(date) == date.day - 1 + (153 * MarchMonth(date) + 2) \div 5

(* The date of the code and the one counted from March. *)
LEMMA FromMarch ==
    ASSUME NEW t \in Dates, t.day <= DaysIn(t.year, t.month)
    PROVE  /\ MarchYear(t) \in Nat /\ MarchMonth(t) \in 0..11 /\ MarchDay(t) \in 0..365
           /\ MarchDay(t) = 365 => Leap(MarchYear(t) + 1)
           /\ (5 * MarchDay(t) + 2) \div 153 = MarchMonth(t)
           /\ MarchYear(t) + MarchMonth(t) \div 10 - 4800 = t.year
           /\ MarchMonth(t) + 3 - 12 * (MarchMonth(t) \div 10) = t.month
           /\ MarchDay(t) - (153 * MarchMonth(t) + 2) \div 5 + 1 = t.day
<1> DEFINE y == t.year
           n == t.month
           d == t.day
<1>1. y \in Nat /\ n \in 1..12 /\ d \in 1..31 /\ d <= DaysIn(y, n)
  BY DEF Dates
<1> HIDE DEF y, n, d
<1> DEFINE a == (14 - n) \div 12
           m == n + 12 * a - 3
           k == (153 * m + 2) \div 5
<1>2. MarchYear(t) = y + 4800 - a /\ MarchMonth(t) = m /\ MarchDay(t) = d - 1 + k
  BY DEF MarchYear, MarchMonth, MarchDay, y, n, d
<1>3. a = (IF n <= 2 THEN 1 ELSE 0) /\ m = (IF n <= 2 THEN n + 9 ELSE n - 3)
  BY <1>1
<1>4. k = CASE n = 1 -> 306 [] n = 2 -> 337 [] n = 3 -> 0 [] n = 4 -> 31 [] n = 5 -> 61
            [] n = 6 -> 92 [] n = 7 -> 122 [] n = 8 -> 153 [] n = 9 -> 184 [] n = 10 -> 214
            [] n = 11 -> 245 [] n = 12 -> 275
  BY <1>1, <1>3
<1> HIDE DEF a, m, k
<1>5. DaysIn(y, n) = IF n = 2 THEN (IF Leap(y) THEN 29 ELSE 28)
                     ELSE IF n \in {4, 6, 9, 11} THEN 30 ELSE 31
  BY DEF DaysIn
<1>6. d - 1 + k \in 0..365 /\ (d - 1 + k = 365 => n = 2 /\ Leap(y))
  <2>1. CASE n = 2
    <3>1. k = 337 /\ d =< 29 /\ (d = 29 => Leap(y))
      BY <1>1, <1>4, <1>5, <2>1
    <3> QED
      BY <1>1, <2>1, <3>1
  <2>2. CASE n # 2
    <3>1. k \in Nat /\ k + d - 1 < 365
      BY <1>1, <1>4, <1>5, <2>2
    <3> QED
      BY <1>1, <3>1
  <2> QED
    BY <2>1, <2>2
<1>7. (5 * (d - 1 + k) + 2) \div 153 = m
  BY <1>1, <1>3, <1>4, <1>5
<1>8. m \in 0..11 /\ m \div 10 = a /\ m + 3 - 12 * a = n
  BY <1>1, <1>3
<1>9. n = 2 => y + 4800 - a + 1 = y + 4800 /\ (Leap(y) => Leap(y + 4800))
  BY <1>1, <1>3 DEF Leap
<1>10. y + 4800 - a \in Nat /\ y + 4800 - a + a - 4800 = y /\ k \in Nat
  BY <1>1, <1>3, <1>4
<1>12. (153 * m + 2) \div 5 = k
  BY DEF k
<1>13. MarchDay(t) - (153 * MarchMonth(t) + 2) \div 5 + 1 = d
  BY <1>1, <1>2, <1>8, <1>10, <1>12
<1>14. MarchDay(t) = 365 => Leap(MarchYear(t) + 1)
  <2>1. y + 4800 - a + 1 = y + 4800 => Leap(MarchYear(t) + 1) = Leap(y + 4800)
    BY <1>2
  <2> QED
    BY <1>2, <1>6, <1>9, <2>1
<1>15. MarchYear(t) + MarchMonth(t) \div 10 - 4800 = y
  BY <1>2, <1>8, <1>10
<1>16. MarchMonth(t) + 3 - 12 * (MarchMonth(t) \div 10) = n
  BY <1>2, <1>8
<1>17. (5 * MarchDay(t) + 2) \div 153 = MarchMonth(t)
  BY <1>2, <1>7
<1>18. MarchYear(t) \in Nat /\ MarchMonth(t) \in 0..11 /\ MarchDay(t) \in 0..365
  BY <1>2, <1>6, <1>8, <1>10
<1> QED
  BY <1>13, <1>14, <1>15, <1>16, <1>17, <1>18 DEF y, n, d

(***************************************************************************)
(* The quotients of getYearMonthDay(): the centuries, the years of the     *)
(* century and the days of the year are found one after the other.         *)
(***************************************************************************)
Divided(Y, N, a, b, c, d) ==
    /\ a = N + Y * 365 + Y \div 4 - Y \div 100 + Y \div 400
    /\ b = (4 * a + 3) \div 146097
    /\ c = a - (b * 146097) \div 4
    /\ d = (4 * c + 3) \div 1461

FoundAgain(Y, N, b, c, d) == b * 100 + d = Y /\ c - (1461 * d) \div 4 = N

(* Only a year before a leap day has a day 365. *)
InYear(Y, N) == Y \in Nat /\ N \in 0..365 /\ (N = 365 => Leap(Y + 1))

(* The quotients find the year and the day of the year. *)
LEMMA Quotients ==
    ASSUME NEW Y, NEW N, InYear(Y, N), NEW a, NEW b, NEW c, NEW d, Divided(Y, N, a, b, c, d)
    PROVE  FoundAgain(Y, N, b, c, d)
<1>i. Y \in Nat /\ N \in 0..365 /\ (N = 365 => Leap(Y + 1))
  BY DEF InYear
<1>0. /\ a = N + Y * 365 + Y \div 4 - Y \div 100 + Y \div 400
      /\ b = (4 * a + 3) \div 146097
      /\ c = a - (b * 146097) \div 4
      /\ d = (4 * c + 3) \div 1461
  BY SMT DEF Divided
<1> DEFINE B == Y \div 100
           D == Y % 100
           q == B \div 4
           r == B % 4
<1>1. B \in Nat /\ D \in 0..99 /\ Y = 100 * B + D
  BY <1>i, SMT
<1> HIDE DEF B, D
<1>2. q \in Nat /\ r \in 0..3 /\ B = 4 * q + r
  BY <1>i, <1>1, SMT
<1> HIDE DEF q, r
<1> DEFINE p == D \div 4
           s == D % 4
<1>3. p \in Nat /\ s \in 0..3 /\ D = 4 * p + s /\ p <= 24
  BY <1>i, <1>1, SMT
<1> HIDE DEF p, s
<1>4. Y \div 4 = 25 * B + p /\ Y \div 100 = B /\ Y \div 400 = q
  BY <1>i, <1>1, <1>2, <1>3, SMT
<1> DEFINE C == 365 * D + p + N
<1>5. a = 36524 * B + q + C /\ C \in Nat
  BY <1>i, <1>0, <1>1, <1>2, <1>3, <1>4, SMT
<1>6. N = 365 => s = 3 /\ (D = 99 => r = 3)
  <2>1. ASSUME N = 365 PROVE (Y + 1) % 4 = 0 /\ ((Y + 1) % 100 # 0 \/ (Y + 1) % 400 = 0)
    BY <1>i, <2>1, SMT DEF Leap
  <2>2. (Y + 1) % 4 = 0 => s = 3
    BY <1>i, <1>1, <1>3, SMT
  <2>3. D = 99 => (Y + 1) % 100 = 0
    BY <1>i, <1>1, SMT
  <2>4. D = 99 /\ (Y + 1) % 400 = 0 => r = 3
    BY <1>i, <1>1, <1>2, SMT
  <2> QED
    BY <2>1, <2>2, <2>3, <2>4, SMT
<1>7. 4 * C + 3 - r \in Int /\ 0 <= 4 * C + 3 - r /\ 4 * C + 3 - r < 146097
  BY <1>i, <1>1, <1>2, <1>3, <1>6, SMT
<1>8. 4 * a + 3 = 146097 * B + (4 * C + 3 - r)
  BY <1>i, <1>1, <1>2, <1>3, <1>5, SMT
<1> HIDE DEF C
<1>9. b = B
  BY <1>i, <1>0, <1>1, <1>2, <1>5, <1>7, <1>8, SMT
<1>10. (b * 146097) \div 4 = 36524 * B + q
  BY <1>i, <1>1, <1>2, <1>9, SMT
<1>11. c = C
  BY <1>i, <1>0, <1>1, <1>2, <1>5, <1>10, SMT
<1>12. 4 * c + 3 = 1461 * D + (4 * N + 3 - s)
  BY <1>i, <1>1, <1>3, <1>11, SMT DEF C
<1>13. 4 * N + 3 - s \in Int /\ 0 <= 4 * N + 3 - s /\ 4 * N + 3 - s < 1461
  BY <1>i, <1>3, <1>6, SMT
<1>14. d = D
  BY <1>i, <1>0, <1>1, <1>3, <1>12, <1>13, SMT
<1>15. (1461 * d) \div 4 = 365 * D + p
  BY <1>i, <1>1, <1>3, <1>14, SMT
<1> QED
  BY <1>i, <1>1, <1>3, <1>9, <1>11, <1>14, <1>15, SMT DEF C, FoundAgain

(* getYearMonthDay() finds the date from its day number. *)
LEMMA DateFound ==
    ASSUME NEW t \in Dates, t.day <= DaysIn(t.year, t.month)
    PROVE  getYearMonthDay(getJulianDayNumber(t.year, t.month, t.day)) = t
<1> DEFINE Y == MarchYear(t)
           M == MarchMonth(t)
           N == MarchDay(t)
           j == getJulianDayNumber(t.year, t.month, t.day)
           a == j + 32044
           b == (4 * a + 3) \div 146097
           c == a - (b * 146097) \div 4
           d == (4 * c + 3) \div 1461
           e == c - (1461 * d) \div 4
           m == (5 * e + 2) \div 153
<1>1. /\ Y \in Nat /\ M \in 0..11 /\ N \in 0..365
      /\ N = 365 => Leap(Y + 1)
      /\ (5 * N + 2) \div 153 = M
      /\ Y + M \div 10 - 4800 = t.year
      /\ M + 3 - 12 * (M \div 10) = t.month
      /\ N - (153 * M + 2) \div 5 + 1 = t.day
  BY FromMarch, SMT
<1>2. t.day \in Int
  BY DEF Dates, SMT
<1>3. j = t.day + (153 * M + 2) \div 5 + Y * 365 + Y \div 4 - Y \div 100 + Y \div 400 - 32045
  BY DEF getJulianDayNumber, MarchYear, MarchMonth, SMT
<1>4. getYearMonthDay(j) = [day |-> e - (153 * m + 2) \div 5 + 1,
                            month |-> m + 3 - 12 * (m \div 10),
                            year |-> b * 100 + d - 4800 + m \div 10]
  BY DEF getYearMonthDay, SMT
<1> HIDE DEF Y, M, N, j
<1>5. a = N + Y * 365 + Y \div 4 - Y \div 100 + Y \div 400
  BY <1>1, <1>2, <1>3, SMT
<1> HIDE DEF a
<1>6. a \in Int
  BY <1>1, <1>5, SMT
<1>7. b = (4 * a + 3) \div 146097 /\ b \in Int
  BY <1>6, SMT
<1> HIDE DEF b
<1>8. c = a - (b * 146097) \div 4 /\ c \in Int
  BY <1>6, <1>7, SMT
<1> HIDE DEF c
<1>9. d = (4 * c + 3) \div 1461 /\ d \in Int
  BY <1>8, SMT
<1> HIDE DEF d
<1>10. b * 100 + d = Y /\ e = N
  <2>1. Divided(Y, N, a, b, c, d)
    BY <1>5, <1>7, <1>8, <1>9, SMT DEF Divided
  <2>2. InYear(Y, N)
    BY <1>1 DEF InYear
  <2>3. FoundAgain(Y, N, b, c, d)
    BY <2>1, <2>2, Quotients, Zenon
  <2> QED
    BY <2>3 DEF FoundAgain
<1> HIDE DEF e
<1>11. m = M
  BY <1>1, <1>10, SMT
<1> HIDE DEF m
<1>12. b * 100 + d - 4800 + m \div 10 = t.year
  <2>1. M \div 10 \in Int
    BY <1>1
  <2>2. b * 100 + d - 4800 + M \div 10 = Y + M \div 10 - 4800
    BY <1>1, <1>7, <1>9, <1>10, <2>1, SMT
  <2> QED
    BY <1>1, <1>11, <2>2
<1>13. e - (153 * m + 2) \div 5 + 1 = t.day /\ m + 3 - 12 * (m \div 10) = t.month
  BY <1>1, <1>10, <1>11, SMT
<1>14. t = [day |-> t.day, month |-> t.month, year |-> t.year]
  BY DEF Dates
<1> QED
  BY <1>4, <1>12, <1>13, <1>14 DEF j

(* A day number is an integer. *)
LEMMA DayNumberInt ==
    ASSUME NEW y \in Int, NEW m \in Int, NEW d \in Int
    PROVE  getJulianDayNumber(y, m, d) \in Int
  BY SMT DEF getJulianDayNumber

(* The epoch of the seconds, in days and in seconds of a day. *)
LEMMA Epoch ==
    /\ kJulianDayOf1970_01_01 = 2440588 /\ kSecondsPerDay = 86400
    /\ DaysBefore(1970) = 25567
<1>1. getJulianDayNumber(1970, 1, 1) = 2440588
  BY SMT DEF getJulianDayNumber
<1>2. DaysBefore(1970) \in Int /\ 2415021 + DaysBefore(1970) = getJulianDayNumber(1970, 1, 1)
  BY NewYearsDay, SMT
<1>3. kSecondsPerDay = 86400
  BY SMT DEF kSecondsPerDay
<1> QED
  BY <1>1, <1>2, <1>3, SMT DEF kJulianDayOf1970_01_01

(* fillHMS() takes the seconds of a day apart. *)
LEMMA HmsAddsUp ==
    ASSUME NEW s \in Int, 0 <= s, s < 86400
    PROVE  /\ fillHMS(s).hour \in Int /\ fillHMS(s).min \in Int /\ fillHMS(s).sec \in Int
           /\ fillHMS(s).hour * 3600 + fillHMS(s).min * 60 + fillHMS(s).sec = s
<1>1. /\ fillHMS(s).hour = (s \div 60) \div 60 /\ fillHMS(s).min = (s \div 60) % 60
      /\ fillHMS(s).sec = s % 60
  BY DEF fillHMS
<1>2. /\ (s \div 60) \div 60 \in Int /\ (s \div 60) % 60 \in Int /\ s % 60 \in Int
      /\ ((s \div 60) \div 60) * 3600 + ((s \div 60) % 60) * 60 + (s % 60) = s
  <2> DEFINE u == s \div 60
  <2>1. u \in Int /\ s % 60 \in Int /\ s = 60 * u + (s % 60)
    BY SMT
  <2> HIDE DEF u
  <2>2. u \div 60 \in Int /\ u % 60 \in Int /\ u = 60 * (u \div 60) + (u % 60)
    BY <2>1, SMT
  <2>3. (u \div 60) * 3600 + (u % 60) * 60 + (s % 60) = s
    BY <2>1, <2>2, SMT
  <2> QED
    BY <2>1, <2>2, <2>3 DEF u
<1> QED
  BY <1>1, <1>2, SMT

(* The correction in toUtcTime() makes of C's division the one that rounds *)
(* down: D days and s seconds are found again, also for a negative D.      *)
TakenApart(T, D, s) == D \in Int /\ s \in Int /\ 0 <= s /\ s < 86400 /\ T = D * 86400 + s

Utc(date, s) ==
    LET ymd == getYearMonthDay(date)
    IN  [hms |-> fillHMS(s), ymd |-> ymd, wday |-> weekDay(date),
         yday |-> date - getJulianDayNumber(ymd.year, 1, 1)]

(* toUtcTime() finds the date and the time of day. *)
LEMMA UtcTakesApart ==
    ASSUME NEW T, NEW D, NEW s, TakenApart(T, D, s)
    PROVE  toUtcTime(T) = Utc(D + 2440588, s)
<1> DEFINE up == T >= 0
           magnitude == IF up THEN T ELSE -T
           sign == IF up THEN 1 ELSE -1
           remainder == sign * (magnitude % 86400)
           quotient == sign * (magnitude \div 86400)
           seconds == IF remainder < 0 THEN remainder + 86400 ELSE remainder
           days == IF remainder < 0 THEN quotient - 1 ELSE quotient
<1>0. D \in Int /\ s \in Int /\ 0 <= s /\ s < 86400 /\ T = D * 86400 + s
  BY SMT DEF TakenApart
<1>1. toUtcTime(T) = Utc(days + 2440588, seconds)
  BY Epoch, SMT DEF toUtcTime, Utc
<1>2. seconds = s /\ days = D
  <2>1. CASE D >= 0
    <3>1. T \in Int /\ up
      BY <1>0, <2>1, SMT
    <3>2. T % 86400 = s /\ T \div 86400 = D
      BY <1>0, <2>1, SMT
    <3>3. remainder = s /\ quotient = D
      BY <1>0, <3>1, <3>2, SMT
    <3> QED
      BY <1>0, <3>3, SMT
  <2>2. CASE D < 0 /\ s = 0
    <3>1. T \in Int /\ ~up /\ -T = (-D) * 86400
      BY <1>0, <2>2, SMT
    <3>2. (-T) % 86400 = 0 /\ (-T) \div 86400 = -D
      BY <1>0, <2>2, <3>1, SMT
    <3>3. remainder = 0 /\ quotient = D
      BY <1>0, <3>1, <3>2, SMT
    <3> QED
      BY <1>0, <2>2, <3>3, SMT
  <2>3. CASE D < 0 /\ s # 0
    <3>1. T \in Int /\ ~up /\ -T = (-D - 1) * 86400 + (86400 - s)
      BY <1>0, <2>3, SMT
    <3>2. (-T) % 86400 = 86400 - s /\ (-T) \div 86400 = -D - 1
      BY <1>0, <2>3, <3>1, SMT
    <3>3. remainder = s - 86400 /\ quotient = D + 1
      BY <1>0, <3>1, <3>2, SMT
    <3> QED
      BY <1>0, <2>3, <3>3, SMT
  <2> QED
    BY <1>0, <2>1, <2>2, <2>3, SMT
<1> HIDE DEF seconds, days
<1> QED
  BY <1>1, <1>2, SMT

-----------------------------------------------------------------------------
(* The invariant of the calendar. *)

(* What the invariant says of the conversions. *)
LEMMA CalendarInvRight == CalendarInv => CalendarRight
<1> SUFFICES ASSUME CalendarInv PROVE CalendarRight
  OBVIOUS
<1> DEFINE j == getJulianDayNumber(today.year, today.month, today.day)
<1>1. /\ today \in Dates /\ today.day <= DaysIn(today.year, today.month)
      /\ dayCount \in Int /\ JulianDayRight
      /\ yearDay = JulianDay - getJulianDayNumber(today.year, 1, 1)
  BY DEF CalendarInv
<1>2. JulianDay = 2415021 + dayCount
  BY DEF JulianDay
<1>j. j = JulianDay
  BY <1>1, SMT DEF JulianDayRight
<1>3. getYearMonthDay(JulianDay) = today
  BY <1>1, <1>j, DateFound, Zenon
<1>4. weekDay(JulianDay) = (dayCount + 1) % 7
  BY <1>1, <1>2, SMT DEF weekDay
<1>5. ASSUME NEW s \in ClockTimes
      PROVE  LET hms == fillHMS(s)
                 t == fromUtcTime(today.year, today.month, today.day, hms.hour, hms.min, hms.sec)
             IN  /\ t = (dayCount - DaysBefore(1970)) * kSecondsPerDay + s
                 /\ toUtcTime(t) = [hms |-> hms, ymd |-> today,
                                    wday |-> (dayCount + 1) % 7, yday |-> yearDay]
  <2> DEFINE h == fillHMS(s)
             t == fromUtcTime(today.year, today.month, today.day, h.hour, h.min, h.sec)
             D == dayCount - 25567
  <2>1. s \in Int /\ 0 <= s /\ s < 86400
    BY DateAssumption, SMT DEF DateAssumption
  <2>2. h.hour \in Int /\ h.min \in Int /\ h.sec \in Int /\ h.hour * 3600 + h.min * 60 + h.sec = s
    BY <2>1, HmsAddsUp, SMT
  <2>3. t = (j - kJulianDayOf1970_01_01) * kSecondsPerDay + h.hour * 3600 + h.min * 60 + h.sec
    BY SMT DEF fromUtcTime
  <2> HIDE DEF h, j, t
  <2>4. TakenApart(t, D, s)
    BY <1>1, <1>2, <1>j, <2>1, <2>2, <2>3, Epoch, SMT DEF TakenApart
  <2>5. D + 2440588 = JulianDay
    BY <1>1, <1>2, SMT
  <2>6. t = (dayCount - DaysBefore(1970)) * kSecondsPerDay + s
    BY <2>4, Epoch, SMT DEF TakenApart
  <2> HIDE DEF D
  <2>7. toUtcTime(t) = Utc(JulianDay, s)
    BY <2>4, <2>5, UtcTakesApart, SMT
  <2>8. toUtcTime(t) = [hms |-> h, ymd |-> today, wday |-> (dayCount + 1) % 7, yday |-> yearDay]
    BY <1>1, <1>3, <1>4, <2>7, SMT DEF Utc, h
  <2> QED
    BY <2>6, <2>8 DEF t, h
<1>6. UtcRoundTrip
  BY <1>5 DEF UtcRoundTrip
<1> QED
  BY <1>1, <1>3, <1>4, <1>6 DEF CalendarRight, DateRight, WeekDayRight

(* The first of January of a year. *)
LEMMA NewYearInv ==
    ASSUME NEW y \in Nat, y >= 1900, today = [year |-> y, month |-> 1, day |-> 1],
           2415021 + dayCount = getJulianDayNumber(y, 1, 1), dayCount \in Int, yearDay = 0
    PROVE  CalendarInv
<1>1. today.year = y /\ today.month = 1 /\ today.day = 1
  OBVIOUS
<1>2. today \in Dates
  BY DEF Dates
<1>3. DaysIn(y, 1) = 31
  BY DEF DaysIn
<1>4. JulianDay = getJulianDayNumber(y, 1, 1) /\ JulianDay \in Int
  BY SMT DEF JulianDay
<1>5. yearDay = JulianDay - getJulianDayNumber(y, 1, 1)
  BY <1>4, SMT
<1> QED
  BY <1>1, <1>2, <1>3, <1>4, <1>5, SMT DEF CalendarInv, JulianDayRight

(* The calendar begins with the first of January of a year. *)
LEMMA CalendarStart == CalendarInit => CalendarInv
<1> SUFFICES ASSUME CalendarInit PROVE CalendarInv
  OBVIOUS
<1>1. PICK y \in FirstYears : /\ today = [year |-> y, month |-> 1, day |-> 1]
                              /\ dayCount = DaysBefore(y) /\ yearDay = 0
  BY DEF CalendarInit
<1>2. y \in Nat /\ y >= 1900
  BY DateAssumption, SMT DEF DateAssumption
<1>3. dayCount \in Int /\ 2415021 + dayCount = getJulianDayNumber(y, 1, 1)
  BY <1>1, <1>2, NewYearsDay, SMT
<1> QED
  BY <1>1, <1>2, <1>3, NewYearInv, SMT

(* The other subjects leave the calendar at the first of January 1970. *)
LEMMA CalendarAtRest == CalendarRests => CalendarInv
<1> SUFFICES ASSUME CalendarRests PROVE CalendarInv
  OBVIOUS
<1>1. /\ today = [year |-> 1970, month |-> 1, day |-> 1]
      /\ dayCount = DaysBefore(1970) /\ yearDay = 0
  BY DEF CalendarRests
<1>2. dayCount \in Int /\ 2415021 + dayCount = getJulianDayNumber(1970, 1, 1)
  BY <1>1, NewYearsDay, SMT
<1> QED
  BY <1>1, <1>2, NewYearInv, SMT

(* A date with the next day number, in the same year. *)
LEMMA NextDateInv ==
    ASSUME CalendarInv, NEW m \in 1..12, NEW d \in 1..31, d <= DaysIn(today.year, m),
           today' = [today EXCEPT !.month = m, !.day = d],
           getJulianDayNumber(today.year, m, d) =
              getJulianDayNumber(today.year, today.month, today.day) + 1,
           yearDay' = yearDay + 1, dayCount' = dayCount + 1
    PROVE  CalendarInv'
<1> DEFINE j == getJulianDayNumber(today.year, today.month, today.day)
           first == getJulianDayNumber(today.year, 1, 1)
<1>1. /\ today \in Dates /\ today.year >= 1900 /\ dayCount \in Int /\ j = JulianDay
      /\ yearDay = JulianDay - first
  BY DEF CalendarInv, JulianDayRight
<1>2. today' \in Dates /\ today'.year = today.year /\ today'.month = m /\ today'.day = d
  <2> DEFINE u == [today EXCEPT !.month = m, !.day = d]
  <2>1. u \in Dates /\ u.year = today.year /\ u.month = m /\ u.day = d
    <3>1. today \in Dates
      BY <1>1
    <3> QED
      BY <3>1 DEF Dates
  <2>2. today' = u
    OBVIOUS
  <2> HIDE DEF u
  <2> QED
    BY <2>1, <2>2
<1>3. j \in Int /\ first \in Int
  <2>1. today.year \in Int /\ today.month \in Int /\ today.day \in Int
    BY <1>1 DEF Dates
  <2> QED
    BY <2>1, DayNumberInt
<1>4. JulianDay' = JulianDay + 1 /\ JulianDay \in Int /\ dayCount' \in Int
  BY <1>1, SMT DEF JulianDay
<1> HIDE DEF j, first
<1>5. yearDay' = JulianDay' - first
  BY <1>1, <1>3, <1>4, SMT
<1>6. getJulianDayNumber(today.year, m, d) = JulianDay'
  BY <1>1, <1>4, SMT DEF j
<1> QED
  BY <1>1, <1>2, <1>4, <1>5, <1>6, SMT DEF CalendarInv, JulianDayRight, first

(* One day more in a month is one more in the day number. *)
LEMMA DayNumberDays ==
    ASSUME NEW y \in Nat, NEW m \in 1..12, NEW d \in Nat
    PROVE  getJulianDayNumber(y, m, d + 1) = getJulianDayNumber(y, m, d) + 1
  BY SMT DEF getJulianDayNumber

(* The next day of a month. *)
LEMMA NextDayInv == CalendarInv /\ NextDay => CalendarInv'
<1> SUFFICES ASSUME CalendarInv, NextDay PROVE CalendarInv'
  OBVIOUS
<1> DEFINE m == today.month
           d == today.day
           y == today.year
<1>1. m \in 1..12 /\ d \in 1..31 /\ y \in Nat /\ today \in Dates
  BY DEF CalendarInv, Dates
<1>2. /\ d < DaysIn(y, m) /\ today' = [today EXCEPT !.day = d + 1]
      /\ yearDay' = yearDay + 1 /\ dayCount' = dayCount + 1
  BY DEF NextDay
<1>3. today' = [today EXCEPT !.month = m, !.day = d + 1]
  BY <1>1, <1>2 DEF Dates
<1> HIDE DEF m, d, y
<1>4. d + 1 \in 1..31 /\ d + 1 <= DaysIn(y, m)
  BY <1>1, <1>2 DEF DaysIn
<1>5. getJulianDayNumber(y, m, d + 1) = getJulianDayNumber(y, m, d) + 1
  BY <1>1, DayNumberDays
<1> QED
  BY <1>1, <1>2, <1>3, <1>4, <1>5, NextDateInv DEF m, d, y

(* The first day of the next month. *)
LEMMA NextMonthInv == CalendarInv /\ NextMonth => CalendarInv'
<1> SUFFICES ASSUME CalendarInv, NextMonth PROVE CalendarInv'
  OBVIOUS
<1> DEFINE m == today.month
           y == today.year
<1>1. m \in 1..12 /\ y \in Nat /\ today \in Dates
  BY DEF CalendarInv, Dates
<1>2. /\ today.day = DaysIn(y, m) /\ m < 12
      /\ today' = [today EXCEPT !.day = 1, !.month = m + 1]
      /\ yearDay' = yearDay + 1 /\ dayCount' = dayCount + 1
  BY DEF NextMonth
<1>3. today' = [today EXCEPT !.month = m + 1, !.day = 1]
  BY <1>1, <1>2 DEF Dates
<1> HIDE DEF m, y
<1>4. m \in 1..11 /\ m + 1 \in 1..12 /\ 1 \in 1..31 /\ 1 <= DaysIn(y, m + 1)
  BY <1>1, <1>2 DEF DaysIn
<1>5. getJulianDayNumber(y, m + 1, 1) = getJulianDayNumber(y, m, today.day) + 1
  BY <1>1, <1>2, <1>4, MonthEnds
<1> QED
  BY <1>1, <1>2, <1>3, <1>4, <1>5, NextDateInv DEF m, y

(* The first of January after the last day of a year. *)
LEMMA NewYearStep == CalendarInv /\ NewYear => CalendarInv'
<1> SUFFICES ASSUME CalendarInv, NewYear PROVE CalendarInv'
  OBVIOUS
<1> DEFINE y == today.year + 1
           first == getJulianDayNumber(y, 1, 1)
<1>1. /\ today \in Dates /\ today.year \in Nat /\ today.year >= 1900 /\ dayCount \in Int
      /\ getJulianDayNumber(today.year, today.month, today.day) = JulianDay
  BY DEF CalendarInv, Dates, JulianDayRight
<1>2. /\ today.day = DaysIn(today.year, today.month) /\ today.month = 12
      /\ today' = [year |-> y, month |-> 1, day |-> 1]
      /\ yearDay' = 0 /\ dayCount' = dayCount + 1
  BY DEF NewYear
<1>3. today.day = 31
  BY <1>2 DEF DaysIn
<1>4. first = JulianDay + 1
  BY <1>1, <1>2, <1>3, YearEnds
<1>5. JulianDay' = JulianDay + 1 /\ JulianDay \in Int /\ dayCount' \in Int
  BY <1>1, <1>2, SMT DEF JulianDay
<1>6. y \in Nat /\ y >= 1900
  BY <1>1
<1> HIDE DEF y, first
<1>7. today'.year = y /\ today'.month = 1 /\ today'.day = 1 /\ today' \in Dates
  BY <1>2, <1>6 DEF Dates
<1>8. DaysIn(y, 1) = 31
  BY DEF DaysIn
<1>9. first = JulianDay' /\ yearDay' = JulianDay' - first
  BY <1>2, <1>4, <1>5, SMT
<1> QED
  BY <1>5, <1>6, <1>7, <1>8, <1>9, SMT DEF CalendarInv, JulianDayRight, first

(* Steps that leave the calendar alone. *)
LEMMA CalendarKept == CalendarInv /\ UNCHANGED calendarVars => CalendarInv'
  BY SMT DEF CalendarInv, calendarVars, JulianDayRight, JulianDay

(***************************************************************************)
(* For every day from 1900 on, whichever year the calendar begins with and *)
(* however far it goes: the quotients of Date.cpp and TimeZone.cpp give    *)
(* the day number, the date, the day of the week and the UTC time that     *)
(* counting days gives, also before 1970.                                  *)
(***************************************************************************)
THEOREM CalendarsRight == SpecAll => []CalendarRight
<1>1. InitAll => CalendarInv
  BY CalendarStart, CalendarAtRest DEF InitAll
<1>2. CalendarInv /\ [NextAll]_allVars => CalendarInv'
  <2> SUFFICES ASSUME CalendarInv, [NextAll]_allVars PROVE CalendarInv'
    OBVIOUS
  <2>1. CASE NextDate
    BY <2>1, NextDayInv, NextMonthInv, NewYearStep DEF NextDate, CalendarNext
  <2>2. CASE NextZone \/ NextNumber \/ NextPiece \/ UNCHANGED allVars
    <3>1. UNCHANGED calendarVars
      BY <2>2 DEF NextZone, NextNumber, NextPiece, allVars
    <3> QED
      BY <3>1, CalendarKept
  <2> QED
    BY <2>1, <2>2 DEF NextAll
<1> QED
  BY <1>1, <1>2, CalendarInvRight, PTL DEF SpecAll

-----------------------------------------------------------------------------
(* Zones and their local times. *)

(* The kind of local time that the i-th change of a file leads to; before  *)
(* the first change it is the file's first kind.                           *)
Kind(f, i) == f.types[IF i = 0 THEN 1 ELSE f.changes[i].idx]

(* Its offset, and the instant of the i-th change. *)
Off(f, i) == Kind(f, i).gmtOffset
Instant(f, i) == f.changes[i].at

(* What the i-th transition is found by. *)
Key(f, i, gmt) == IF gmt THEN Instant(f, i) ELSE Instant(f, i) + Off(f, i)

(* The i-th transition is the last that is not after key. *)
Stands(f, i, key, gmt) ==
    /\ i \in 0..Len(f.changes)
    /\ i > 0 => Key(f, i, gmt) <= key
    /\ i < Len(f.changes) => key < Key(f, i + 1, gmt)

(* The zone data d has what a file says. *)
Has(d, f) == d.localtimes = f.types /\ d.transitions = Z!Transitions(f)

(* Min() and Max() of numbers. *)
LEMMA LeastIs ==
    ASSUME NEW S \in SUBSET Nat, NEW x \in S, \A y \in S : x =< y
    PROVE  Z!Min(S) = x
<1>1. \A y \in S : (\A z \in S : y =< z) => y = x
  OBVIOUS
<1> QED
  BY <1>1 DEF Z!Min

(* The greatest one. *)
LEMMA GreatestIs ==
    ASSUME NEW S \in SUBSET Nat, NEW x \in S, \A y \in S : x >= y
    PROVE  Z!Max(S) = x
<1>1. \A y \in S : (\A z \in S : y >= z) => y = x
  OBVIOUS
<1> QED
  BY <1>1 DEF Z!Max

(* The parts of a zone file. *)
Change == [at : Changes, idx : 1..MaxTypes]
TypeLists == UNION {[1..n -> Kinds] : n \in 0..MaxTypes}
ChangeLists == UNION {[1..n -> Change] : n \in 0..MaxChanges}

(* A file is well formed. *)
WellFormed(f) ==
    /\ \A i \in DOMAIN f.changes : f.changes[i].idx <= Len(f.types)
    /\ \A i, j \in DOMAIN f.changes : i < j => f.changes[i].at < f.changes[j].at
    /\ f.read <= Len(f.types)
    /\ f.chars => f.read = Len(f.types)

LEMMA FilesAre ==
    Z!Files = {f \in [types : TypeLists, changes : ChangeLists, read : 0..MaxTypes,
                      chars : BOOLEAN, rule : BOOLEAN] : WellFormed(f)}
  BY DEF Z!Files, TypeLists, ChangeLists, Change, WellFormed

(* What a zone file holds. *)
LEMMA FileHas ==
    ASSUME NEW f \in Z!Files
    PROVE  /\ f.types \in Seq(Kinds) /\ f.changes \in Seq(Change)
           /\ Len(f.types) \in Nat /\ DOMAIN f.types = 1..Len(f.types)
           /\ Len(f.changes) \in Nat /\ DOMAIN f.changes = 1..Len(f.changes)
           /\ f.read \in Nat /\ f.chars \in BOOLEAN /\ WellFormed(f)
<1>0. MaxTypes \in Nat /\ MaxChanges \in Nat
  BY ConversionAssumption DEF ConversionAssumption
<1>1. f \in {g \in [types : TypeLists, changes : ChangeLists, read : 0..MaxTypes,
                    chars : BOOLEAN, rule : BOOLEAN] : WellFormed(g)}
  BY FilesAre
<1>2. /\ f.types \in TypeLists /\ f.changes \in ChangeLists /\ f.read \in 0..MaxTypes
      /\ f.chars \in BOOLEAN /\ WellFormed(f)
  BY <1>1
<1>3. PICK m \in 0..MaxTypes : f.types \in [1..m -> Kinds]
  BY <1>2 DEF TypeLists
<1>4. PICK n \in 0..MaxChanges : f.changes \in [1..n -> Change]
  BY <1>2 DEF ChangeLists
<1>5. f.types \in Seq(Kinds) /\ Len(f.types) = m /\ DOMAIN f.types = 1..m
  BY <1>0, <1>3
<1>6. f.changes \in Seq(Change) /\ Len(f.changes) = n /\ DOMAIN f.changes = 1..n
  BY <1>0, <1>4
<1> QED
  BY <1>0, <1>2, <1>5, <1>6

(* The numbers of a kind of local time. *)
LEMMA KindHas ==
    ASSUME NEW k \in Kinds
    PROVE  k.gmtOffset \in Int /\ k.isDst \in BOOLEAN /\ k.arrbIdx \in Nat /\ k.arrbIdx < charcnt
<1>1. k \in [gmtOffset : Int, isDst : BOOLEAN, arrbIdx : 0..(charcnt - 1)] /\ charcnt \in Nat
  BY ConversionAssumption DEF ConversionAssumption
<1> QED
  BY <1>1

(* The changes of a file are in order, and lead to kinds that it has. *)
LEMMA FileNumbers ==
    ASSUME NEW f \in Z!Files, f.types # <<>>
    PROVE  /\ \A i \in 0..Len(f.changes) : Kind(f, i) \in Kinds /\ Off(f, i) \in Int
           /\ \A i \in 1..Len(f.changes) : Instant(f, i) \in Int /\ f.changes[i].idx \in DOMAIN f.types
           /\ \A i, j \in 1..Len(f.changes) : i < j => Instant(f, i) < Instant(f, j)
           /\ 1 \in DOMAIN f.types
<1>1. /\ f.types \in Seq(Kinds) /\ f.changes \in Seq(Change)
      /\ Len(f.types) \in Nat /\ DOMAIN f.types = 1..Len(f.types)
      /\ Len(f.changes) \in Nat /\ DOMAIN f.changes = 1..Len(f.changes)
      /\ WellFormed(f)
  BY FileHas
<1>2. 1 \in DOMAIN f.types
  BY <1>1
<1>3. ASSUME NEW i \in 1..Len(f.changes)
      PROVE  Instant(f, i) \in Int /\ f.changes[i].idx \in DOMAIN f.types
  <2>1. f.changes[i] \in Change
    BY <1>1
  <2>2. Changes \subseteq Int /\ MaxTypes \in Nat
    BY ConversionAssumption DEF ConversionAssumption
  <2>3. f.changes[i].at \in Int /\ f.changes[i].idx \in 1..MaxTypes
    BY <2>1, <2>2 DEF Change
  <2>4. f.changes[i].idx <= Len(f.types)
    BY <1>1 DEF WellFormed
  <2> QED
    BY <1>1, <2>2, <2>3, <2>4 DEF Instant
<1>4. ASSUME NEW i \in 0..Len(f.changes) PROVE Kind(f, i) \in Kinds /\ Off(f, i) \in Int
  <2>1. (IF i = 0 THEN 1 ELSE f.changes[i].idx) \in DOMAIN f.types
    BY <1>1, <1>2, <1>3
  <2>2. Kind(f, i) \in Kinds
    BY <1>1, <2>1 DEF Kind
  <2> QED
    BY <2>2, KindHas DEF Off
<1>5. \A i, j \in 1..Len(f.changes) : i < j => Instant(f, i) < Instant(f, j)
  BY <1>1 DEF WellFormed, Instant
<1> QED
  BY <1>2, <1>3, <1>4, <1>5

(***************************************************************************)
(* findLocaltime() finds the kind that the last transition not after key   *)
(* leads to, when the transitions are in order.                            *)
(***************************************************************************)
LEMMA FindsKind ==
    ASSUME NEW f \in Z!Files, f.types # <<>>, NEW d, Has(d, f), NEW key \in Int, NEW gmt \in BOOLEAN,
           \A i, j \in 1..Len(f.changes) : i < j => Key(f, i, gmt) < Key(f, j, gmt),
           NEW p, Stands(f, p, key, gmt)
    PROVE  Z!findLocaltime(d, key, gmt) = Kind(f, p)
<1> DEFINE n == Len(f.changes)
           trans == Z!Transitions(f)
           keyOf(t) == IF gmt THEN t.gmttime ELSE t.localtime
           later == {i \in 1..Len(trans) : keyOf(trans[i]) >= key}
           first == Z!Min(later)
           K(i) == Key(f, i, gmt)
<1>1. n \in Nat /\ \A i \in 1..n : K(i) \in Int
  BY FileHas, FileNumbers DEF Key
<1>2. /\ DOMAIN trans = 1..n /\ Len(trans) = n
      /\ trans = <<>> <=> n = 0
  BY <1>1 DEF Z!Transitions
<1>3. \A i \in 1..n : keyOf(trans[i]) = K(i) /\ trans[i].localtimeIdx = f.changes[i].idx
  <2> TAKE i \in 1..n
  <2>1. i # 0
    BY <1>1
  <2>2. trans[i] = [gmttime |-> f.changes[i].at,
                    localtime |-> f.changes[i].at + f.types[f.changes[i].idx].gmtOffset,
                    localtimeIdx |-> f.changes[i].idx]
    BY DEF Z!Transitions
  <2>3. Off(f, i) = f.types[f.changes[i].idx].gmtOffset /\ Instant(f, i) = f.changes[i].at
    BY <2>1 DEF Kind, Off, Instant
  <2> HIDE DEF trans
  <2> QED
    BY <2>2, <2>3 DEF Key
<1>4. Z!findLocaltime(d, key, gmt) =
        IF trans = <<>> \/ key < keyOf(trans[1]) THEN f.types[1]
        ELSE IF later = {} THEN f.types[trans[Len(trans)].localtimeIdx]
        ELSE IF keyOf(trans[first]) = key THEN f.types[trans[first].localtimeIdx]
        ELSE f.types[trans[first - 1].localtimeIdx]
  BY DEF Z!findLocaltime, Has
<1>5. later \in SUBSET Nat /\ \A i : i \in later <=> i \in 1..n /\ K(i) >= key
  BY <1>1, <1>2, <1>3
<1>6. /\ \A i \in 1..n : f.types[trans[i].localtimeIdx] = Kind(f, i)
      /\ f.types[1] = Kind(f, 0)
  BY <1>1, <1>3 DEF Kind
<1>7. /\ p \in 0..n /\ (p > 0 => K(p) <= key) /\ (p < n => key < K(p + 1))
      /\ \A i, j \in 1..n : i < j => K(i) < K(j)
  BY DEF Stands
<1> HIDE DEF trans, keyOf, later, n, K
<1>8. CASE p = 0
  BY <1>1, <1>2, <1>3, <1>4, <1>6, <1>7, <1>8
<1>9. CASE p > 0
  <2>1. p \in 1..n /\ n > 0 /\ 1 \in 1..n
    BY <1>1, <1>7, <1>9
  <2>2. \A i \in 1..n : (i < p => K(i) < key) /\ (i > p => key < K(i))
    <3> TAKE i \in 1..n
    <3>1. ASSUME i < p PROVE K(i) < key
      <4>1. K(i) < K(p)
        BY <1>7, <2>1, <3>1
      <4> QED
        BY <1>1, <1>7, <2>1, <4>1
    <3>2. ASSUME i > p PROVE key < K(i)
      <4>1. p + 1 \in 1..n /\ (i = p + 1 \/ p + 1 < i)
        BY <1>1, <2>1, <3>2
      <4>2. K(p + 1) <= K(i)
        BY <1>1, <1>7, <4>1
      <4> QED
        BY <1>1, <1>7, <2>1, <4>1, <4>2
    <3> QED
      BY <3>1, <3>2
  <2>3. trans # <<>> /\ ~(key < keyOf(trans[1]))
    <3>1. K(1) <= key
      BY <1>1, <1>7, <2>1, <2>2
    <3> QED
      BY <1>1, <1>2, <1>3, <2>1, <3>1
  <2>4. CASE K(p) = key
    <3>1. p \in later /\ \A i \in later : p =< i
      BY <1>1, <1>5, <2>1, <2>2, <2>4
    <3>2. first = p /\ later # {} /\ keyOf(trans[p]) = key
      BY <1>3, <1>5, <2>1, <2>4, <3>1, LeastIs
    <3> QED
      BY <1>4, <1>6, <2>1, <2>3, <3>2
  <2>5. CASE K(p) < key /\ p = n
    <3>1. later = {}
      BY <1>1, <1>5, <2>1, <2>2, <2>5
    <3> QED
      BY <1>2, <1>4, <1>6, <2>1, <2>3, <2>5, <3>1
  <2>6. CASE K(p) < key /\ p < n
    <3>1. p + 1 \in 1..n
      BY <1>1, <2>1, <2>6
    <3>2. p + 1 \in later /\ \A i \in later : p + 1 =< i
      BY <1>1, <1>5, <1>7, <2>1, <2>2, <2>6, <3>1
    <3>3. first = p + 1 /\ later # {}
      BY <1>5, <3>2, LeastIs
    <3>4. keyOf(trans[p + 1]) # key /\ first - 1 = p
      BY <1>1, <1>3, <1>7, <2>1, <2>6, <3>1, <3>3
    <3> QED
      BY <1>4, <1>6, <2>1, <2>3, <3>3, <3>4
  <2> QED
    BY <1>1, <1>7, <2>1, <2>4, <2>5, <2>6
<1> QED
  BY <1>1, <1>7, <1>8, <1>9

(* At every instant some change is the last one. *)
LEMMA SomeStands ==
    ASSUME NEW f \in Z!Files, f.types # <<>>, NEW t \in Int
    PROVE  \E i : Stands(f, i, t, TRUE)
<1> DEFINE n == Len(f.changes)
           S == {m \in 0..n : n - m > 0 => Instant(f, n - m) <= t}
<1>1. n \in Nat /\ \A i \in 1..n : Instant(f, i) \in Int
  BY FileHas, FileNumbers
<1> HIDE DEF n
<1>2. n \in S /\ S \in SUBSET Nat
  BY <1>1
<1>3. PICK m \in S : \A y \in S : m =< y
  BY <1>2, LeastOf
<1>4. m \in 0..n /\ n - m \in 0..n /\ (n - m > 0 => Instant(f, n - m) <= t)
  BY <1>1, <1>3
<1>5. ASSUME n - m < n PROVE t < Instant(f, (n - m) + 1)
  <2>1. m - 1 \in 0..n /\ n - (m - 1) = (n - m) + 1 /\ (n - m) + 1 \in 1..n
    BY <1>1, <1>4, <1>5
  <2>2. m - 1 \notin S
    BY <1>1, <1>3, <1>4, <2>1
  <2>3. ~(Instant(f, n - (m - 1)) <= t)
    BY <2>1, <2>2
  <2> QED
    BY <1>1, <2>1, <2>3
<1>6. Stands(f, n - m, t, TRUE)
  BY <1>4, <1>5 DEF Stands, Key, n
<1> QED
  BY <1>6

(* The kind in force is the one of the last change. *)
LEMMA InForceIs ==
    ASSUME NEW f \in Z!Files, f.types # <<>>, NEW t \in Int, NEW p, Stands(f, p, t, TRUE),
           Z!Told(f, t)
    PROVE  Z!InForce(f, t) = Kind(f, p)
<1> DEFINE n == Len(f.changes)
           past == {i \in DOMAIN f.changes : f.changes[i].at <= t}
<1>1. /\ n \in Nat /\ DOMAIN f.changes = 1..n
      /\ \A i \in 1..n : Instant(f, i) \in Int
      /\ \A i, j \in 1..n : i < j => Instant(f, i) < Instant(f, j)
  BY FileHas, FileNumbers
<1>2. /\ p \in 0..n /\ (p > 0 => Instant(f, p) <= t) /\ (p < n => t < Instant(f, p + 1))
  BY DEF Stands, Key
<1>3. past \in SUBSET Nat /\ \A i : i \in past <=> i \in 1..n /\ Instant(f, i) <= t
  BY <1>1 DEF Instant
<1>4. Z!InForce(f, t) =
        IF past = {} THEN f.types[Z!Min({i \in DOMAIN f.types : ~f.types[i].isDst})]
        ELSE f.types[f.changes[Z!Max(past)].idx]
  BY DEF Z!InForce
<1>5. past = {} => ~f.types[1].isDst
  BY DEF Z!Told
<1> HIDE DEF n, past
<1>6. \A i \in past : i <= p
  <2> SUFFICES ASSUME NEW i \in past, i > p PROVE FALSE
    BY <1>1, <1>2, <1>3
  <2>1. p + 1 \in 1..n /\ i \in 1..n /\ (i = p + 1 \/ p + 1 < i)
    BY <1>1, <1>2, <1>3
  <2>2. Instant(f, p + 1) <= Instant(f, i)
    BY <1>1, <2>1
  <2> QED
    BY <1>1, <1>2, <1>3, <2>1, <2>2
<1>7. CASE p = 0
  <2>1. past = {}
    BY <1>1, <1>3, <1>6, <1>7
  <2> DEFINE S == {i \in DOMAIN f.types : ~f.types[i].isDst}
  <2>2. S \in SUBSET Nat /\ 1 \in S /\ \A y \in S : 1 =< y
    BY <1>5, <2>1, FileHas, FileNumbers
  <2>3. Z!Min(S) = 1
    BY <2>2, LeastIs
  <2> QED
    BY <1>4, <1>7, <2>1, <2>3 DEF Kind
<1>8. CASE p > 0
  <2>0. p \in 1..n /\ Instant(f, p) <= t /\ p \in Nat /\ \A y \in past : y \in Nat
    BY <1>1, <1>2, <1>3, <1>8
  <2>1. p \in past /\ \A y \in past : p >= y
    BY <1>3, <1>6, <2>0
  <2>2. Z!Max(past) = p
    BY <1>3, <2>1, GreatestIs
  <2> QED
    BY <1>2, <1>4, <1>8, <2>1, <2>2 DEF Kind
<1> QED
  BY <1>1, <1>2, <1>7, <1>8

(* The local time that is shown for an instant. *)
Shown(f, i, t) ==
    [seconds |-> t + Off(f, i), isDst |-> Kind(f, i).isDst, zone |-> Kind(f, i).arrbIdx]

LEMMA ShowsKind ==
    ASSUME NEW f \in Z!Files, f.types # <<>>, NEW d, Has(d, f), NEW t \in Int,
           NEW p, Stands(f, p, t, TRUE)
    PROVE  Z!toLocalTime(d, t) = Shown(f, p, t)
<1>1. \A i, j \in 1..Len(f.changes) : i < j => Key(f, i, TRUE) < Key(f, j, TRUE)
  BY FileNumbers DEF Key
<1>2. Z!findLocaltime(d, t, TRUE) = Kind(f, p)
  BY <1>1, FindsKind
<1> QED
  BY <1>2 DEF Z!toLocalTime, Shown, Off

(* Where changes are spaced, no two local times are further apart. *)
LEMMA SpacedNumbers ==
    ASSUME NEW f \in Z!Files, f.types # <<>>, Z!Spaced(f)
    PROVE  \A i, j \in 1..Len(f.changes), a, b \in 0..Len(f.changes) :
              i < j => Instant(f, j) - Instant(f, i) > Off(f, b) - Off(f, a)
<1> SUFFICES ASSUME NEW i \in 1..Len(f.changes), NEW j \in 1..Len(f.changes), i < j,
                    NEW a \in 0..Len(f.changes), NEW b \in 0..Len(f.changes)
             PROVE  Instant(f, j) - Instant(f, i) > Off(f, b) - Off(f, a)
  OBVIOUS
<1> DEFINE at(x) == IF x = 0 THEN 1 ELSE f.changes[x].idx
<1>1. at(a) \in DOMAIN f.types /\ at(b) \in DOMAIN f.types
  <2>1. Len(f.changes) \in Nat
    BY FileHas
  <2>2. \A x \in 1..Len(f.changes) : f.changes[x].idx \in DOMAIN f.types
    BY FileNumbers
  <2>3. 1 \in DOMAIN f.types
    BY FileNumbers
  <2>4. (a = 0 \/ a \in 1..Len(f.changes)) /\ (b = 0 \/ b \in 1..Len(f.changes))
    BY <2>1
  <2> QED
    BY <2>2, <2>3, <2>4, Zenon
<1>2. Off(f, a) = f.types[at(a)].gmtOffset /\ Off(f, b) = f.types[at(b)].gmtOffset
  BY DEF Off, Kind
<1> HIDE DEF at
<1>3. i \in DOMAIN f.changes /\ j \in DOMAIN f.changes
  BY FileHas
<1>4. f.changes[j].at - f.changes[i].at > f.types[at(b)].gmtOffset - f.types[at(a)].gmtOffset
  BY <1>1, <1>3 DEF Z!Spaced
<1> QED
  BY <1>2, <1>4 DEF Instant

(* The local time of an instant is found by the change it stands at. *)
LEMMA FindsLocal ==
    ASSUME NEW f \in Z!Files, f.types # <<>>, Z!Spaced(f), NEW d, Has(d, f), NEW s \in Int,
           NEW p, Stands(f, p, s, FALSE)
    PROVE  Z!findLocaltime(d, s, FALSE) = Kind(f, p)
<1>1. ASSUME NEW i \in 1..Len(f.changes), NEW j \in 1..Len(f.changes), i < j
      PROVE  Key(f, i, FALSE) < Key(f, j, FALSE)
  <2>1. i \in 0..Len(f.changes) /\ j \in 0..Len(f.changes)
    BY FileHas
  <2>2. Instant(f, j) - Instant(f, i) > Off(f, i) - Off(f, j)
    BY <1>1, <2>1, SpacedNumbers
  <2>3. Instant(f, i) \in Int /\ Instant(f, j) \in Int /\ Off(f, i) \in Int /\ Off(f, j) \in Int
    BY <2>1, FileNumbers
  <2> QED
    BY <2>2, <2>3 DEF Key
<1> QED
  BY <1>1, FindsKind

(* fromLocalTime() takes the local time m for one that comes twice, when   *)
(* the instant it leads to is shown as try.                                *)
Twice(m, try) ==
    /\ m.isDst /\ ~try.isDst
    /\ Z!HourAndMinute(try.seconds) = Z!HourAndMinute(m.seconds)

(* A local time that is found as l and leads to an instant shown as try. *)
Leads(d, m, l, try) ==
    /\ Z!findLocaltime(d, m.seconds, FALSE) = l
    /\ Z!toLocalTime(d, m.seconds - l.gmtOffset) = try

(* What fromLocalTime() gives back. *)
LEMMA FromLocalIs ==
    ASSUME NEW d, NEW m, NEW l, NEW try, Leads(d, m, l, try)
    PROVE  Z!fromLocalTime(d, m) =
             (IF Twice(m, try) THEN m.seconds - 3600 ELSE m.seconds) - l.gmtOffset
<1> DEFINE local == Z!findLocaltime(d, m.seconds, FALSE)
           tryTm == Z!toLocalTime(d, m.seconds - local.gmtOffset)
           early == m.seconds - 3600
<1>1. Z!fromLocalTime(d, m) = (IF Twice(m, tryTm) THEN early ELSE m.seconds) - local.gmtOffset
  BY SMT DEF Z!fromLocalTime, Twice
<1>2. local = l
  BY DEF Leads
<1>3. tryTm = Z!toLocalTime(d, m.seconds - local.gmtOffset)
  OBVIOUS
<1> HIDE DEF local, tryTm, early
<1>4. tryTm = try
  BY <1>2, <1>3, Zenon DEF Leads
<1>5. Z!fromLocalTime(d, m) = (IF Twice(m, try) THEN early ELSE m.seconds) - l.gmtOffset
  BY <1>1, <1>2, <1>4, Zenon
<1> QED
  BY <1>5 DEF early

(* Before and after a change, in terms of the changes' kinds. *)
LEMMA RepeatsIs ==
    ASSUME NEW f, NEW j \in Nat \ {0}, NEW t
    PROVE  /\ Z!Before(f, j) = Kind(f, j - 1) /\ Z!After(f, j) = Kind(f, j)
           /\ Z!Repeats(f, j, t) <=> /\ Instant(f, j) - (Off(f, j - 1) - Off(f, j)) <= t
                                     /\ t < Instant(f, j)
           /\ Z!EndsHour(f, j) <=> /\ Kind(f, j - 1).isDst /\ ~Kind(f, j).isDst
                                   /\ Off(f, j - 1) - Off(f, j) = 3600
<1>1. j # 0 /\ (j = 1 <=> j - 1 = 0)
  OBVIOUS
<1>2. Z!Before(f, j) = Kind(f, j - 1)
  BY <1>1 DEF Z!Before, Kind
<1>3. Z!After(f, j) = Kind(f, j)
  BY <1>1 DEF Z!After, Kind
<1> QED
  BY <1>2, <1>3 DEF Z!Repeats, Z!EndsHour, Instant, Off

(***************************************************************************)
(* A local time that does not come again is taken back to its instant.     *)
(***************************************************************************)
LEMMA OnceBack ==
    ASSUME NEW f \in Z!Files, f.types # <<>>, Z!Spaced(f), NEW d, Has(d, f), NEW t \in Int,
           \A j \in 1..Len(f.changes) : ~Z!Repeats(f, j, t)
    PROVE  Z!fromLocalTime(d, Z!toLocalTime(d, t)) = t
<1> DEFINE n == Len(f.changes)
           m == Z!toLocalTime(d, t)
<1>1. PICK p : Stands(f, p, t, TRUE)
  BY SomeStands
<1>2. n \in Nat /\ p \in 0..n /\ Kind(f, p) \in Kinds /\ Off(f, p) \in Int
  BY <1>1, FileHas, FileNumbers DEF Stands
<1>3. m = Shown(f, p, t)
  BY <1>1, ShowsKind
<1> HIDE DEF m
<1>4. m.seconds = t + Off(f, p) /\ m.isDst = Kind(f, p).isDst
  BY <1>3 DEF Shown
<1>5. Stands(f, p, t + Off(f, p), FALSE)
  <2>1. ASSUME p > 0 PROVE Key(f, p, FALSE) <= t + Off(f, p)
    <3>1. Instant(f, p) <= t /\ Instant(f, p) \in Int
      BY <1>1, <1>2, <2>1, FileNumbers DEF Stands, Key
    <3> QED
      BY <1>2, <3>1 DEF Key
  <2>2. ASSUME p < n PROVE t + Off(f, p) < Key(f, p + 1, FALSE)
    <3>1. p + 1 \in 1..n /\ (p + 1) - 1 = p /\ p + 1 \in Nat \ {0} /\ p + 1 \in 0..n
      BY <1>2, <2>2
    <3>2. t < Instant(f, p + 1) /\ Instant(f, p + 1) \in Int /\ Off(f, p + 1) \in Int
      BY <1>1, <2>2, <3>1, FileNumbers DEF Stands, Key
    <3>3. ~(Instant(f, p + 1) - (Off(f, p) - Off(f, p + 1)) <= t)
      <4>1. ~Z!Repeats(f, p + 1, t)
        BY <3>1
      <4> QED
        BY <3>1, <3>2, <4>1, RepeatsIs
    <3> QED
      BY <1>2, <3>2, <3>3 DEF Key
  <2> QED
    BY <1>2, <2>1, <2>2 DEF Stands
<1>6. Z!findLocaltime(d, m.seconds, FALSE) = Kind(f, p)
  <2>1. t + Off(f, p) \in Int
    BY <1>2
  <2>2. Z!findLocaltime(d, t + Off(f, p), FALSE) = Kind(f, p)
    BY <1>5, <2>1, FindsLocal
  <2> QED
    BY <1>4, <2>2
<1>7. m.seconds - Kind(f, p).gmtOffset = t
  BY <1>2, <1>4 DEF Off
<1>8. Leads(d, m, Kind(f, p), m)
  BY <1>6, <1>7 DEF Leads, m
<1>9. ~Twice(m, m)
  BY DEF Twice
<1>10. Z!fromLocalTime(d, m) = m.seconds - Kind(f, p).gmtOffset
  BY <1>8, <1>9, FromLocalIs
<1> QED
  BY <1>7, <1>10 DEF m

(***************************************************************************)
(* A local time that comes again is taken for the second of its instants,  *)
(* and put back by 3600 seconds where daylight saving time ends.           *)
(***************************************************************************)
LEMMA RepeatedBack ==
    ASSUME NEW f \in Z!Files, f.types # <<>>, Z!Spaced(f), NEW d, Has(d, f), NEW t \in Int,
           NEW j \in 1..Len(f.changes), Z!Repeats(f, j, t)
    PROVE  Z!fromLocalTime(d, Z!toLocalTime(d, t)) = t <=> Z!EndsHour(f, j)
<1> DEFINE n == Len(f.changes)
           m == Z!toLocalTime(d, t)
           a == Off(f, j - 1)
           b == Off(f, j)
           s == t + a
           u == s - b
<1>1. /\ n \in Nat /\ j \in Nat \ {0} /\ j - 1 \in 0..n /\ j \in 0..n
  BY FileHas
<1>2. /\ Instant(f, j) \in Int /\ a \in Int /\ b \in Int
      /\ Kind(f, j - 1) \in Kinds /\ Kind(f, j) \in Kinds
      /\ s \in Int /\ u \in Int
  BY <1>1, FileNumbers
<1>3. Instant(f, j) - (a - b) <= t /\ t < Instant(f, j)
  BY <1>1, RepeatsIs
<1>4. a - b > 0
  BY <1>2, <1>3
<1>5. ASSUME j > 1
      PROVE  Instant(f, j - 1) \in Int /\ Instant(f, j) - Instant(f, j - 1) > a - b
  <2>1. j - 1 \in 1..n /\ j - 1 < j
    BY <1>1, <1>5
  <2> QED
    BY <1>1, <2>1, FileNumbers, SpacedNumbers
<1>6. ASSUME j < n
      PROVE  /\ Instant(f, j + 1) \in Int /\ Off(f, j + 1) \in Int /\ j + 1 \in 1..n
             /\ Instant(f, j + 1) - Instant(f, j) > a - b
             /\ Instant(f, j + 1) - Instant(f, j) > a - Off(f, j + 1)
  <2>1. j + 1 \in 1..n /\ j + 1 \in 0..n /\ j < j + 1
    BY <1>1, <1>6
  <2> QED
    BY <1>1, <2>1, FileNumbers, SpacedNumbers
<1> HIDE DEF a, b, n
<1>7. Stands(f, j - 1, t, TRUE)
  <2>1. ASSUME j - 1 > 0 PROVE Key(f, j - 1, TRUE) <= t
    BY <1>1, <1>2, <1>3, <1>5, <2>1 DEF Key
  <2>2. t < Key(f, (j - 1) + 1, TRUE)
    BY <1>1, <1>3 DEF Key
  <2> QED
    BY <1>1, <2>1, <2>2 DEF Stands, n
<1>8. m = Shown(f, j - 1, t)
  BY <1>7, ShowsKind
<1>9. Stands(f, j, s, FALSE)
  <2>1. Key(f, j, FALSE) <= s
    <3>1. Instant(f, j) + b <= t + a
      BY <1>2, <1>3
    <3> QED
      BY <3>1 DEF Key, b
  <2>2. ASSUME j < n PROVE s < Key(f, j + 1, FALSE)
    <3>1. t + a < Instant(f, j + 1) + Off(f, j + 1)
      BY <1>2, <1>3, <1>6, <2>2
    <3> QED
      BY <3>1 DEF Key
  <2> QED
    BY <1>1, <2>1, <2>2 DEF Stands, n
<1>10. Stands(f, j, u, TRUE)
  <2>1. Key(f, j, TRUE) <= u
    BY <1>2, <1>3 DEF Key
  <2>2. ASSUME j < n PROVE u < Key(f, j + 1, TRUE)
    <3>1. (t + a) - b < Instant(f, j + 1)
      BY <1>2, <1>3, <1>6, <2>2
    <3> QED
      BY <3>1 DEF Key
  <2> QED
    BY <1>1, <2>1, <2>2 DEF Stands, n
<1> DEFINE try == Z!toLocalTime(d, u)
<1>11. try = Shown(f, j, u)
  BY <1>2, <1>10, ShowsKind
<1>12. Z!findLocaltime(d, s, FALSE) = Kind(f, j)
  BY <1>2, <1>9, FindsLocal
<1>13. u + b = s /\ s - b = u
  BY <1>2
<1> HIDE DEF m, try, s, u
<1>14. /\ m.seconds = s /\ m.isDst = Kind(f, j - 1).isDst
       /\ try.seconds = s /\ try.isDst = Kind(f, j).isDst
  BY <1>8, <1>11, <1>13 DEF Shown, a, b, s
<1>15. Leads(d, m, Kind(f, j), try)
  BY <1>12, <1>13, <1>14 DEF Leads, try, b, Off
<1>16. Twice(m, try) <=> Kind(f, j - 1).isDst /\ ~Kind(f, j).isDst
  BY <1>14 DEF Twice
<1>17. Z!fromLocalTime(d, m) = (IF Twice(m, try) THEN s - 3600 ELSE s) - b
  BY <1>14, <1>15, FromLocalIs DEF b, Off
<1>18. Z!EndsHour(f, j) <=> Kind(f, j - 1).isDst /\ ~Kind(f, j).isDst /\ a - b = 3600
  BY <1>1, RepeatsIs DEF a, b
<1>19. s - b # t /\ ((s - 3600) - b = t <=> a - b = 3600)
  <2>1. PICK x \in Int : x = a - b
    BY <1>2
  <2>2. s - b = t + x /\ (s - 3600) - b = (t + x) - 3600 /\ x > 0
    BY <1>2, <1>4, <2>1, SMT DEF s
  <2>3. t + x # t /\ ((t + x) - 3600 = t <=> x = 3600)
    BY <2>2, SMT
  <2> QED
    BY <2>1, <2>2, <2>3, SMT
<1>20. CASE Twice(m, try)
  <2>1. Z!fromLocalTime(d, m) = (s - 3600) - b
    BY <1>17, <1>20
  <2> QED
    BY <1>16, <1>18, <1>19, <1>20, <2>1 DEF m
<1>21. CASE ~Twice(m, try)
  <2>1. Z!fromLocalTime(d, m) = s - b
    BY <1>17, <1>21
  <2> QED
    BY <1>16, <1>18, <1>19, <1>21, <2>1 DEF m
<1> QED
  BY <1>20, <1>21

(* When a file's zone takes a local time back to its instant. *)
LEMMA WholeRoundTrip ==
    ASSUME NEW f \in Z!Files, f.types # <<>>, Z!Spaced(f), NEW d, Has(d, f), NEW t \in Int
    PROVE  Z!fromLocalTime(d, Z!toLocalTime(d, t)) = t <=>
             \A j \in DOMAIN f.changes : Z!Repeats(f, j, t) => Z!EndsHour(f, j)
<1>1. DOMAIN f.changes = 1..Len(f.changes)
  BY FileHas
<1>2. CASE \A j \in 1..Len(f.changes) : ~Z!Repeats(f, j, t)
  BY <1>1, <1>2, OnceBack
<1>3. ASSUME NEW j \in 1..Len(f.changes), Z!Repeats(f, j, t)
      PROVE  Z!fromLocalTime(d, Z!toLocalTime(d, t)) = t <=> Z!EndsHour(f, j)
  BY <1>3, RepeatedBack
<1> QED
  BY <1>1, <1>2, <1>3

(* A zone without changes shows its first kind of local time, always. *)
LEMMA FirstKind ==
    ASSUME NEW d, d.transitions = <<>>, NEW key, NEW gmt
    PROVE  Z!findLocaltime(d, key, gmt) = d.localtimes[1]
  BY DEF Z!findLocaltime

(* It takes every local time back to its instant. *)
LEMMA SingleRoundTrip ==
    ASSUME NEW d, d.transitions = <<>>, NEW k, d.localtimes[1] = k, k.gmtOffset \in Int,
           NEW t \in Int
    PROVE  Z!fromLocalTime(d, Z!toLocalTime(d, t)) = t
<1> DEFINE s == t + k.gmtOffset
           m == Z!toLocalTime(d, t)
<1>2. ASSUME NEW key, NEW gmt PROVE Z!findLocaltime(d, key, gmt) = k
  BY FirstKind
<1>3. m = [seconds |-> s, isDst |-> k.isDst, zone |-> k.arrbIdx]
  <2>1. Z!findLocaltime(d, t, TRUE) = k
    BY <1>2
  <2> QED
    BY <2>1 DEF Z!toLocalTime
<1>4. s - k.gmtOffset = t /\ m = Z!toLocalTime(d, t)
  OBVIOUS
<1> HIDE DEF s, m
<1>5. m.seconds = s
  BY <1>3
<1>6. Z!findLocaltime(d, m.seconds, FALSE) = k
  BY <1>2
<1>7. Leads(d, m, k, m)
  BY <1>4, <1>5, <1>6 DEF Leads
<1>8. ~Twice(m, m)
  BY DEF Twice
<1>9. Z!fromLocalTime(d, m) = s - k.gmtOffset
  BY <1>5, <1>7, <1>8, FromLocalIs
<1> QED
  BY <1>4, <1>9 DEF m

(* The result of readTimeZoneFile(), if it is of use. *)
LEMMA ReadGives ==
    ASSUME NEW f \in Z!Files, NEW d, d = Z!readTimeZoneFile(f), d.localtimes # <<>>
    PROVE  /\ f.types # <<>> /\ d.localtimes[1] \in Kinds
           /\ f.read = Len(f.types) => Has(d, f)
           /\ f.read # Len(f.types) => d.transitions = <<>>
           /\ d.abbreviation = IF f.chars THEN charcnt ELSE 0
<1> DEFINE n == f.read
<1>1. /\ f.types \in Seq(Kinds) /\ Len(f.types) \in Nat /\ n \in Nat /\ n <= Len(f.types)
  BY FileHas DEF WellFormed
<1>2. /\ d.localtimes = SubSeq(f.types, 1, n)
      /\ d.transitions = IF n = Len(f.types) THEN Z!Transitions(f) ELSE <<>>
      /\ d.abbreviation = IF f.chars THEN charcnt ELSE 0
  BY DEF Z!readTimeZoneFile
<1> HIDE DEF n
<1>3. Len(d.localtimes) = n /\ d.localtimes \in Seq(Kinds)
      /\ \A i \in 1..n : d.localtimes[i] = f.types[i]
  BY <1>1, <1>2
<1>4. n > 0 /\ f.types # <<>>
  BY <1>1, <1>3
<1>5. d.localtimes[1] \in Kinds
  BY <1>1, <1>3, <1>4
<1>6. n = Len(f.types) => d.localtimes = f.types
  BY <1>1, <1>3
<1> QED
  BY <1>2, <1>4, <1>5, <1>6 DEF Has, n

(* There are zone files. *)
LEMMA SomeFile == \E f : f \in Z!Files
<1> DEFINE f == [types |-> <<>>, changes |-> <<>>, read |-> 0, chars |-> TRUE, rule |-> FALSE]
<1>1. MaxTypes \in Nat /\ MaxChanges \in Nat
  BY ConversionAssumption DEF ConversionAssumption
<1>2. f.types \in TypeLists
  <2>1. <<>> \in [1..0 -> Kinds] /\ 0 \in 0..MaxTypes
    BY <1>1
  <2> QED
    BY <2>1 DEF TypeLists
<1>3. f.changes \in ChangeLists
  <2>1. <<>> \in [1..0 -> Change] /\ 0 \in 0..MaxChanges
    BY <1>1
  <2> QED
    BY <2>1 DEF ChangeLists
<1>4. WellFormed(f)
  BY DEF WellFormed
<1>5. f \in [types : TypeLists, changes : ChangeLists, read : 0..MaxTypes,
             chars : BOOLEAN, rule : BOOLEAN]
  BY <1>1, <1>2, <1>3
<1> QED
  BY <1>4, <1>5, FilesAre

(* What a zone of a fixed offset holds. *)
East(o) == [gmtOffset |-> o, isDst |-> FALSE, arrbIdx |-> 0]
Fixed(o) == [localtimes |-> <<East(o)>>, transitions |-> <<>>, abbreviation |-> 0]

(***************************************************************************)
(* The inductive invariant of the zones: what data_ holds is what the      *)
(* constructor that ran left there, and tm and back are what the           *)
(* conversions return for it.                                              *)
(***************************************************************************)
ZoneInv ==
    /\ file \in Z!Files /\ time \in Times
    /\ made \in {"default", "file", "offset"}
    /\ made = "default" => data_ = Z!Empty
    /\ made = "file" => data_ = Z!readTimeZoneFile(file)
    /\ made = "offset" => \E o \in EastOfUtc : data_ = Fixed(o)
    /\ tm # <<>> => Z!Usable /\ tm = <<Z!toLocalTime(data_, time)>>
    /\ back # <<>> => tm # <<>> /\ back = <<Z!fromLocalTime(data_, tm[1])>>

(* tm_zone is that of the kind of local time that is found. *)
LEMMA ZoneOf ==
    ASSUME NEW d, NEW t, NEW l, Z!findLocaltime(d, t, TRUE) = l
    PROVE  Z!toLocalTime(d, t).zone = l.arrbIdx
  BY DEF Z!toLocalTime

(* Which kind of local time is shown. *)
LEMMA SomeKind ==
    ASSUME ZoneInv, Z!Usable
    PROVE  \E k : /\ Z!findLocaltime(data_, time, TRUE) = k
                  /\ made = "file" => k \in Kinds
                  /\ made = "offset" => k.arrbIdx = 0
<1>1. time \in Int /\ made \in {"file", "offset"}
  BY ConversionAssumption DEF ZoneInv, ConversionAssumption, Z!Usable, Z!valid
<1>2. CASE made = "offset"
  <2>1. PICK o \in EastOfUtc : data_ = Fixed(o)
    BY <1>2 DEF ZoneInv
  <2>2. data_.transitions = <<>> /\ data_.localtimes[1] = East(o)
    BY <2>1 DEF Fixed
  <2>3. Z!findLocaltime(data_, time, TRUE) = East(o)
    BY <2>2, FirstKind
  <2>4. East(o).arrbIdx = 0
    BY DEF East
  <2> QED
    BY <1>2, <2>3, <2>4
<1>3. CASE made = "file"
  <2>1. /\ file \in Z!Files /\ data_ = Z!readTimeZoneFile(file) /\ data_.localtimes # <<>>
    BY <1>3 DEF ZoneInv, Z!Usable
  <2>2. CASE file.read # Len(file.types)
    BY <1>3, <2>1, <2>2, ReadGives, FirstKind
  <2>3. CASE file.read = Len(file.types)
    <3>1. file.types # <<>> /\ Has(data_, file)
      BY <2>1, <2>3, ReadGives
    <3>2. PICK p : Stands(file, p, time, TRUE)
      BY <1>1, <2>1, <3>1, SomeStands
    <3>3. \A i, j \in 1..Len(file.changes) : i < j => Key(file, i, TRUE) < Key(file, j, TRUE)
      BY <2>1, <3>1, FileNumbers DEF Key
    <3>4. Z!findLocaltime(data_, time, TRUE) = Kind(file, p)
      BY <1>1, <2>1, <3>1, <3>2, <3>3, FindsKind
    <3>5. Kind(file, p) \in Kinds
      BY <2>1, <3>1, <3>2, FileNumbers DEF Stands
    <3> QED
      BY <1>3, <3>4, <3>5
  <2> QED
    BY <2>2, <2>3
<1> QED
  BY <1>1, <1>2, <1>3

(* The invariant says that the zones are right. *)
LEMMA ZoneInvRight == ASSUME ZoneInv PROVE ZoneRight
<1>0. time \in Int /\ file \in Z!Files
  BY ConversionAssumption DEF ZoneInv, ConversionAssumption
<1>1. Z!LocalRight
  <2> SUFFICES ASSUME Z!Read, tm # <<>>, Z!Told(file, time)
               PROVE  /\ tm[1].seconds = time + Z!InForce(file, time).gmtOffset
                      /\ tm[1].isDst = Z!InForce(file, time).isDst
    BY DEF Z!LocalRight
  <2>1. tm[1] = Z!toLocalTime(data_, time) /\ data_.localtimes # <<>>
    BY DEF ZoneInv, Z!Usable
  <2>2. data_ = Z!readTimeZoneFile(file) /\ file.read = Len(file.types)
    BY DEF ZoneInv, Z!Read
  <2>3. file.types # <<>> /\ Has(data_, file)
    BY <1>0, <2>1, <2>2, ReadGives
  <2>4. PICK p : Stands(file, p, time, TRUE)
    BY <1>0, <2>3, SomeStands
  <2>5. Z!InForce(file, time) = Kind(file, p)
    BY <1>0, <2>3, <2>4, InForceIs
  <2>6. tm[1] = Shown(file, p, time)
    BY <1>0, <2>1, <2>3, <2>4, ShowsKind
  <2> QED
    BY <2>5, <2>6 DEF Shown, Off
<1>2. Z!RoundTrip
  <2> SUFFICES ASSUME back # <<>>, Z!Spaced(file)
               PROVE  back[1] = time <=>
                        (Z!Read => \A i \in DOMAIN file.changes :
                                     Z!Repeats(file, i, time) => Z!EndsHour(file, i))
    BY DEF Z!RoundTrip
  <2>1. /\ Z!Usable /\ data_.localtimes # <<>> /\ made \in {"file", "offset"}
        /\ back[1] = Z!fromLocalTime(data_, Z!toLocalTime(data_, time))
    BY DEF ZoneInv, Z!Usable, Z!valid
  <2>2. CASE Z!Read
    <3>1. data_ = Z!readTimeZoneFile(file) /\ file.read = Len(file.types)
      BY <2>2 DEF ZoneInv, Z!Read
    <3>2. file.types # <<>> /\ Has(data_, file)
      BY <1>0, <2>1, <3>1, ReadGives
    <3> QED
      BY <1>0, <2>1, <2>2, <3>2, WholeRoundTrip
  <2>3. CASE ~Z!Read
    <3>1. CASE made = "file"
      <4>1. data_ = Z!readTimeZoneFile(file) /\ file.read # Len(file.types)
        BY <2>3, <3>1 DEF ZoneInv, Z!Read
      <4>2. data_.transitions = <<>> /\ data_.localtimes[1] \in Kinds
        BY <1>0, <2>1, <4>1, ReadGives
      <4>3. data_.localtimes[1].gmtOffset \in Int
        BY <4>2, KindHas
      <4> QED
        BY <1>0, <2>1, <2>3, <4>2, <4>3, SingleRoundTrip
    <3>2. CASE made = "offset"
      <4>1. PICK o \in EastOfUtc : data_ = Fixed(o)
        BY <3>2 DEF ZoneInv
      <4>2. data_.transitions = <<>> /\ data_.localtimes[1] = East(o)
        BY <4>1 DEF Fixed
      <4>3. East(o).gmtOffset \in Int
        BY ConversionAssumption DEF East, ConversionAssumption
      <4> QED
        BY <1>0, <2>1, <2>3, <4>2, <4>3, SingleRoundTrip
    <3> QED
      BY <2>1, <3>1, <3>2
  <2> QED
    BY <2>2, <2>3
<1>3. Z!ZoneNamed
  <2> SUFFICES ASSUME tm # <<>>
               PROVE  tm[1].zone > data_.abbreviation <=>
                        made = "file" /\ ~file.chars /\ tm[1].zone > 0
    BY DEF Z!ZoneNamed
  <2>1. /\ Z!Usable /\ data_.localtimes # <<>> /\ made \in {"file", "offset"}
        /\ tm[1] = Z!toLocalTime(data_, time)
    BY DEF ZoneInv, Z!Usable, Z!valid
  <2>2. PICK k : /\ Z!findLocaltime(data_, time, TRUE) = k
                 /\ made = "file" => k \in Kinds
                 /\ made = "offset" => k.arrbIdx = 0
    BY <2>1, SomeKind
  <2>3. tm[1].zone = k.arrbIdx
    BY <2>1, <2>2, ZoneOf
  <2>4. CASE made = "offset"
    <3>1. data_.abbreviation = 0
      BY <2>4 DEF ZoneInv, Fixed
    <3> QED
      BY <2>2, <2>3, <2>4, <3>1
  <2>5. CASE made = "file"
    <3>1. data_.abbreviation = (IF file.chars THEN charcnt ELSE 0) /\ file.chars \in BOOLEAN
      BY <1>0, <2>1, <2>5, ReadGives, FileHas DEF ZoneInv
    <3>2. k.arrbIdx \in Nat /\ k.arrbIdx < charcnt /\ charcnt \in Nat
      BY <2>2, <2>5, KindHas, ConversionAssumption DEF ConversionAssumption
    <3>3. CASE file.chars
      BY <2>3, <3>1, <3>2, <3>3
    <3>4. CASE ~file.chars
      BY <2>3, <2>5, <3>1, <3>2, <3>4
    <3> QED
      BY <3>3, <3>4
  <2> QED
    BY <2>1, <2>4, <2>5
<1> QED
  BY <1>1, <1>2, <1>3 DEF ZoneRight, LocalRight, RoundTrip, ZoneNamed

(* The zones begin so, and rest so where something else is looked at. *)
LEMMA ZoneStart == InitAll => ZoneInv
<1>1. Z!Init => ZoneInv
  BY DEF Z!Init, ZoneInv
<1>2. ZoneRests => ZoneInv
  <2> SUFFICES ASSUME ZoneRests PROVE ZoneInv
    OBVIOUS
  <2>1. file \in Z!Files
    BY SomeFile DEF ZoneRests
  <2>2. time \in Times
    BY ConversionAssumption DEF ZoneRests, ConversionAssumption
  <2> QED
    BY <2>1, <2>2 DEF ZoneRests, ZoneInv
<1> QED
  BY <1>1, <1>2 DEF InitAll

(* Every step keeps the invariant of the zones. *)
LEMMA ZoneKept == ZoneInv /\ [NextAll]_allVars => ZoneInv'
<1> SUFFICES ASSUME ZoneInv, [NextAll]_allVars PROVE ZoneInv'
  OBVIOUS
<1>1. CASE UNCHANGED zoneVars
  BY <1>1 DEF zoneVars, ZoneInv, Z!Usable, Z!valid
<1>2. CASE Z!FromFile
  BY <1>2 DEF Z!FromFile, ZoneInv, Z!Usable, Z!valid
<1>3. ASSUME NEW o \in EastOfUtc, Z!FromOffset(o) PROVE ZoneInv'
  <2>1. data_' = Fixed(o)
    BY <1>3 DEF Z!FromOffset, Fixed, East, Z!Empty
  <2> QED
    BY <1>3, <2>1 DEF Z!FromOffset, ZoneInv, Z!Usable, Z!valid
<1>4. CASE Z!ToLocal
  BY <1>4 DEF Z!ToLocal, ZoneInv, Z!Usable, Z!valid
<1>5. CASE Z!FromLocal
  BY <1>5 DEF Z!FromLocal, ZoneInv, Z!Usable, Z!valid
<1> QED
  BY <1>1, <1>2, <1>3, <1>4, <1>5 DEF NextAll, NextDate, NextZone, NextNumber, NextPiece, Z!Next, allVars

(***************************************************************************)
(* For every kinds of local time, changes and instants, and for a well     *)
(* formed file that ends anywhere: toLocalTime() uses the offset in force, *)
(* where the code does not leave it open; fromLocalTime() goes back to the *)
(* instant, except exactly before a change that sets the clock back and    *)
(* does not end one hour of daylight saving; and tm_zone points to a name, *)
(* except exactly when the names could not be read.                        *)
(***************************************************************************)
THEOREM ZonesRight == SpecAll => []ZoneRight
<1>1. InitAll => ZoneInv
  BY ZoneStart
<1>2. ZoneInv /\ [NextAll]_allVars => ZoneInv'
  BY ZoneKept
<1>3. ZoneInv => ZoneRight
  BY ZoneInvRight
<1> QED
  BY <1>1, <1>2, <1>3, PTL DEF SpecAll

-----------------------------------------------------------------------------
(* Pieces of text. *)

(* Min() and Max() of StringPiece. *)
LEMMA PieceLeastIs ==
    ASSUME NEW S \in SUBSET Nat, NEW x \in S, \A y \in S : x =< y
    PROVE  P!Min(S) = x
<1>1. \A y \in S : (\A z \in S : y =< z) => y = x
  OBVIOUS
<1> QED
  BY <1>1 DEF P!Min

(* The greatest one. *)
LEMMA PieceGreatestIs ==
    ASSUME NEW S \in SUBSET Nat, NEW x \in S, \A y \in S : x >= y
    PROVE  P!Max(S) = x
<1>1. \A y \in S : (\A z \in S : y >= z) => y = x
  OBVIOUS
<1> QED
  BY <1>1 DEF P!Max

(* A StringPiece that points to length_ characters of its memory. *)
Piece(p) ==
    /\ p.memory \in Seq(Nat) /\ p.ptr_ \in Nat /\ p.length_ \in Nat
    /\ p.ptr_ + p.length_ =< Len(p.memory)

(* Two pieces have the same n first characters; the first difference is at *)
(* n, and p has the smaller character there.                               *)
Agree(p, q, n) == \A i \in 0..(n - 1) : P!Char(p, i) = P!Char(q, i)
Below(p, q, n) == Agree(p, q, n) /\ P!Char(p, n) < P!Char(q, n)

(* The characters of a piece. *)
LEMMA CharsOf ==
    ASSUME NEW p, Piece(p)
    PROVE  /\ \A i \in 0..(p.length_ - 1) : P!Char(p, i) \in Nat
           /\ P!as_string(p) \in Seq(Nat) /\ Len(P!as_string(p)) = p.length_
           /\ \A i \in 1..p.length_ : P!as_string(p)[i] = P!Char(p, i - 1)
<1>1. ASSUME NEW i \in 0..(p.length_ - 1) PROVE P!Char(p, i) \in Nat
  <2>1. p.ptr_ + i + 1 \in 1..Len(p.memory)
    BY SMTT(30) DEF Piece
  <2> QED
    BY <2>1, SMTT(30) DEF Piece, P!Char
<1>2. p.length_ \in Nat
  BY DEF Piece
<1>3. ASSUME NEW i \in 1..p.length_ PROVE i - 1 \in 0..(p.length_ - 1)
  BY <1>2
<1>4. P!as_string(p) \in [1..p.length_ -> Nat]
  BY <1>1, <1>3 DEF P!as_string
<1> QED
  BY <1>1, <1>2, <1>4 DEF P!as_string

(* One character of a piece. *)
LEMMA CharOf ==
    ASSUME NEW p, Piece(p), NEW i \in Nat, i < p.length_
    PROVE  P!Char(p, i) \in Nat
<1>1. i \in 0..(p.length_ - 1)
  BY DEF Piece
<1> QED
  BY <1>1, CharsOf

(* memcmp() finds the first difference. *)
LEMMA MemcmpIs ==
    ASSUME NEW p, NEW q, Piece(p), Piece(q),
           NEW n \in Nat, n =< p.length_, n =< q.length_
    PROVE  \/ /\ P!memcmp(p, q, n) = 0 /\ P!memcmp(q, p, n) = 0
              /\ Agree(p, q, n) /\ Agree(q, p, n)
           \/ /\ P!memcmp(p, q, n) = -1 /\ P!memcmp(q, p, n) = 1
              /\ \E i \in 0..(n - 1) : Below(p, q, i)
           \/ /\ P!memcmp(p, q, n) = 1 /\ P!memcmp(q, p, n) = -1
              /\ \E i \in 0..(n - 1) : Below(q, p, i)
<1> DEFINE differ == {i \in 0..(n - 1) : P!Char(p, i) # P!Char(q, i)}
           other1 == {i \in 0..(n - 1) : P!Char(q, i) # P!Char(p, i)}
           first == P!Min(differ)
<1>1. differ = other1 /\ differ \in SUBSET Nat
  OBVIOUS
<1>2. ASSUME NEW i \in 0..(n - 1) PROVE P!Char(p, i) \in Nat /\ P!Char(q, i) \in Nat
  <2>1. i \in Nat /\ i < p.length_ /\ i < q.length_
    BY SMTT(30) DEF Piece
  <2> QED
    BY <2>1, CharOf
<1>3. /\ P!memcmp(p, q, n) = CASE differ = {} -> 0
             [] differ # {} /\ P!Char(p, first) < P!Char(q, first) -> -1
             [] differ # {} /\ P!Char(p, first) > P!Char(q, first) -> 1
      /\ P!memcmp(q, p, n) = CASE differ = {} -> 0
             [] differ # {} /\ P!Char(q, first) < P!Char(p, first) -> -1
             [] differ # {} /\ P!Char(q, first) > P!Char(p, first) -> 1
  BY <1>1, Zenon DEF P!memcmp
<1>4. CASE differ = {}
  <2>1. Agree(p, q, n) /\ Agree(q, p, n)
    BY <1>4 DEF Agree
  <2> HIDE DEF differ, first
  <2> QED
    BY <1>3, <1>4, <2>1
<1>5. CASE differ # {}
  <2>1. PICK x \in differ : \A y \in differ : x =< y
    BY <1>1, <1>5, LeastOf
  <2>2. first = x /\ x \in Nat
    BY <1>1, <2>1, PieceLeastIs
  <2>3. x \in 0..(n - 1) /\ P!Char(p, x) # P!Char(q, x)
    BY <2>1
  <2>4. Agree(p, q, x) /\ Agree(q, p, x)
    BY <2>1, <2>2, <2>3 DEF Agree
  <2>5. P!Char(p, x) \in Nat /\ P!Char(q, x) \in Nat
    BY <1>2, <2>3
  <2> HIDE DEF differ, first
  <2>6. CASE P!Char(p, x) < P!Char(q, x)
    BY <1>3, <1>5, <2>2, <2>3, <2>4, <2>5, <2>6 DEF Below
  <2>7. CASE P!Char(p, x) > P!Char(q, x)
    BY <1>3, <1>5, <2>2, <2>3, <2>4, <2>5, <2>7 DEF Below
  <2> QED
    BY <2>3, <2>5, <2>6, <2>7
<1> QED
  BY <1>4, <1>5

(* Where pieces differ they do not agree, and the first difference is one. *)
LEMMA OneDifference ==
    ASSUME NEW p, NEW q, Piece(p), Piece(q), NEW i \in Nat,
           i < p.length_, i < q.length_, Below(p, q, i)
    PROVE  /\ \A n \in Nat : n > i => ~Agree(p, q, n) /\ ~Agree(q, p, n)
           /\ \A j \in Nat : j < p.length_ /\ j < q.length_ => ~Below(q, p, j)
<1>1. P!Char(p, i) \in Nat /\ P!Char(q, i) \in Nat /\ P!Char(p, i) < P!Char(q, i) /\ Agree(p, q, i)
  BY CharOf DEF Below
<1>2. ASSUME NEW n \in Nat, n > i PROVE ~Agree(p, q, n) /\ ~Agree(q, p, n)
  BY <1>1, <1>2 DEF Agree
<1>3. ASSUME NEW j \in Nat, j < p.length_, j < q.length_, Below(q, p, j) PROVE FALSE
  <2>1. Agree(q, p, j) /\ P!Char(q, j) < P!Char(p, j) /\ P!Char(q, j) \in Nat /\ P!Char(p, j) \in Nat
    BY <1>3, CharOf DEF Below
  <2>2. CASE j = i
    BY <1>1, <2>1, <2>2
  <2>3. CASE j > i
    BY <1>2, <2>1, <2>3
  <2>4. CASE j < i
    BY <1>1, <2>1, <2>4 DEF Agree
  <2> QED
    BY <2>2, <2>3, <2>4
<1> QED
  BY <1>2, <1>3
(* Two pieces stand for the same text. *)
LEMMA SameText ==
    ASSUME NEW p, NEW q, Piece(p), Piece(q)
    PROVE  P!as_string(p) = P!as_string(q) <=> p.length_ = q.length_ /\ Agree(p, q, p.length_)
<1> DEFINE s == P!as_string(p)
           t == P!as_string(q)
           l == p.length_
<1>1. /\ l \in Nat
      /\ s \in Seq(Nat) /\ Len(s) = p.length_ /\ \A i \in 1..p.length_ : s[i] = P!Char(p, i - 1)
      /\ t \in Seq(Nat) /\ Len(t) = q.length_ /\ \A i \in 1..q.length_ : t[i] = P!Char(q, i - 1)
  BY CharsOf DEF Piece
<1> HIDE DEF s, t
<1>2. ASSUME s = t PROVE l = q.length_ /\ Agree(p, q, l)
  <2>1. l = q.length_
    BY <1>1, <1>2
  <2>2. ASSUME NEW i \in 0..(l - 1) PROVE P!Char(p, i) = P!Char(q, i)
    <3>1. i + 1 \in 1..l /\ (i + 1) - 1 = i
      BY <1>1
    <3> QED
      BY <1>1, <1>2, <2>1, <3>1
  <2> QED
    BY <2>1, <2>2 DEF Agree
<1>3. ASSUME l = q.length_, Agree(p, q, l) PROVE s = t
  <2>1. ASSUME NEW i \in 1..l PROVE s[i] = t[i]
    <3>1. i - 1 \in 0..(l - 1)
      BY <1>1
    <3> QED
      BY <1>1, <1>3, <3>1 DEF Agree
  <2> QED
    BY <1>1, <1>3, <2>1, SeqEqual
<1> QED
  BY <1>2, <1>3 DEF s, t

(* The n first characters of a text. *)
LEMMA PrefixIs ==
    ASSUME NEW s \in Seq(Nat), NEW n \in Nat, n =< Len(s)
    PROVE  /\ SubSeq(s, 1, n) \in Seq(Nat) /\ Len(SubSeq(s, 1, n)) = n
           /\ \A i \in 1..n : SubSeq(s, 1, n)[i] = s[i]
<1>1. \A i \in 1..n : s[i] \in Nat
  OBVIOUS
<1> QED
  BY <1>1, SubSeqProperties

(* Two pieces stand for texts with the same n first characters. *)
LEMMA SamePrefix ==
    ASSUME NEW p, NEW q, Piece(p), Piece(q), NEW n \in Nat, n =< p.length_, n =< q.length_
    PROVE  SubSeq(P!as_string(p), 1, n) = SubSeq(P!as_string(q), 1, n) <=> Agree(p, q, n)
<1> DEFINE s == P!as_string(p)
           t == P!as_string(q)
           u == SubSeq(s, 1, n)
           v == SubSeq(t, 1, n)
<1>1. /\ s \in Seq(Nat) /\ Len(s) = p.length_ /\ \A i \in 1..p.length_ : s[i] = P!Char(p, i - 1)
      /\ t \in Seq(Nat) /\ Len(t) = q.length_ /\ \A i \in 1..q.length_ : t[i] = P!Char(q, i - 1)
      /\ p.length_ \in Nat /\ q.length_ \in Nat
  BY CharsOf DEF Piece
<1> HIDE DEF s, t
<1>2. /\ u \in Seq(Nat) /\ Len(u) = n /\ \A i \in 1..n : u[i] = s[i]
      /\ v \in Seq(Nat) /\ Len(v) = n /\ \A i \in 1..n : v[i] = t[i]
  BY <1>1, PrefixIs
<1> HIDE DEF u, v
<1>3. ASSUME NEW i \in 1..n PROVE u[i] = P!Char(p, i - 1) /\ v[i] = P!Char(q, i - 1)
  <2>1. i \in 1..p.length_ /\ i \in 1..q.length_
    BY <1>1
  <2> QED
    BY <1>1, <1>2, <2>1
<1>4. ASSUME u = v PROVE Agree(p, q, n)
  <2>1. ASSUME NEW i \in 0..(n - 1) PROVE P!Char(p, i) = P!Char(q, i)
    <3>1. i + 1 \in 1..n /\ (i + 1) - 1 = i
      OBVIOUS
    <3> QED
      BY <1>3, <1>4, <3>1
  <2> QED
    BY <2>1 DEF Agree
<1>5. ASSUME Agree(p, q, n) PROVE u = v
  <2>1. ASSUME NEW i \in 1..n PROVE u[i] = v[i]
    <3>1. i - 1 \in 0..(n - 1)
      OBVIOUS
    <3> QED
      BY <1>3, <1>5, <3>1 DEF Agree
  <2> QED
    BY <1>2, <2>1, SeqEqual
<1> QED
  BY <1>4, <1>5 DEF s, t, u, v

(* One text precedes another, by the characters of the pieces. *)
LEMMA PrecedesIs ==
    ASSUME NEW p, NEW q, Piece(p), Piece(q)
    PROVE  P!Precedes(P!as_string(p), P!as_string(q)) <=>
             \/ Agree(p, q, p.length_) /\ p.length_ < q.length_
             \/ \E i \in Nat : i < p.length_ /\ i < q.length_ /\ Below(p, q, i)
<1> DEFINE s == P!as_string(p)
           t == P!as_string(q)
           Starts(n) == SubSeq(s, 1, n) = SubSeq(t, 1, n)
<1>1. /\ s \in Seq(Nat) /\ Len(s) = p.length_ /\ \A i \in 1..p.length_ : s[i] = P!Char(p, i - 1)
      /\ t \in Seq(Nat) /\ Len(t) = q.length_ /\ \A i \in 1..q.length_ : t[i] = P!Char(q, i - 1)
      /\ p.length_ \in Nat /\ q.length_ \in Nat
  BY CharsOf DEF Piece
<1>2. ASSUME NEW n \in Nat, n =< p.length_, n =< q.length_ PROVE Starts(n) <=> Agree(p, q, n)
  BY <1>2, SamePrefix
<1>3. ASSUME NEW n \in Nat, n < p.length_, n < q.length_
      PROVE  s[n + 1] < t[n + 1] <=> P!Char(p, n) < P!Char(q, n)
  <2>1. n + 1 \in 1..p.length_ /\ n + 1 \in 1..q.length_ /\ (n + 1) - 1 = n
    BY <1>1, <1>3
  <2>2. s[n + 1] = P!Char(p, n) /\ t[n + 1] = P!Char(q, n)
    BY <1>1, <2>1
  <2> QED
    BY <2>2
<1> HIDE DEF s, t
<1>4. P!Precedes(s, t) <=> \E n \in 0..Len(s) : /\ n <= Len(t) /\ Starts(n) /\ n < Len(t)
                                                /\ n = Len(s) \/ s[n + 1] < t[n + 1]
  BY DEF P!Precedes
<1> HIDE DEF s, t, Starts
<1>5. ASSUME P!Precedes(s, t)
      PROVE  \/ Agree(p, q, p.length_) /\ p.length_ < q.length_
             \/ \E i \in Nat : i < p.length_ /\ i < q.length_ /\ Below(p, q, i)
  <2>1. PICK n \in 0..p.length_ : n < q.length_ /\ Starts(n) /\ (n = p.length_ \/ s[n + 1] < t[n + 1])
    BY <1>1, <1>4, <1>5
  <2>2. n \in Nat /\ n =< p.length_ /\ n =< q.length_
    BY <1>1, <2>1
  <2>3. Agree(p, q, n)
    BY <1>2, <2>1, <2>2
  <2>4. CASE n = p.length_
    BY <2>1, <2>3, <2>4
  <2>5. CASE n # p.length_
    <3>1. n < p.length_ /\ s[n + 1] < t[n + 1]
      BY <1>1, <2>1, <2>2, <2>5
    <3>2. P!Char(p, n) < P!Char(q, n)
      BY <1>3, <2>1, <2>2, <3>1
    <3> QED
      BY <2>1, <2>2, <2>3, <3>1, <3>2 DEF Below
  <2> QED
    BY <2>4, <2>5
<1>6. ASSUME Agree(p, q, p.length_), p.length_ < q.length_ PROVE P!Precedes(s, t)
  <2>1. p.length_ \in 0..Len(s) /\ p.length_ =< p.length_ /\ p.length_ =< q.length_
    BY <1>1, <1>6
  <2>2. Starts(p.length_)
    BY <1>1, <1>2, <1>6, <2>1
  <2> QED
    BY <1>1, <1>4, <1>6, <2>1, <2>2
<1>7. ASSUME NEW i \in Nat, i < p.length_, i < q.length_, Below(p, q, i) PROVE P!Precedes(s, t)
  <2>1. i \in 0..Len(s) /\ i =< p.length_ /\ i =< q.length_
    BY <1>1, <1>7
  <2>2. Starts(i) /\ s[i + 1] < t[i + 1]
    BY <1>2, <1>3, <1>7, <2>1 DEF Below
  <2> QED
    BY <1>1, <1>4, <1>7, <2>1, <2>2
<1> QED
  BY <1>5, <1>6, <1>7 DEF s, t
(* The sign memcmp() gives for what two pieces have in common. *)
Sign(p, q) == P!memcmp(p, q, P!Common(p, q))

(* The signs of a comparison and of the opposite one. *)
Opposite(r, q) == (r = 0 /\ q = 0) \/ (r = -1 /\ q = 1) \/ (r = 1 /\ q = -1)

(* The sign and the lengths say how the texts are ordered. *)
LEMMA SignIs ==
    ASSUME NEW p, NEW q, Piece(p), Piece(q)
    PROVE  /\ Opposite(Sign(p, q), Sign(q, p))
           /\ P!Precedes(P!as_string(p), P!as_string(q)) <=>
                Sign(p, q) = -1 \/ (Sign(p, q) = 0 /\ p.length_ < q.length_)
           /\ P!as_string(p) = P!as_string(q) <=> Sign(p, q) = 0 /\ p.length_ = q.length_
<1> DEFINE c == P!Common(p, q)
           Goes == P!Precedes(P!as_string(p), P!as_string(q))
           Same == P!as_string(p) = P!as_string(q)
<1>1. /\ c \in Nat /\ c =< p.length_ /\ c =< q.length_ /\ (c = p.length_ \/ c = q.length_)
      /\ P!Common(q, p) = c /\ p.length_ \in Nat /\ q.length_ \in Nat
  BY DEF P!Common, Piece
<1>2. Sign(p, q) = P!memcmp(p, q, c) /\ Sign(q, p) = P!memcmp(q, p, c)
  BY <1>1 DEF Sign
<1>3. Goes <=> \/ Agree(p, q, p.length_) /\ p.length_ < q.length_
               \/ \E i \in Nat : i < p.length_ /\ i < q.length_ /\ Below(p, q, i)
  BY PrecedesIs
<1>4. Same <=> p.length_ = q.length_ /\ Agree(p, q, p.length_)
  BY SameText
<1> HIDE DEF c, Goes, Same
<1>5. \A i \in Nat : (i < p.length_ /\ i < q.length_) <=> i < c
  BY <1>1
<1>6. CASE Sign(p, q) = 0 /\ Sign(q, p) = 0 /\ Agree(p, q, c) /\ Agree(q, p, c)
  <2>1. ASSUME NEW i \in Nat, i < c PROVE ~Below(p, q, i)
    BY <1>1, <1>5, <1>6, <2>1, OneDifference
  <2>2. Goes <=> p.length_ < q.length_
    <3>1. p.length_ < q.length_ => c = p.length_
      BY <1>1
    <3> QED
      BY <1>3, <1>5, <1>6, <2>1, <3>1
  <2>3. Same <=> p.length_ = q.length_
    <3>1. p.length_ = q.length_ => c = p.length_
      BY <1>1
    <3> QED
      BY <1>4, <1>6, <3>1
  <2>6. Opposite(Sign(p, q), Sign(q, p))
    BY <1>6 DEF Opposite
  <2>7. /\ Goes <=> Sign(p, q) = -1 \/ (Sign(p, q) = 0 /\ p.length_ < q.length_)
        /\ Same <=> Sign(p, q) = 0 /\ p.length_ = q.length_
    BY <1>6, <2>2, <2>3
  <2> QED
    BY <2>6, <2>7, Zenon DEF Goes, Same
<1>7. CASE /\ Sign(p, q) = -1 /\ Sign(q, p) = 1
           /\ \E i \in 0..(c - 1) : Below(p, q, i)
  <2>1. PICK i \in 0..(c - 1) : Below(p, q, i)
    BY <1>7
  <2>2. i \in Nat /\ i < c /\ i < p.length_ /\ i < q.length_
    BY <1>1, <2>1
  <2>3. Goes
    BY <1>3, <2>1, <2>2
  <2>4. ~Agree(p, q, p.length_)
    BY <1>1, <2>1, <2>2, OneDifference
  <2>5. ~Same
    BY <1>4, <2>4
  <2>6. Opposite(Sign(p, q), Sign(q, p))
    BY <1>7 DEF Opposite
  <2>7. /\ Goes <=> Sign(p, q) = -1 \/ (Sign(p, q) = 0 /\ p.length_ < q.length_)
        /\ Same <=> Sign(p, q) = 0 /\ p.length_ = q.length_
    BY <1>7, <2>3, <2>5
  <2> QED
    BY <2>6, <2>7, Zenon DEF Goes, Same
<1>8. CASE /\ Sign(p, q) = 1 /\ Sign(q, p) = -1
           /\ \E i \in 0..(c - 1) : Below(q, p, i)
  <2>1. PICK i \in 0..(c - 1) : Below(q, p, i)
    BY <1>8
  <2>2. i \in Nat /\ i < c /\ i < p.length_ /\ i < q.length_
    BY <1>1, <2>1
  <2>3. ~Agree(p, q, p.length_) /\ \A j \in Nat : j < p.length_ /\ j < q.length_ => ~Below(p, q, j)
    BY <1>1, <2>1, <2>2, OneDifference
  <2>4. ~Goes /\ ~Same
    BY <1>3, <1>4, <2>3
  <2> QED
    BY <1>8, <2>4 DEF Goes, Same, Opposite
<1> QED
  BY <1>1, <1>2, <1>6, <1>7, <1>8, MemcmpIs

(* starts_with() is right about every prefix. *)
LEMMA StartsWithIs ==
    ASSUME NEW p, NEW q, Piece(p), Piece(q)
    PROVE  P!starts_with(p, q) <=>
             \E n \in 0..Len(P!as_string(p)) : SubSeq(P!as_string(p), 1, n) = P!as_string(q)
<1> DEFINE s == P!as_string(p)
           t == P!as_string(q)
<1>1. /\ s \in Seq(Nat) /\ Len(s) = p.length_ /\ t \in Seq(Nat) /\ Len(t) = q.length_
      /\ p.length_ \in Nat /\ q.length_ \in Nat
  BY CharsOf DEF Piece
<1>2. ASSUME NEW n \in Nat, n =< p.length_, n =< q.length_
      PROVE  SubSeq(s, 1, n) = SubSeq(t, 1, n) <=> Agree(p, q, n)
  BY <1>2, SamePrefix
<1> HIDE DEF s, t
<1>3. SubSeq(t, 1, q.length_) = t
  <2>1. q.length_ =< Len(t)
    BY <1>1
  <2>2. /\ SubSeq(t, 1, q.length_) \in Seq(Nat) /\ Len(SubSeq(t, 1, q.length_)) = q.length_
        /\ \A i \in 1..q.length_ : SubSeq(t, 1, q.length_)[i] = t[i]
    BY <1>1, <2>1, PrefixIs
  <2> QED
    BY <1>1, <2>2, SeqEqual
<1>4. P!starts_with(p, q) <=> p.length_ >= q.length_ /\ Agree(p, q, q.length_)
  <2>1. CASE p.length_ >= q.length_
    <3>1. q.length_ =< p.length_ /\ q.length_ =< q.length_
      BY <1>1, <2>1
    <3>2. P!memcmp(p, q, q.length_) = 0 => Agree(p, q, q.length_)
      BY <1>1, <3>1, MemcmpIs
    <3>3. ASSUME Agree(p, q, q.length_) PROVE P!memcmp(p, q, q.length_) = 0
      <4>1. ASSUME NEW i \in 0..(q.length_ - 1) PROVE ~Below(p, q, i) /\ ~Below(q, p, i)
        <5>1. i \in Nat /\ i < q.length_ /\ i < p.length_ /\ q.length_ > i
          BY <1>1, <2>1
        <5> QED
          BY <1>1, <3>3, <5>1, OneDifference
      <4> QED
        BY <1>1, <3>1, <4>1, MemcmpIs
    <3> QED
      BY <2>1, <3>2, <3>3 DEF P!starts_with
  <2> QED
    BY <2>1 DEF P!starts_with
<1>5. ASSUME p.length_ >= q.length_, Agree(p, q, q.length_)
      PROVE  \E n \in 0..Len(s) : SubSeq(s, 1, n) = t
  <2>1. q.length_ \in 0..Len(s) /\ q.length_ =< p.length_ /\ q.length_ =< q.length_
    BY <1>1, <1>5
  <2> QED
    BY <1>1, <1>2, <1>3, <1>5, <2>1
<1>6. ASSUME NEW n \in 0..Len(s), SubSeq(s, 1, n) = t
      PROVE  p.length_ >= q.length_ /\ Agree(p, q, q.length_)
  <2>1. n \in Nat /\ n =< Len(s) /\ n =< p.length_
    BY <1>1
  <2>2. Len(SubSeq(s, 1, n)) = n
    BY <1>1, <2>1, PrefixIs
  <2>3. n = q.length_ /\ n =< q.length_
    BY <1>1, <1>6, <2>1, <2>2
  <2> QED
    BY <1>1, <1>2, <1>3, <1>6, <2>1, <2>3
<1> QED
  BY <1>4, <1>5, <1>6 DEF s, t
(* The operators and compare() of two pieces are the order of their texts. *)
LEMMA OrderIs ==
    ASSUME Piece(piece), Piece(other) PROVE P!OrderRight
<1> DEFINE s == P!as_string(piece)
           t == P!as_string(other)
           r == Sign(piece, other)
           q == Sign(other, piece)
           m == piece.length_
           n == other.length_
<1>1. /\ Opposite(r, q) /\ m \in Nat /\ n \in Nat
      /\ P!Precedes(s, t) <=> r = -1 \/ (r = 0 /\ m < n)
      /\ P!Precedes(t, s) <=> q = -1 \/ (q = 0 /\ n < m)
      /\ s = t <=> r = 0 /\ m = n
  BY SignIs DEF Piece
<1>2. P!equals(piece, other) <=> s = t
  <2>1. m = n => P!Common(piece, other) = m
    BY DEF P!Common
  <2>2. m = n => r = P!memcmp(piece, other, m)
    BY <2>1 DEF Sign
  <2> HIDE DEF r
  <2> QED
    BY <1>1, <2>2 DEF P!equals
<1>3. /\ P!less(piece, other) <=> r < 0 \/ (r = 0 /\ m < n)
      /\ P!less(other, piece) <=> q < 0 \/ (q = 0 /\ n < m)
      /\ P!lessOrEqual(piece, other) <=> r < 0 \/ (r = 0 /\ m <= n)
      /\ P!lessOrEqual(other, piece) <=> q < 0 \/ (q = 0 /\ n <= m)
  BY DEF P!less, P!lessOrEqual, Sign
<1>4. P!compare(piece, other) =
        CASE r # 0 -> r
          [] r = 0 /\ m < n -> -1
          [] r = 0 /\ m > n -> 1
          [] r = 0 /\ m = n -> 0
  BY DEF P!compare, Sign
<1>5. P!starts_with(piece, other) <=> \E i \in 0..Len(s) : SubSeq(s, 1, i) = t
  BY StartsWithIs
<1> HIDE DEF s, t, r, q, m, n
<1>6. /\ P!less(piece, other) <=> P!Precedes(s, t)
      /\ P!less(other, piece) <=> P!Precedes(t, s)
      /\ P!lessOrEqual(piece, other) <=> ~P!Precedes(t, s)
      /\ P!lessOrEqual(other, piece) <=> ~P!Precedes(s, t)
  BY <1>1, <1>3 DEF Opposite
<1>7. /\ P!compare(piece, other) < 0 <=> P!Precedes(s, t)
      /\ P!compare(piece, other) = 0 <=> s = t
  BY <1>1, <1>4 DEF Opposite
<1> QED
  BY <1>2, <1>5, <1>6, <1>7, Zenon DEF P!OrderRight, s, t

(* procname() finds the name between the first '(' and the last ')'. *)
LEMMA NameIs ==
    ASSUME Piece(other) PROVE P!NameFound
<1> DEFINE name == P!as_string(other)
           l == Len(name)
           stat == <<50, 32, P!Left>> \o name \o <<P!Right, 32, 83>>
           lps == {i \in 1..Len(stat) : stat[i] = P!Left}
           rps == {i \in 1..Len(stat) : stat[i] = P!Right}
<1>1. name \in Seq(Nat) /\ l \in Nat
  BY CharsOf
<1> HIDE DEF name
<1>2. P!Left = 40 /\ P!Right = 41
  BY DEF P!Left, P!Right
<1>3. /\ stat \in Seq(Nat) /\ Len(stat) = l + 6
      /\ stat[1] = 50 /\ stat[2] = 32 /\ stat[3] = 40
      /\ \A i \in 1..l : stat[i + 3] = name[i]
      /\ stat[l + 4] = 41 /\ stat[l + 5] = 32 /\ stat[l + 6] = 83
  BY <1>1, <1>2
<1> HIDE DEF stat, l
<1>4. P!Min(lps) = 3 /\ lps # {}
  <2>1. 3 \in lps /\ lps \in SUBSET Nat
    BY <1>1, <1>2, <1>3
  <2>2. \A i \in lps : 3 =< i
    <3> SUFFICES ASSUME NEW i \in lps, i < 3 PROVE FALSE
      BY <2>1
    <3>1. i = 1 \/ i = 2
      BY <2>1
    <3> QED
      BY <1>2, <1>3, <3>1
  <2> HIDE DEF lps
  <2> QED
    BY <2>1, <2>2, PieceLeastIs
<1>5. P!Max(rps) = l + 4 /\ rps # {}
  <2>1. l + 4 \in rps /\ rps \in SUBSET Nat
    BY <1>1, <1>2, <1>3
  <2>2. \A i \in rps : l + 4 >= i
    <3> SUFFICES ASSUME NEW i \in rps, i > l + 4 PROVE FALSE
      BY <1>1, <2>1
    <3>1. i = l + 5 \/ i = l + 6
      BY <1>1, <1>3
    <3> QED
      BY <1>2, <1>3, <3>1
  <2> HIDE DEF rps
  <2> QED
    BY <2>1, <2>2, PieceGreatestIs
<1>6. P!procname(stat) = P!OfPart(stat, 3, l)
  <2>1. P!procname(stat) = IF lps # {} /\ rps # {} /\ P!Min(lps) < P!Max(rps)
                           THEN P!OfPart(stat, P!Min(lps), P!Max(rps) - P!Min(lps) - 1)
                           ELSE P!OfPart(stat, 0, 0)
    BY DEF P!procname
  <2>2. P!Min(lps) < P!Max(rps) /\ P!Max(rps) - P!Min(lps) - 1 = l
    BY <1>1, <1>4, <1>5
  <2> HIDE DEF lps, rps
  <2> QED
    BY <1>4, <1>5, <2>1, <2>2
<1> DEFINE p == P!OfPart(stat, 3, l)
<1>7. p.memory = Append(stat, 0) /\ p.ptr_ = 3 /\ p.length_ = l
  BY DEF P!OfPart, P!OfString
<1> HIDE DEF p
<1>8. ASSUME NEW i \in 1..l PROVE P!Char(p, i - 1) = name[i]
  <2>1. p.ptr_ + (i - 1) + 1 = i + 3
    BY <1>7
  <2>2. Append(stat, 0)[i + 3] = stat[i + 3]
    BY <1>1, <1>3, SMTT(30)
  <2> QED
    BY <1>3, <1>7, <2>1, <2>2 DEF P!Char
<1>9. Piece(p)
  BY <1>1, <1>3, <1>7 DEF Piece
<1>10. /\ P!as_string(p) \in Seq(Nat) /\ Len(P!as_string(p)) = l
       /\ \A i \in 1..l : P!as_string(p)[i] = name[i]
  BY <1>7, <1>8, <1>9, CharsOf
<1>11. P!as_string(p) = name
  BY <1>1, <1>10, SeqEqual DEF l
<1> QED
  BY <1>6, <1>11 DEF P!NameFound, name, stat, p

(***************************************************************************)
(* The inductive invariant of the pieces: both point to characters of      *)
(* their memory, as many as they say.                                      *)
(***************************************************************************)
PieceInv == Piece(piece) /\ Piece(other)

(* What the constructors make. *)
LEMMA TextPieces ==
    ASSUME NEW s \in P!Texts
    PROVE  Piece(P!OfString(s)) /\ Piece(P!OfChars(s))
<1>1. Chars \subseteq Nat
  BY ConversionAssumption DEF ConversionAssumption
<1>2. PICK n \in 0..MaxText : s \in [1..n -> Chars]
  BY DEF P!Texts
<1>3. s \in Seq(Nat)
  <2>1. n \in Nat
    BY ConversionAssumption DEF ConversionAssumption
  <2>2. s \in [1..n -> Nat]
    BY <1>1, <1>2
  <2> QED
    BY <2>1, <2>2
<1> DEFINE m == Append(s, 0)
           nuls == {i \in 0..Len(s) : m[i + 1] = 0}
<1>4. m \in Seq(Nat) /\ Len(m) = Len(s) + 1 /\ m[Len(s) + 1] = 0 /\ Len(s) \in Nat
  BY <1>3
<1>5. P!OfString(s) = [memory |-> m, ptr_ |-> 0, length_ |-> Len(s)]
  BY DEF P!OfString
<1>6. P!strlen(s) = P!Min(nuls)
  BY DEF P!strlen
<1> HIDE DEF m
<1>7. nuls \in SUBSET Nat /\ Len(s) \in nuls
  BY <1>4
<1>8. PICK x \in nuls : \A y \in nuls : x =< y
  BY <1>7, LeastOf
<1>9. P!strlen(s) = x /\ x \in 0..Len(s)
  BY <1>6, <1>7, <1>8, PieceLeastIs
<1>10. P!OfChars(s) = [memory |-> m, ptr_ |-> 0, length_ |-> x]
  BY <1>5, <1>9 DEF P!OfChars
<1> QED
  BY <1>4, <1>5, <1>9, <1>10 DEF Piece

(* The pieces begin so, and rest so where something else is looked at. *)
LEMMA PieceStart == InitAll => PieceInv
<1>1. P!Init => PieceInv
  BY TextPieces DEF P!Init, PieceInv
<1>2. PieceRests => PieceInv
  <2>1. Piece(P!OfString(<<>>))
    <3>1. Append(<<>>, 0) \in Seq(Nat) /\ Len(Append(<<>>, 0)) = 1
      OBVIOUS
    <3> QED
      BY <3>1 DEF P!OfString, Piece
  <2> QED
    BY <2>1 DEF PieceRests, PieceInv
<1> QED
  BY <1>1, <1>2 DEF InitAll

(* Every step keeps the invariant of the pieces. *)
LEMMA PieceKept == PieceInv /\ [NextAll]_allVars => PieceInv'
<1> SUFFICES ASSUME PieceInv, [NextAll]_allVars PROVE PieceInv'
  OBVIOUS
<1>1. CASE UNCHANGED pieceVars
  BY <1>1 DEF pieceVars, PieceInv, Piece
<1>2. CASE P!remove_prefix /\ UNCHANGED other
  <2>1. PICK n \in 1..piece.length_ : piece' = [piece EXCEPT !.ptr_ = @ + n, !.length_ = @ - n]
    BY <1>2 DEF P!remove_prefix
  <2> QED
    BY <1>2, <2>1, SMTT(30) DEF PieceInv, Piece
<1>3. CASE P!remove_suffix /\ UNCHANGED other
  <2>1. PICK n \in 1..piece.length_ : piece' = [piece EXCEPT !.length_ = @ - n]
    BY <1>3 DEF P!remove_suffix
  <2> QED
    BY <1>3, <2>1, SMTT(30) DEF PieceInv, Piece
<1> QED
  BY <1>1, <1>2, <1>3 DEF NextAll, NextDate, NextZone, NextNumber, NextPiece, P!Next, allVars

(***************************************************************************)
(* For every alphabet and every length of texts: the operators, compare()  *)
(* and starts_with() of StringPiece are the order of the texts the pieces  *)
(* stand for, whatever was cut off them and with NULs in them, and         *)
(* procname() finds every name.                                            *)
(***************************************************************************)
THEOREM PiecesInOrder == SpecAll => []PiecesRight
<1>1. InitAll => PieceInv
  BY PieceStart
<1>2. PieceInv /\ [NextAll]_allVars => PieceInv'
  BY PieceKept
<1>3. PieceInv => PiecesRight
  BY OrderIs, NameIs DEF PieceInv, PiecesRight
<1> QED
  BY <1>1, <1>2, <1>3, PTL DEF SpecAll

-----------------------------------------------------------------------------
(* Numerals. *)

(* A set of natural numbers that holds 0, and with n also n + 1, holds all *)
(* of them: no number is the least one outside.                            *)
LEMMA HoldsAll ==
    ASSUME NEW S \in SUBSET Nat, 0 \in S, \A n \in Nat : n \in S => n + 1 \in S
    PROVE  \A n \in Nat : n \in S
<1> SUFFICES ASSUME Nat \ S # {} PROVE FALSE
  OBVIOUS
<1>1. PICK x \in Nat \ S : \A y \in Nat \ S : x =< y
  BY LeastOf
<1>2. x # 0 /\ x \in Nat
  BY <1>1
<1>3. x - 1 \in Nat /\ x - 1 \in S
  BY <1>1, <1>2
<1>4. (x - 1) + 1 = x
  BY <1>2
<1> QED
  BY <1>1, <1>3, <1>4

(***************************************************************************)
(* What a loop collects that puts out[i] in front and goes on with nxt[i]  *)
(* until that is 0.                                                        *)
(***************************************************************************)
Collects(g, S, out, nxt) ==
    g = [i \in S |-> <<out[i]>> \o (IF nxt[i] # 0 THEN g[nxt[i]] ELSE <<>>)]

(* Such a loop has a result for every i when nxt comes nearer to the end.  *)
LEMMA Collected ==
    ASSUME NEW S, NEW out, NEW nxt, NEW size \in [S -> Nat],
           \A i \in S : nxt[i] # 0 => nxt[i] \in S /\ size[nxt[i]] < size[i],
           NEW most \in Nat, \A i \in S : size[i] < most
    PROVE  \E g : Collects(g, S, out, nxt)
<1> DEFINE D(n) == {i \in S : size[i] < n}
           F(h, n) == [i \in D(n) |-> <<out[i]>> \o (IF nxt[i] # 0 THEN h[nxt[i]] ELSE <<>>)]
           Ok == {n \in Nat : \E g : g = F(g, n)}
<1>1. 0 \in Ok
  <2>1. D(0) = {}
    OBVIOUS
  <2>2. \E g : g = F(g, 0)
    <3> DEFINE g == [i \in {} |-> 0]
    <3>1. g = F(g, 0)
      BY <2>1
    <3> QED
      BY <3>1
  <2> QED
    BY <2>2
<1>2. ASSUME NEW n \in Nat, n \in Ok PROVE n + 1 \in Ok
  <2>1. PICK g : g = F(g, n)
    BY <1>2
  <2> DEFINE h == F(g, n + 1)
  <2>2. ASSUME NEW i \in D(n + 1), nxt[i] # 0 PROVE h[nxt[i]] = g[nxt[i]]
    <3>1. nxt[i] \in S /\ size[nxt[i]] < size[i] /\ size[i] < n + 1 /\ size[i] \in Nat /\ size[nxt[i]] \in Nat
      BY <2>2
    <3>2. nxt[i] \in D(n) /\ nxt[i] \in D(n + 1)
      BY <3>1
    <3> DEFINE j == nxt[i]
    <3> HIDE DEF j
    <3> SUFFICES h[j] = g[j]
      BY DEF j
    <3>3. j \in D(n) /\ j \in D(n + 1)
      BY <3>2 DEF j
    <3> QED
      BY <2>1, <3>3
  <2>3. F(h, n + 1) = F(g, n + 1)
    <3> HIDE DEF h
    <3> QED
      BY <2>2
  <2>4. h = F(h, n + 1)
    <3>1. h = F(g, n + 1)
      OBVIOUS
    <3> HIDE DEF h, F
    <3> QED
      BY <2>3, <3>1
  <2> HIDE DEF F, h
  <2> QED
    BY <2>4
<1> HIDE DEF Ok
<1>3. Ok \in SUBSET Nat
  BY DEF Ok
<1>4. most \in Ok
  BY <1>1, <1>2, <1>3, HoldsAll
<1>5. D(most) = S
  OBVIOUS
<1>6. PICK g : g = F(g, most)
  BY <1>4 DEF Ok
<1> QED
  BY <1>5, <1>6 DEF Collects
(* The integers are -M..(M - 1), where M is 2^(Bits - 1). *)
LEMMA SignedIs ==
    /\ 2^(Bits - 1) \in Int /\ 2^(Bits - 1) > 0
    /\ L!Signed = -(2^(Bits - 1))..(2^(Bits - 1) - 1)
<1>1. Bits - 1 \in Nat
  BY ConversionAssumption DEF ConversionAssumption
<1>2. 2^(Bits - 1) \in Int
  BY <1>1
<1> QED
  BY <1>2, WidthAssumption DEF WidthAssumption, L!Signed

Magnitude(i) == IF i < 0 THEN -i ELSE i

(* Division of C by 10: the quotient is nearer to zero, and the digit that *)
(* goes with it has its sign.                                              *)
LEMMA Tenth ==
    ASSUME NEW i \in Int
    PROVE  /\ L!Quotient(i, 10) \in Int /\ L!Remainder(i, 10) \in -9..9
           /\ Magnitude(i) = 10 * Magnitude(L!Quotient(i, 10)) + Magnitude(L!Remainder(i, 10))
           /\ L!Quotient(i, 10) # 0 => Magnitude(L!Quotient(i, 10)) < Magnitude(i)
           /\ i < 0 => L!Quotient(i, 10) =< 0
           /\ i >= 0 => L!Quotient(i, 10) >= 0
<1> DEFINE q == L!Quotient(i, 10)
           d == L!Remainder(i, 10)
<1>1. d = i - 10 * q
  BY DEF L!Remainder
<1>2. CASE i >= 0
  <2>1. q = i \div 10
    BY <1>2 DEF L!Quotient
  <2>2. q \in Nat /\ i - 10 * q \in 0..9
    BY <1>2, <2>1
  <2> HIDE DEF q, d
  <2> QED
    BY <1>1, <1>2, <2>2 DEF Magnitude, q, d
<1>3. CASE i < 0
  <2>1. q = -((-i) \div 10)
    BY <1>3 DEF L!Quotient
  <2>2. (-i) \div 10 \in Nat /\ (-i) - 10 * ((-i) \div 10) \in 0..9
    BY <1>3
  <2> HIDE DEF q, d
  <2>3. q \in Int /\ q =< 0 /\ d \in -9..0
    BY <1>1, <1>3, <2>1, <2>2
  <2> QED
    BY <1>1, <1>3, <2>3 DEF Magnitude, q, d
<1> QED
  BY <1>2, <1>3

(* What numerals are written with. *)
Symbols == {L!digitsHex[i] : i \in 1..16}

(* The digits one by one. *)
LEMMA HexDigits ==
    /\ L!digitsHex[1] = "0" /\ L!digitsHex[2] = "1" /\ L!digitsHex[3] = "2" /\ L!digitsHex[4] = "3"
    /\ L!digitsHex[5] = "4" /\ L!digitsHex[6] = "5" /\ L!digitsHex[7] = "6" /\ L!digitsHex[8] = "7"
    /\ L!digitsHex[9] = "8" /\ L!digitsHex[10] = "9" /\ L!digitsHex[11] = "A" /\ L!digitsHex[12] = "B"
    /\ L!digitsHex[13] = "C" /\ L!digitsHex[14] = "D" /\ L!digitsHex[15] = "E" /\ L!digitsHex[16] = "F"
  BY DEF L!digitsHex

(* The digits of negative and positive remainders. *)
LEMMA DecimalDigits ==
    /\ L!digits[1] = "9" /\ L!digits[2] = "8" /\ L!digits[3] = "7" /\ L!digits[4] = "6"
    /\ L!digits[5] = "5" /\ L!digits[6] = "4" /\ L!digits[7] = "3" /\ L!digits[8] = "2"
    /\ L!digits[9] = "1" /\ L!digits[10] = "0" /\ L!digits[11] = "1" /\ L!digits[12] = "2"
    /\ L!digits[13] = "3" /\ L!digits[14] = "4" /\ L!digits[15] = "5" /\ L!digits[16] = "6"
    /\ L!digits[17] = "7" /\ L!digits[18] = "8" /\ L!digits[19] = "9"
  BY DEF L!digits

(* A digit of an address stands for its value. *)
LEMMA HexDigit ==
    ASSUME NEW d \in 0..15
    PROVE  /\ L!digitsHex[d + 1] \in Symbols /\ Digit(L!digitsHex[d + 1]) = d
           /\ L!digitsHex[d + 1] = "0" => d = 0
<1>1. \/ d = 0 \/ d = 1 \/ d = 2 \/ d = 3 \/ d = 4 \/ d = 5 \/ d = 6 \/ d = 7
      \/ d = 8 \/ d = 9 \/ d = 10 \/ d = 11 \/ d = 12 \/ d = 13 \/ d = 14 \/ d = 15
  OBVIOUS
<1>2. L!digitsHex[d + 1] \in Symbols
  <2>1. d + 1 \in 1..16
    OBVIOUS
  <2> QED
    BY <2>1 DEF Symbols
<1>3. L!digitsHex[d + 1] = "0" => d = 0
  BY <1>1, HexDigits
<1>4. ASSUME NEW e \in 0..15, L!digitsHex[e + 1] = L!digitsHex[d + 1] PROVE e = d
  <2>1. \/ e = 0 \/ e = 1 \/ e = 2 \/ e = 3 \/ e = 4 \/ e = 5 \/ e = 6 \/ e = 7
        \/ e = 8 \/ e = 9 \/ e = 10 \/ e = 11 \/ e = 12 \/ e = 13 \/ e = 14 \/ e = 15
    OBVIOUS
  <2> QED
    BY <1>1, <1>4, <2>1, HexDigits, SMT
<1> QED
  BY <1>2, <1>3, <1>4 DEF Digit

(* A digit of a number, which has the sign of the number, is the one of    *)
(* its magnitude.                                                          *)
LEMMA DecimalDigit ==
    ASSUME NEW d \in -9..9
    PROVE  /\ L!zero(d) \in Symbols /\ Digit(L!zero(d)) = Magnitude(d)
           /\ L!zero(d) = "0" => d = 0
<1>1. Magnitude(d) \in 0..15 /\ (Magnitude(d) = 0 => d = 0)
  BY DEF Magnitude
<1>2. \/ d = -9 \/ d = -8 \/ d = -7 \/ d = -6 \/ d = -5 \/ d = -4 \/ d = -3 \/ d = -2 \/ d = -1
      \/ d = 0 \/ d = 1 \/ d = 2 \/ d = 3 \/ d = 4 \/ d = 5 \/ d = 6 \/ d = 7 \/ d = 8 \/ d = 9
  OBVIOUS
<1>3. L!zero(d) = L!digitsHex[Magnitude(d) + 1]
  BY <1>2, HexDigits, DecimalDigits DEF L!zero, Magnitude
<1> QED
  BY <1>1, <1>3, HexDigit

(***************************************************************************)
(* The values of the beginnings of a text.                                 *)
(***************************************************************************)
Adds(v, text, base) ==
    v = [i \in 0..Len(text) |-> IF i = 0 THEN 0 ELSE base * v[i - 1] + Digit(text[i])]

(* There are such values, one for each length. *)
LEMMA Added ==
    ASSUME NEW text \in Seq(Symbols), NEW base \in Nat
    PROVE  \E v : Adds(v, text, base)
<1> DEFINE F(h, n) == [i \in 0..n |-> IF i = 0 THEN 0 ELSE base * h[i - 1] + Digit(text[i])]
           Ok == {n \in Nat : \E v : v = F(v, n)}
<1>1. 0 \in Ok
  <2> DEFINE v == [i \in 0..0 |-> 0]
  <2>1. v = F(v, 0)
    OBVIOUS
  <2> HIDE DEF F
  <2> QED
    BY <2>1
<1>2. ASSUME NEW n \in Nat, n \in Ok PROVE n + 1 \in Ok
  <2>1. PICK v : v = F(v, n)
    BY <1>2
  <2> DEFINE h == F(v, n + 1)
  <2>2. ASSUME NEW i \in 0..(n + 1), i # 0 PROVE h[i - 1] = v[i - 1]
    <3> DEFINE j == i - 1
    <3>1. j \in 0..n /\ j \in 0..(n + 1)
      BY <2>2
    <3> HIDE DEF j
    <3>2. h[j] = v[j]
      BY <2>1, <3>1
    <3> QED
      BY <3>2 DEF j
  <2>3. F(h, n + 1) = F(v, n + 1)
    <3> HIDE DEF h
    <3> QED
      BY <2>2
  <2>4. h = F(h, n + 1)
    <3>1. h = F(v, n + 1)
      OBVIOUS
    <3> HIDE DEF h, F
    <3> QED
      BY <2>3, <3>1
  <2> HIDE DEF F, h
  <2> QED
    BY <2>4
<1> HIDE DEF Ok
<1>3. Ok \in SUBSET Nat
  BY DEF Ok
<1>4. Len(text) \in Ok
  BY <1>1, <1>2, <1>3, HoldsAll
<1>5. PICK v : v = F(v, Len(text))
  BY <1>4 DEF Ok
<1> QED
  BY <1>5 DEF Adds

(* The value of a text is the last of them. *)
LEMMA ValueIs ==
    ASSUME NEW text \in Seq(Symbols), NEW base \in Nat
    PROVE  \E v : Adds(v, text, base) /\ Value(text, base) = v[Len(text)]
<1> DEFINE w == CHOOSE v : Adds(v, text, base)
<1>1. Adds(w, text, base)
  BY Added
<1>2. Value(text, base) = w[Len(text)]
  BY DEF Value, Adds
<1> HIDE DEF w
<1> QED
  BY <1>1, <1>2
(* What a symbol stands for. *)
LEMMA DigitIs ==
    ASSUME NEW c \in Symbols
    PROVE  Digit(c) \in Nat
<1>1. PICK i \in 1..16 : c = L!digitsHex[i]
  BY DEF Symbols
<1>2. i - 1 \in 0..15 /\ (i - 1) + 1 = i
  OBVIOUS
<1>3. Digit(L!digitsHex[(i - 1) + 1]) = i - 1
  BY <1>2, HexDigit
<1> QED
  BY <1>1, <1>2, <1>3

(* The values of the beginnings, one from the other. *)
LEMMA AddsIs ==
    ASSUME NEW text \in Seq(Symbols), NEW base \in Nat, NEW v, Adds(v, text, base)
    PROVE  /\ v[0] = 0
           /\ \A n \in Nat : n + 1 =< Len(text) => v[n + 1] = base * v[n] + Digit(text[n + 1])
           /\ \A n \in Nat : n =< Len(text) => v[n] \in Nat
<1> DEFINE Rhs(i) == IF i = 0 THEN 0 ELSE base * v[i - 1] + Digit(text[i])
<1>1. v = [i \in 0..Len(text) |-> Rhs(i)]
  BY DEF Adds
<1>2. ASSUME NEW i \in 0..Len(text) PROVE v[i] = Rhs(i)
  <2> HIDE DEF Rhs
  <2> QED
    BY <1>1
<1>3. v[0] = 0
  BY <1>2
<1>4. ASSUME NEW n \in Nat, n + 1 =< Len(text)
      PROVE  /\ v[n + 1] = base * v[n] + Digit(text[n + 1])
             /\ Digit(text[n + 1]) \in Nat
  <2>1. n + 1 \in 0..Len(text) /\ n + 1 # 0 /\ (n + 1) - 1 = n /\ n + 1 \in 1..Len(text)
    BY <1>4
  <2>2. v[n + 1] = Rhs(n + 1)
    BY <1>2, <2>1
  <2>3. Digit(text[n + 1]) \in Nat
    BY <2>1, DigitIs
  <2> QED
    BY <2>1, <2>2, <2>3
<1> DEFINE Ok == {n \in Nat : n =< Len(text) => v[n] \in Nat}
<1>5. 0 \in Ok
  BY <1>3
<1>6. ASSUME NEW n \in Nat, n \in Ok PROVE n + 1 \in Ok
  <2> SUFFICES ASSUME n + 1 =< Len(text) PROVE v[n + 1] \in Nat
    OBVIOUS
  <2>1. v[n] \in Nat
    BY <1>6
  <2>2. base * v[n] \in Nat
    BY <2>1
  <2> QED
    BY <1>4, <2>2
<1>7. \A n \in Nat : n \in Ok
  <2>1. Ok \in SUBSET Nat
    OBVIOUS
  <2> HIDE DEF Ok
  <2> QED
    BY <1>5, <1>6, <2>1, HoldsAll
<1> QED
  BY <1>3, <1>4, <1>7

(* One more digit behind a text. *)
LEMMA ValueAppend ==
    ASSUME NEW text \in Seq(Symbols), NEW base \in Nat, NEW c \in Symbols
    PROVE  /\ Value(text, base) \in Nat
           /\ Value(Append(text, c), base) = base * Value(text, base) + Digit(c)
<1> DEFINE more == Append(text, c)
           l == Len(text)
<1>1. /\ more \in Seq(Symbols) /\ l \in Nat /\ Len(more) = l + 1 /\ more[l + 1] = c
      /\ \A n \in Nat : n + 1 =< l => more[n + 1] = text[n + 1]
  OBVIOUS
<1>2. PICK v : Adds(v, text, base) /\ Value(text, base) = v[l]
  BY ValueIs
<1> HIDE DEF more
<1>3. PICK w : Adds(w, more, base) /\ Value(more, base) = w[l + 1]
  BY <1>1, ValueIs
<1> HIDE DEF l
<1>4. /\ v[0] = 0
      /\ \A n \in Nat : n + 1 =< l => v[n + 1] = base * v[n] + Digit(text[n + 1])
      /\ v[l] \in Nat
  BY <1>1, <1>2, AddsIs DEF l
<1>5. /\ w[0] = 0
      /\ \A n \in Nat : n + 1 =< l + 1 => w[n + 1] = base * w[n] + Digit(more[n + 1])
  BY <1>1, <1>3, AddsIs, SMTT(30)
<1> DEFINE Ok == {n \in Nat : n =< l => w[n] = v[n]}
<1>6. 0 \in Ok
  BY <1>4, <1>5
<1>7. ASSUME NEW n \in Nat, n \in Ok PROVE n + 1 \in Ok
  <2> SUFFICES ASSUME n + 1 =< l PROVE w[n + 1] = v[n + 1]
    BY <1>1
  <2>1. w[n] = v[n] /\ n + 1 =< l + 1 /\ more[n + 1] = text[n + 1]
    BY <1>1, <1>7
  <2> QED
    BY <1>4, <1>5, <2>1
<1>8. w[l] = v[l]
  <2>1. Ok \in SUBSET Nat
    OBVIOUS
  <2>2. \A n \in Nat : n \in Ok
    <3> HIDE DEF Ok
    <3> QED
      BY <1>6, <1>7, <2>1, HoldsAll
  <2> QED
    BY <1>1, <2>2
<1>9. w[l + 1] = base * w[l] + Digit(more[l + 1])
  BY <1>1, <1>5
<1> QED
  BY <1>1, <1>2, <1>3, <1>4, <1>8, <1>9 DEF more

(* The empty text. *)
LEMMA ValueEmpty ==
    ASSUME NEW base \in Nat
    PROVE  Value(<<>>, base) = 0
<1>1. <<>> \in Seq(Symbols) /\ Len(<<>>) = 0
  OBVIOUS
<1>2. PICK v : Adds(v, <<>>, base) /\ Value(<<>>, base) = v[0]
  BY <1>1, ValueIs
<1> QED
  BY <1>1, <1>2, AddsIs
(* A text backwards. *)
LEMMA ReverseIs ==
    ASSUME NEW T, NEW s \in Seq(T), NEW c \in T
    PROVE  /\ L!Reverse(s) \in Seq(T) /\ Len(L!Reverse(s)) = Len(s)
           /\ s # <<>> => L!Reverse(s)[1] = s[Len(s)]
           /\ L!Reverse(<<c>> \o s) = Append(L!Reverse(s), c)
<1> DEFINE r == L!Reverse(s)
           u == <<c>> \o s
           v == L!Reverse(u)
<1>1. r = [i \in 1..Len(s) |-> s[(Len(s) - i) + 1]] /\ v = [i \in 1..Len(u) |-> u[(Len(u) - i) + 1]]
  BY DEF L!Reverse
<1>2. r \in Seq(T) /\ Len(r) = Len(s) /\ \A i \in 1..Len(s) : r[i] = s[(Len(s) - i) + 1]
  <2>1. \A i \in 1..Len(s) : s[(Len(s) - i) + 1] \in T
    OBVIOUS
  <2>2. r \in [1..Len(s) -> T]
    BY <1>1, <2>1
  <2> QED
    BY <1>1, <2>2
<1>3. u \in Seq(T) /\ Len(u) = Len(s) + 1 /\ u[1] = c /\ \A i \in 1..Len(s) : u[i + 1] = s[i]
  OBVIOUS
<1> HIDE DEF u
<1>4. v \in Seq(T) /\ Len(v) = Len(u) /\ \A i \in 1..Len(u) : v[i] = u[(Len(u) - i) + 1]
  <2>1. \A i \in 1..Len(u) : u[(Len(u) - i) + 1] \in T
    BY <1>3
  <2>2. v \in [1..Len(u) -> T]
    BY <1>1, <2>1
  <2> QED
    BY <1>1, <1>3, <2>2
<1> HIDE DEF r, v
<1>5. Append(r, c) \in Seq(T) /\ Len(Append(r, c)) = Len(s) + 1
  BY <1>2
<1>6. ASSUME NEW i \in 1..(Len(s) + 1) PROVE v[i] = Append(r, c)[i]
  <2>1. CASE i = Len(s) + 1
    BY <1>2, <1>3, <1>4, <2>1
  <2>2. CASE i # Len(s) + 1
    <3>1. i \in 1..Len(s) /\ (Len(s) - i) + 1 \in 1..Len(s)
      BY <2>2
    <3>2. v[i] = u[((Len(s) - i) + 1) + 1]
      BY <1>3, <1>4
    <3>3. v[i] = s[(Len(s) - i) + 1]
      BY <1>3, <3>1, <3>2
    <3> QED
      BY <1>2, <3>1, <3>3
  <2> QED
    BY <2>1, <2>2
<1>7. v = Append(r, c)
  BY <1>3, <1>4, <1>5, <1>6, SeqEqual
<1>8. s # <<>> => r[1] = s[Len(s)]
  BY <1>2
<1> QED
  BY <1>2, <1>7, <1>8 DEF r, u, v

(***************************************************************************)
(* The digits of m from the last one on, with no needless zero at the end. *)
(***************************************************************************)
Written(w, base, m) ==
    /\ w \in Seq(Symbols) /\ w # <<>> /\ m \in Nat
    /\ Value(L!Reverse(w), base) = m
    /\ m # 0 => w[Len(w)] # "0"
    /\ m = 0 => Len(w) = 1

(* The first time around the loop. *)
LEMMA OneDigit ==
    ASSUME NEW base \in Nat, NEW c \in Symbols, NEW d \in Nat, Digit(c) = d, c = "0" => d = 0
    PROVE  Written(<<c>> \o <<>>, base, d)
<1>1. <<>> \in Seq(Symbols) /\ L!Reverse(<<>>) = <<>>
  BY DEF L!Reverse
<1>2. L!Reverse(<<c>> \o <<>>) = Append(<<>>, c)
  BY <1>1, ReverseIs
<1>3. Value(Append(<<>>, c), base) = base * 0 + d
  <2> DEFINE none == <<>>
  <2>1. none \in Seq(Symbols) /\ Value(none, base) = 0
    BY <1>1, ValueEmpty
  <2> HIDE DEF none
  <2>2. Value(Append(none, c), base) = base * Value(none, base) + Digit(c)
    BY <2>1, ValueAppend
  <2> QED
    BY <2>1, <2>2 DEF none
<1>4. base * 0 + d = d
  OBVIOUS
<1>5. <<c>> \o <<>> \in Seq(Symbols) /\ Len(<<c>> \o <<>>) = 1 /\ (<<c>> \o <<>>)[1] = c
  OBVIOUS
<1> QED
  BY <1>2, <1>3, <1>4, <1>5 DEF Written

(* The next time around the loop. *)
LEMMA MoreDigits ==
    ASSUME NEW base \in Nat, base > 0, NEW c \in Symbols, NEW w, NEW m, Written(w, base, m), m # 0
    PROVE  Written(<<c>> \o w, base, base * m + Digit(c))
<1>1. w \in Seq(Symbols) /\ w # <<>> /\ Value(L!Reverse(w), base) = m /\ w[Len(w)] # "0" /\ m \in Nat
  BY DEF Written
<1>2. L!Reverse(w) \in Seq(Symbols) /\ L!Reverse(<<c>> \o w) = Append(L!Reverse(w), c)
  BY <1>1, ReverseIs
<1>3. Value(L!Reverse(<<c>> \o w), base) = base * m + Digit(c)
  <2> DEFINE r == L!Reverse(w)
  <2>1. r \in Seq(Symbols)
    BY <1>2
  <2> HIDE DEF r
  <2>2. Value(Append(r, c), base) = base * Value(r, base) + Digit(c)
    BY <2>1, ValueAppend
  <2> QED
    BY <1>1, <1>2, <2>2 DEF r
<1>4. /\ <<c>> \o w \in Seq(Symbols) /\ Len(<<c>> \o w) = Len(w) + 1 /\ <<c>> \o w # <<>>
      /\ (<<c>> \o w)[Len(w) + 1] = w[Len(w)]
  BY <1>1
<1>5. base * m \in Nat /\ base * m # 0 /\ Digit(c) \in Nat
  BY <1>1, DigitIs
<1>6. base * m + Digit(c) \in Nat /\ base * m + Digit(c) # 0
  BY <1>5
<1> QED
  BY <1>1, <1>3, <1>4, <1>6 DEF Written

(* The written text is the numeral. *)
LEMMA WrittenDenotes ==
    ASSUME NEW base \in Nat, NEW w, NEW m, Written(w, base, m)
    PROVE  Denotes(L!Reverse(w), base, m)
<1>1. w \in Seq(Symbols) /\ w # <<>> /\ Value(L!Reverse(w), base) = m
  BY DEF Written
<1>2. PICK c : c \in Symbols
  BY <1>1
<1>3. L!Reverse(w) \in Seq(Symbols) /\ Len(L!Reverse(w)) = Len(w) /\ L!Reverse(w)[1] = w[Len(w)]
  BY <1>1, <1>2, ReverseIs
<1>4. L!Reverse(w) # <<>>
  BY <1>1, <1>3
<1> QED
  BY <1>1, <1>3, <1>4 DEF Written, Denotes
(* The loop of convert(). *)
LEMMA ReversedIs ==
    ASSUME NEW i \in L!Signed
    PROVE  L!Reversed[i] = <<L!zero(L!Remainder(i, 10))>> \o
               (IF L!Quotient(i, 10) # 0 THEN L!Reversed[L!Quotient(i, 10)] ELSE <<>>)
<1> DEFINE S == L!Signed
           M == 2^(Bits - 1)
           out == [j \in S |-> L!zero(L!Remainder(j, 10))]
           nxt == [j \in S |-> L!Quotient(j, 10)]
           size == [j \in S |-> Magnitude(j)]
           Loop(g) == [j \in S |-> <<L!zero(L!Remainder(j, 10))>> \o
                         (IF L!Quotient(j, 10) # 0 THEN g[L!Quotient(j, 10)] ELSE <<>>)]
<1>1. M \in Int /\ M > 0 /\ S = -M..(M - 1)
  BY SignedIs
<1> HIDE DEF M
<1>2. ASSUME NEW j \in S
      PROVE  /\ Magnitude(j) \in Nat /\ Magnitude(j) < M + 1
             /\ L!Quotient(j, 10) # 0 =>
                  L!Quotient(j, 10) \in S /\ Magnitude(L!Quotient(j, 10)) < Magnitude(j)
  <2>1. j \in Int /\ -M =< j /\ j =< M - 1
    BY <1>1
  <2> DEFINE q == L!Quotient(j, 10)
  <2>2. /\ q \in Int /\ (q # 0 => Magnitude(q) < Magnitude(j))
        /\ (j < 0 => q =< 0) /\ (j >= 0 => q >= 0)
    BY <2>1, Tenth
  <2> HIDE DEF q
  <2>3. q # 0 => -M =< q /\ q =< M - 1
    BY <1>1, <2>1, <2>2 DEF Magnitude
  <2>4. Magnitude(j) \in Nat /\ Magnitude(j) < M + 1
    BY <1>1, <2>1 DEF Magnitude
  <2> QED
    BY <1>1, <2>2, <2>3, <2>4 DEF q
<1> HIDE DEF S
<1>3. size \in [S -> Nat] /\ \A j \in S : size[j] < M + 1
  BY <1>2
<1>4. \A j \in S : nxt[j] # 0 => nxt[j] \in S /\ size[nxt[j]] < size[j]
  BY <1>2
<1>5. M + 1 \in Nat
  BY <1>1
<1>6. \E g : Collects(g, S, out, nxt)
  <2> HIDE DEF out, nxt, size
  <2> QED
    BY <1>3, <1>4, <1>5, Collected
<1>7. \E g : g = Loop(g)
  BY <1>6 DEF Collects
<1>8. L!Reversed = CHOOSE g : g = Loop(g)
  BY DEF L!Reversed, S
<1>9. L!Reversed = Loop(L!Reversed)
  <2> HIDE DEF Loop
  <2> QED
    BY <1>7, <1>8
<1> QED
  BY <1>9 DEF S

(* The loop of convertHex(). *)
LEMMA ReversedHexIs ==
    ASSUME NEW i \in L!Pointers
    PROVE  L!ReversedHex[i] = <<L!digitsHex[(i % 16) + 1]>> \o
               (IF i \div 16 # 0 THEN L!ReversedHex[i \div 16] ELSE <<>>)
<1> DEFINE S == L!Pointers
           K == 2^PointerBits
           out == [j \in S |-> L!digitsHex[(j % 16) + 1]]
           nxt == [j \in S |-> j \div 16]
           size == [j \in S |-> j]
           Loop(g) == [j \in S |-> <<L!digitsHex[(j % 16) + 1]>> \o
                         (IF j \div 16 # 0 THEN g[j \div 16] ELSE <<>>)]
<1>1. K \in Int /\ S = 0..(K - 1)
  <2>1. PointerBits \in Nat
    BY ConversionAssumption DEF ConversionAssumption
  <2> QED
    BY <2>1 DEF L!Pointers
<1> HIDE DEF K, S
<1>2. ASSUME NEW j \in S
      PROVE  j \in Nat /\ j < K /\ (j \div 16 # 0 => j \div 16 \in S /\ j \div 16 < j)
  BY <1>1
<1>3. K \in Nat
  BY <1>1, <1>2 DEF S
<1>4. size \in [S -> Nat] /\ \A j \in S : size[j] < K
  BY <1>2
<1>5. \A j \in S : nxt[j] # 0 => nxt[j] \in S /\ size[nxt[j]] < size[j]
  BY <1>2
<1>6. \E g : Collects(g, S, out, nxt)
  <2> HIDE DEF out, nxt, size
  <2> QED
    BY <1>3, <1>4, <1>5, Collected
<1>7. \E g : g = Loop(g)
  BY <1>6 DEF Collects
<1>8. L!ReversedHex = CHOOSE g : g = Loop(g)
  BY DEF L!ReversedHex, S
<1>9. L!ReversedHex = Loop(L!ReversedHex)
  <2> HIDE DEF Loop
  <2> QED
    BY <1>7, <1>8
<1> QED
  BY <1>9 DEF S

(* convert() writes the digits of every integer. *)
LEMMA DecimalWritten ==
    ASSUME NEW i \in L!Signed
    PROVE  Written(L!Reversed[i], 10, Magnitude(i))
<1> DEFINE Ok == {n \in Nat : \A j \in L!Signed : Magnitude(j) < n => Written(L!Reversed[j], 10, Magnitude(j))}
<1>1. ASSUME NEW j \in L!Signed PROVE j \in Int /\ Magnitude(j) \in Nat
  BY SignedIs DEF Magnitude
<1>2. 0 \in Ok
  BY <1>1
<1>3. ASSUME NEW n \in Nat, n \in Ok PROVE n + 1 \in Ok
  <2> SUFFICES ASSUME NEW j \in L!Signed, Magnitude(j) < n + 1
               PROVE  Written(L!Reversed[j], 10, Magnitude(j))
    OBVIOUS
  <2> DEFINE q == L!Quotient(j, 10)
             d == L!Remainder(j, 10)
             c == L!zero(d)
  <2>1. /\ q \in Int /\ d \in -9..9 /\ Magnitude(j) = 10 * Magnitude(q) + Magnitude(d)
        /\ q # 0 => Magnitude(q) < Magnitude(j)
        /\ (j < 0 => q =< 0) /\ (j >= 0 => q >= 0)
    BY <1>1, Tenth
  <2>2. L!Reversed[j] = <<c>> \o (IF q # 0 THEN L!Reversed[q] ELSE <<>>)
    BY ReversedIs
  <2> HIDE DEF q, d, c
  <2>3. c \in Symbols /\ Digit(c) = Magnitude(d) /\ (c = "0" => d = 0)
    BY <2>1, DecimalDigit DEF c
  <2>4. Magnitude(d) \in Nat /\ Magnitude(q) \in Nat /\ (d = 0 => Magnitude(d) = 0)
        /\ (q # 0 => Magnitude(q) # 0) /\ (q = 0 => Magnitude(q) = 0)
    BY <2>1 DEF Magnitude
  <2>5. CASE q = 0
    <3>1. Magnitude(j) = Magnitude(d)
      BY <2>1, <2>4, <2>5
    <3>2. Written(<<c>> \o <<>>, 10, Magnitude(d))
      BY <2>3, <2>4, OneDigit
    <3> QED
      BY <2>2, <2>5, <3>1, <3>2
  <2>6. CASE q # 0
    <3>1. q \in L!Signed /\ Magnitude(q) < n
      <4>1. Magnitude(q) < Magnitude(j) /\ Magnitude(j) < n + 1
        BY <2>1, <2>6
      <4>2. Magnitude(q) < n
        BY <1>1, <2>4, <4>1
      <4> DEFINE M == 2^(Bits - 1)
      <4>3. M \in Int /\ M > 0 /\ L!Signed = -M..(M - 1)
        BY SignedIs
      <4> HIDE DEF M
      <4>4. q \in -M..(M - 1)
        BY <2>1, <4>1, <4>3 DEF Magnitude
      <4> QED
        BY <4>2, <4>3, <4>4
    <3>2. Written(L!Reversed[q], 10, Magnitude(q))
      BY <1>3, <3>1
    <3>3. Written(<<c>> \o L!Reversed[q], 10, 10 * Magnitude(q) + Digit(c))
      BY <2>3, <2>4, <2>6, <3>2, MoreDigits
    <3> QED
      BY <2>1, <2>2, <2>3, <2>6, <3>3
  <2> QED
    BY <2>5, <2>6
<1>4. \A n \in Nat : n \in Ok
  <2>1. Ok \in SUBSET Nat
    OBVIOUS
  <2> HIDE DEF Ok
  <2> QED
    BY <1>2, <1>3, <2>1, HoldsAll
<1>5. Magnitude(i) + 1 \in Nat /\ Magnitude(i) < Magnitude(i) + 1
  BY <1>1
<1> QED
  BY <1>4, <1>5

(* convertHex() writes the digits of every address. *)
LEMMA HexWritten ==
    ASSUME NEW i \in L!Pointers
    PROVE  Written(L!ReversedHex[i], 16, i)
<1> DEFINE Ok == {n \in Nat : \A j \in L!Pointers : j < n => Written(L!ReversedHex[j], 16, j)}
<1>1. ASSUME NEW j \in L!Pointers PROVE j \in Nat /\ \A k \in Nat : k < j => k \in L!Pointers
  <2>1. PointerBits \in Nat
    BY ConversionAssumption DEF ConversionAssumption
  <2> DEFINE K == 2^PointerBits
  <2>2. K \in Int /\ L!Pointers = 0..(K - 1)
    BY <2>1 DEF L!Pointers
  <2> HIDE DEF K
  <2> QED
    BY <2>2
<1>2. 0 \in Ok
  BY <1>1
<1>3. ASSUME NEW n \in Nat, n \in Ok PROVE n + 1 \in Ok
  <2> SUFFICES ASSUME NEW j \in L!Pointers, j < n + 1
               PROVE  Written(L!ReversedHex[j], 16, j)
    OBVIOUS
  <2> DEFINE q == j \div 16
             d == j % 16
             c == L!digitsHex[d + 1]
  <2>1. q \in Nat /\ d \in 0..15 /\ j = 16 * q + d /\ (q # 0 => q < j)
    <3>1. j \in Nat
      BY <1>1
    <3> QED
      BY <3>1
  <2>2. L!ReversedHex[j] = <<c>> \o (IF q # 0 THEN L!ReversedHex[q] ELSE <<>>)
    BY ReversedHexIs
  <2> HIDE DEF q, d, c
  <2>3. c \in Symbols /\ Digit(c) = d /\ (c = "0" => d = 0) /\ d \in Nat
    BY <2>1, HexDigit DEF c
  <2>4. CASE q = 0
    <3>1. j = d
      BY <2>1, <2>4
    <3>2. Written(<<c>> \o <<>>, 16, d)
      BY <2>3, OneDigit
    <3> QED
      BY <2>2, <2>4, <3>1, <3>2
  <2>5. CASE q # 0
    <3>1. q \in L!Pointers /\ q < n
      <4>1. q < j /\ j \in Nat
        BY <1>1, <2>1, <2>5
      <4> QED
        BY <1>1, <2>1, <4>1
    <3>2. Written(L!ReversedHex[q], 16, q)
      BY <1>3, <3>1
    <3>3. Written(<<c>> \o L!ReversedHex[q], 16, 16 * q + Digit(c))
      BY <2>1, <2>3, <2>5, <3>2, MoreDigits
    <3> QED
      BY <2>1, <2>2, <2>3, <2>5, <3>3
  <2> QED
    BY <2>4, <2>5
<1>4. \A n \in Nat : n \in Ok
  <2>1. Ok \in SUBSET Nat
    OBVIOUS
  <2> HIDE DEF Ok
  <2> QED
    BY <1>2, <1>3, <2>1, HoldsAll
<1>5. i + 1 \in Nat /\ i < i + 1
  BY <1>1
<1> QED
  BY <1>4, <1>5
(* The sign in front of the digits. *)
LEMMA SignInFront ==
    ASSUME NEW w \in Seq(Symbols)
    PROVE  /\ L!Reverse(w \o <<"-">>)[1] = "-"
           /\ Tail(L!Reverse(w \o <<"-">>)) = L!Reverse(w)
           /\ L!Reverse(w \o <<>>) = L!Reverse(w)
<1> DEFINE T == Symbols \cup {"-"}
           r == L!Reverse(w)
           u == w \o <<"-">>
           v == L!Reverse(u)
           l == Len(w)
<1>1. w \in Seq(T) /\ "-" \in T /\ l \in Nat
  OBVIOUS
<1>2. r = [i \in 1..l |-> w[(l - i) + 1]] /\ v = [i \in 1..Len(u) |-> u[(Len(u) - i) + 1]]
  BY DEF L!Reverse
<1>3. r \in Seq(T) /\ Len(r) = l /\ \A i \in 1..l : r[i] = w[(l - i) + 1]
  <2>1. r \in Seq(T) /\ Len(r) = l
    <3> HIDE DEF T
    <3> QED
      BY <1>1, ReverseIs
  <2> QED
    BY <1>2, <2>1
<1>4. u \in Seq(T) /\ Len(u) = l + 1 /\ u[l + 1] = "-" /\ \A i \in 1..l : u[i] = w[i]
  BY <1>1
<1> HIDE DEF u, T
<1>5. v \in Seq(T) /\ Len(v) = l + 1
  BY <1>1, <1>4, ReverseIs
<1>6. \A i \in 1..(l + 1) : v[i] = u[((l + 1) - i) + 1]
  BY <1>2, <1>4
<1> HIDE DEF r, v, l
<1>7. v[1] = "-"
  <2>1. 1 \in 1..(l + 1) /\ ((l + 1) - 1) + 1 = l + 1
    BY <1>1
  <2> QED
    BY <1>4, <1>6, <2>1
<1>8. Tail(v) = r
  <2>1. Tail(v) \in Seq(T) /\ Len(Tail(v)) = l /\ \A i \in 1..l : Tail(v)[i] = v[i + 1]
    BY <1>1, <1>5
  <2>2. ASSUME NEW i \in 1..l PROVE v[i + 1] = r[i]
    <3>1. i + 1 \in 1..(l + 1) /\ ((l + 1) - (i + 1)) + 1 = (l - i) + 1 /\ (l - i) + 1 \in 1..l
      BY <1>1
    <3>2. v[i + 1] = u[(l - i) + 1]
      BY <1>6, <3>1
    <3>3. u[(l - i) + 1] = w[(l - i) + 1]
      BY <1>4, <3>1
    <3> QED
      BY <1>3, <3>2, <3>3
  <2>3. \A i \in 1..l : Tail(v)[i] = r[i]
    BY <2>1, <2>2
  <2> QED
    BY <1>3, <2>1, <2>3, SeqEqual
<1>9. w \o <<>> = w
  BY <1>1
<1> QED
  BY <1>7, <1>8, <1>9 DEF r, u, v

(* The count goes through the integers. *)
NumberInv == number \in L!Signed

(* Every integer of the count is written as its numeral. *)
LEMMA NumeralsWritten == ASSUME NumberInv PROVE NumeralsRight
<1> DEFINE w == L!Reversed[number]
           text == L!convert(number)
           address == number - Least
<1>1. number \in L!Signed /\ number \in Int
  BY SignedIs DEF NumberInv
<1>2. Written(w, 10, Magnitude(number))
  BY <1>1, DecimalWritten
<1>3. w \in Seq(Symbols)
  BY <1>2 DEF Written
<1>4. Denotes(L!Reverse(w), 10, Magnitude(number))
  BY <1>2, WrittenDenotes
<1>5. text = L!Reverse(w \o (IF number < 0 THEN <<"-">> ELSE <<>>))
  BY DEF L!convert
<1> HIDE DEF w, text
<1>6. number < 0 => text[1] = "-" /\ Denotes(Tail(text), 10, -number)
  BY <1>1, <1>3, <1>4, <1>5, SignInFront DEF Magnitude
<1>7. ~(number < 0) => Denotes(text, 10, number)
  BY <1>1, <1>3, <1>4, <1>5, SignInFront DEF Magnitude
<1>8. address \in L!Pointers => Denotes(L!convertHex(address), 16, address)
  <2> HIDE DEF address
  <2> QED
    BY HexWritten, WrittenDenotes DEF L!convertHex
<1> QED
  BY <1>6, <1>7, <1>8 DEF NumeralsRight, text

(***************************************************************************)
(* For every width of the integers and of the addresses, and for texts of  *)
(* every alphabet and length: convert() and convertHex() write the numeral *)
(* of each number, the least one included, and pieces of text are compared *)
(* as the texts they stand for.                                            *)
(***************************************************************************)
THEOREM TextsRight == SpecAll => []TextRight
<1>1. InitAll => NumberInv
  BY SignedIs DEF InitAll, Least, NumberInv
<1>2. NumberInv /\ [NextAll]_allVars => NumberInv'
  <2> SUFFICES ASSUME NumberInv, [NextAll]_allVars PROVE NumberInv'
    OBVIOUS
  <2>1. number' = number \/ (number' = number + 1 /\ number + 1 \in L!Signed)
    BY DEF NextAll, NextDate, NextZone, NextNumber, NextPiece, allVars
  <2> QED
    BY <2>1 DEF NumberInv
<1>3. NumberInv /\ PiecesRight => TextRight
  BY NumeralsWritten DEF TextRight
<1> QED
  BY <1>1, <1>2, <1>3, PiecesInOrder, PTL DEF SpecAll
=============================================================================

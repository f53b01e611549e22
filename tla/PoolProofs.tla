----------------------------- MODULE PoolProofs -----------------------------
(***************************************************************************)
(* Proofs about CountDownLatch, for any count, any number of waiters and   *)
(* any finite number of calls of countDown(), and about ThreadPool, for    *)
(* any finite number of workers and any tasks.                             *)
(***************************************************************************)
EXTENDS PoolWithLatch, FiniteSetTheorems, SequenceTheorems, TLAPS

-----------------------------------------------------------------------------
(* CountDownLatch. *)

(* The inductive invariant: count_ is the argument of the constructor less *)
(* the calls made, so that it passes zero exactly once, and a waiter that  *)
(* has passed found it there.                                              *)
CountMatches == count_ = Count - Cardinality(counted)
PassedAtZero == (\E w \in Waiters : wpc[w] = "passed") => count_ <= 0

LatchInv == TypeOK /\ CountMatches /\ PassedAtZero /\ NoneBlockedAtZero

(* A call of countDown() is one more call made, and there are no more than *)
(* Counters has.                                                           *)
LEMMA OneMoreCounted ==
    ASSUME TypeOK, NEW c \in Counters, CountDown(c)
    PROVE  /\ Cardinality(counted) \in Nat
           /\ Cardinality(counted') = Cardinality(counted) + 1
           /\ Cardinality(counted') <= Cardinality(Counters)
           /\ Cardinality(Counters) \in Nat
<1>1. IsFiniteSet(counted)
  BY LatchAssumption, FS_Subset DEF TypeOK
<1>2. counted' = counted \cup {c} /\ c \notin counted
  BY DEF CountDown
<1>3. counted' \in SUBSET Counters
  BY <1>2 DEF TypeOK
<1>4. Cardinality(counted') <= Cardinality(Counters)
  BY <1>3, LatchAssumption, FS_Subset
<1> QED
  BY <1>1, <1>2, <1>4, FS_AddElement, FS_CardinalityType, LatchAssumption

(* The invariant holds of a new latch. *)
LEMMA LatchInit == Init => LatchInv
<1> SUFFICES ASSUME Init PROVE LatchInv
  OBVIOUS
<1>1. Cardinality(counted) = 0
  BY FS_EmptySet DEF Init
<1>2. Cardinality(Counters) \in Nat
  BY LatchAssumption, FS_CardinalityType
<1> QED
  BY <1>1, <1>2, LatchAssumption
  DEF Init, LatchInv, TypeOK, CountMatches, PassedAtZero, NoneBlockedAtZero

(* Every step of wait() and countDown() keeps it. *)
LEMMA LatchStep == LatchInv /\ [Next]_vars => LatchInv'
<1> SUFFICES ASSUME LatchInv, [Next]_vars PROVE LatchInv'
  OBVIOUS
<1>0. count_ \in Int /\ Cardinality(Counters) \in Nat
  BY LatchAssumption, FS_CardinalityType DEF LatchInv, TypeOK
<1>1. ASSUME NEW w \in Waiters, CallWait(w) PROVE LatchInv'
  BY <1>1 DEF CallWait, LatchInv, TypeOK, CountMatches, PassedAtZero, NoneBlockedAtZero
<1>2. ASSUME NEW w \in Waiters, Blocks(w) PROVE LatchInv'
  BY <1>0, <1>2 DEF Blocks, LatchInv, TypeOK, CountMatches, PassedAtZero, NoneBlockedAtZero
<1>3. ASSUME NEW w \in Waiters, Passes(w) PROVE LatchInv'
  BY <1>3 DEF Passes, LatchInv, TypeOK, CountMatches, PassedAtZero, NoneBlockedAtZero
<1>4. ASSUME NEW w \in Waiters, SpuriousWakeup(w) PROVE LatchInv'
  BY <1>4 DEF SpuriousWakeup, LatchInv, TypeOK, CountMatches, PassedAtZero, NoneBlockedAtZero
<1>5. ASSUME NEW c \in Counters, CountDown(c) PROVE LatchInv'
  <2>1. /\ Cardinality(counted) \in Nat
        /\ Cardinality(counted') = Cardinality(counted) + 1
        /\ Cardinality(counted') <= Cardinality(Counters)
    BY <1>5, OneMoreCounted DEF LatchInv
  <2>2. count_' = count_ - 1
    BY <1>5 DEF CountDown
  <2>3. CountMatches'
    BY <1>0, <2>1, <2>2, LatchAssumption DEF LatchInv, CountMatches
  <2>4. count_' \in (Count - Cardinality(Counters))..Count
    BY <1>0, <2>1, <2>3, LatchAssumption DEF CountMatches
  <2>5. TypeOK'
    BY <1>5, <2>4 DEF CountDown, LatchInv, TypeOK
  <2>6. NoneBlockedAtZero'
    <3>1. CASE count_' = 0
      BY <1>5, <3>1 DEF CountDown, NoneBlockedAtZero
    <3>2. CASE count_' # 0
      BY <1>0, <1>5, <2>2, <3>2 DEF CountDown, LatchInv, NoneBlockedAtZero
    <3> QED
      BY <3>1, <3>2
  <2>7. PassedAtZero'
    BY <1>0, <1>5, <2>2 DEF CountDown, LatchInv, PassedAtZero, TypeOK
  <2> QED
    BY <2>3, <2>5, <2>6, <2>7 DEF LatchInv
<1>6. CASE UNCHANGED vars
  BY <1>6 DEF vars, LatchInv, TypeOK, CountMatches, PassedAtZero, NoneBlockedAtZero
<1> QED
  BY <1>1, <1>2, <1>3, <1>4, <1>5, <1>6 DEF Next, WaiterStep

(* LatchInv holds in every state of a CountDownLatch. *)
THEOREM LatchInvariant == Spec => []LatchInv
  BY LatchInit, LatchStep, PTL DEF Spec

(* Type correctness of CountDownLatch: the count stays between its initial *)
(* value and what all calls of countDown() leave of it.                    *)
THEOREM TypeCorrect == Spec => []TypeOK
<1>1. LatchInv => TypeOK
  BY DEF LatchInv
<1> QED
  BY <1>1, LatchInvariant, PTL

(* No wait() returns before as many calls of countDown() as the count. *)
THEOREM PassesOnTime == Spec => []PassesAfterCount
<1>1. LatchInv => PassesAfterCount
  <2> SUFFICES ASSUME LatchInv, \E w \in Waiters : wpc[w] = "passed"
               PROVE  Cardinality(counted) >= Count
    BY DEF PassesAfterCount
  <2>1. Cardinality(counted) \in Nat
    BY LatchAssumption, FS_Subset, FS_CardinalityType DEF LatchInv, TypeOK
  <2> QED
    BY <2>1, LatchAssumption DEF LatchInv, CountMatches, PassedAtZero
<1> QED
  BY <1>1, LatchInvariant, PTL

(* Once the count is zero or below nobody is blocked: the one countDown()  *)
(* that notifies is enough.                                                *)
THEOREM NobodyLeftBlocked == Spec => []NoneBlockedAtZero
<1>1. LatchInv => NoneBlockedAtZero
  BY DEF LatchInv
<1> QED
  BY <1>1, LatchInvariant, PTL

(* Behind a ThreadPool the latch is used as CountDownLatch allows it: a    *)
(* task counts down at most once, whoever runs it.                         *)
THEOREM PoolUsesLatch == SpecAll => Spec
<1>1. InitAll => Init
  BY DEF InitAll
<1>2. [NextAll]_allVars => [Next]_vars
  <2> SUFFICES ASSUME [NextAll]_allVars PROVE [Next]_vars
    OBVIOUS
  <2>1. ASSUME NEW w \in Workers, WorkerStep(w) PROVE [Next]_vars
    BY <2>1 DEF WorkerStep, WorkerTakes, TakeTask, TaskCounts, TaskReturns, Next
  <2>2. ASSUME NEW t \in Tasks, RunHere(t) PROVE [Next]_vars
    BY <2>2 DEF RunHere, Next
  <2>3. ASSUME NEW w \in Waiters, WaiterSteps(w) \/ WaiterOther(w) PROVE [Next]_vars
    BY <2>3 DEF WaiterSteps, WaiterOther, Next
  <2>4. CASE UNCHANGED allVars
    BY <2>4 DEF allVars
  <2> QED
    BY <2>1, <2>2, <2>3, <2>4
    DEF NextAll, Calls, Returns, Run, StartThread, WorkerWakes
<1> QED
  BY <1>1, <1>2, PTL DEF SpecAll, Spec

-----------------------------------------------------------------------------
(* ThreadPool. *)

(* The inductive invariant: besides PoolSound, no task is queued twice. *)
QueuedOnce == \A i, j \in DOMAIN queue_ : queue_[i] = queue_[j] => i = j

PoolInv == PoolSound /\ QueuedOnce

(* What a step of the pool does, alone or with the latch. *)
LEMMA PoolSteps == [NextAll]_allVars => P!Next \/ UNCHANGED poolVars
<1> SUFFICES ASSUME [NextAll]_allVars PROVE P!Next \/ UNCHANGED poolVars
  OBVIOUS
<1>1. ASSUME NEW w \in Workers, StartThread(w) \/ WorkerStep(w) \/ WorkerWakes(w)
      PROVE  P!Next \/ UNCHANGED poolVars
  BY <1>1 DEF StartThread, WorkerStep, WorkerWakes, WorkerTakes, TakeTask, TaskCounts,
              TaskReturns, P!Next, P!WorkerStep
<1>2. ASSUME NEW t \in Tasks, RunHere(t) \/ Run(t) PROVE P!Next
  BY <1>2 DEF RunHere, Run, P!Next
<1>3. ASSUME NEW w \in Waiters, WaiterSteps(w) \/ WaiterOther(w) PROVE UNCHANGED poolVars
  BY <1>3 DEF WaiterSteps, WaiterOther
<1>4. CASE Calls \/ Returns
  BY <1>4 DEF Calls, Returns, P!Next
<1>5. CASE UNCHANGED allVars
  BY <1>5 DEF allVars
<1> QED
  BY <1>1, <1>2, <1>3, <1>4, <1>5 DEF NextAll

LEMMA PoolTypeStep == P!TypeOK /\ P!Next => P!TypeOK'
<1> SUFFICES ASSUME P!TypeOK, P!Next PROVE P!TypeOK'
  OBVIOUS
<1> USE DEF P!TypeOK
<1>1. CASE P!Start \/ P!Started \/ P!Joined
  BY <1>1 DEF P!Start, P!Started, P!Joined
<1>2. CASE P!Stop
  BY <1>2 DEF P!Stop
<1>3. ASSUME NEW t \in Tasks, P!RunHere(t) PROVE P!TypeOK'
  BY <1>3 DEF P!RunHere
<1>4. ASSUME NEW t \in Tasks, P!Run(t) PROVE P!TypeOK'
  BY <1>4 DEF P!Run, P!At
<1>5. ASSUME NEW w \in Workers, P!StartThread(w) \/ P!SpuriousWakeup(w) PROVE P!TypeOK'
  BY <1>5 DEF P!StartThread, P!SpuriousWakeup
<1>6. ASSUME NEW w \in Workers, P!TestRunning(w) \/ P!TakeWaits(w) \/ P!TakeNothing(w)
                                \/ P!TaskReturns(w)
      PROVE  P!TypeOK'
  BY <1>6 DEF P!TestRunning, P!TakeWaits, P!TakeNothing, P!TaskReturns
<1>7. ASSUME NEW w \in Workers, P!TakeTask(w) PROVE P!TypeOK'
  BY <1>7 DEF P!TakeTask
<1> QED
  BY <1>1, <1>2, <1>3, <1>4, <1>5, <1>6, <1>7 DEF P!Next, P!WorkerStep

LEMMA WorkerCount ==
    ASSUME NEW S \in SUBSET Workers
    PROVE  /\ P!Cardinality(S) \in Nat
           /\ \A w \in Workers \ S : P!Cardinality(S \cup {w}) = P!Cardinality(S) + 1
           /\ \A w \in S : P!Cardinality(S \ {w}) = P!Cardinality(S) - 1
<1>1. \A T : P!Cardinality(T) = Cardinality(T)
  BY DEF P!Cardinality, Cardinality
<1>2. IsFiniteSet(S)
  BY PoolAssumption, FS_Subset
<1> QED
  BY <1>1, <1>2, FS_CardinalityType, FS_AddElement, FS_RemoveElement

(* A step of the pool loses no notification and leaves nobody waiting      *)
(* after stop().                                                           *)
LEMMA PoolNotifyStep ==
    P!TypeOK /\ P!NoLostNotify /\ P!NoWaitAfterStop /\ P!Next
        => P!NoLostNotify' /\ P!NoWaitAfterStop'
<1> SUFFICES ASSUME P!TypeOK, P!NoLostNotify, P!NoWaitAfterStop, P!Next
             PROVE  P!NoLostNotify' /\ P!NoWaitAfterStop'
  OBVIOUS
<1> DEFINE Goal == /\ P!At("wait")' # {} => Len(queue_') <= P!Cardinality(P!At("take")')
                   /\ P!At("wait")' # {} => running_'
<1> SUFFICES Goal
  <2>1. P!Cardinality(P!At("take"))' = P!Cardinality(P!At("take")')
    BY DEF P!Cardinality
  <2> QED
    BY <2>1 DEF P!NoLostNotify, P!NoWaitAfterStop
<1>0. /\ P!At("wait") # {} => Len(queue_) <= P!Cardinality(P!At("take"))
      /\ P!At("wait") # {} => running_
  BY DEF P!NoLostNotify, P!NoWaitAfterStop
<1>c. \A c : P!At(c) \in SUBSET Workers /\ P!At(c)' \in SUBSET Workers
  BY DEF P!At
<1>n. /\ P!Cardinality(P!At("take")) \in Nat
      /\ P!Cardinality(P!At("take")') \in Nat
      /\ Len(queue_) \in Nat
  BY <1>c, WorkerCount DEF P!TypeOK
<1> HIDE DEF Goal
<1>1. CASE P!Start \/ P!Started \/ P!Joined
  BY <1>0, <1>1 DEF P!Start, P!Started, P!Joined, P!At, Goal
<1>2. CASE P!Stop
  <2>1. P!At("wait")' = {}
    BY <1>2 DEF P!Stop, P!At
  <2> QED
    BY <2>1 DEF Goal
<1>3. ASSUME NEW t \in Tasks, P!RunHere(t) PROVE Goal
  BY <1>0, <1>3 DEF P!RunHere, P!At, Goal
<1>4. ASSUME NEW t \in Tasks, P!Run(t) PROVE Goal
  <2>1. CASE P!At("wait") = {}
    <3>1. P!At("wait")' = {}
      BY <1>4, <2>1 DEF P!Run, P!At
    <3> QED
      BY <3>1 DEF Goal
  <2>2. CASE P!At("wait") # {}
    <3>1. PICK w \in P!At("wait") : pool' = [pool EXCEPT ![w] = "take"]
      BY <1>4, <2>2 DEF P!Run
    <3>2. P!At("take")' = P!At("take") \cup {w} /\ w \in Workers \ P!At("take")
      BY <3>1 DEF P!At, P!TypeOK
    <3>3. P!Cardinality(P!At("take")') = P!Cardinality(P!At("take")) + 1
      BY <1>c, <3>2, WorkerCount
    <3>4. Len(queue_') = Len(queue_) + 1 /\ running_' = running_
      BY <1>4 DEF P!Run, P!TypeOK
    <3> QED
      BY <1>0, <1>n, <2>2, <3>3, <3>4 DEF Goal
  <2> QED
    BY <2>1, <2>2
<1>5. ASSUME NEW w \in Workers, P!StartThread(w) \/ P!TaskReturns(w) PROVE Goal
  <2>1. P!At("wait")' = P!At("wait") /\ P!At("take")' = P!At("take")
    BY <1>5 DEF P!StartThread, P!TaskReturns, P!At, P!TypeOK
  <2> QED
    BY <1>0, <1>5, <2>1 DEF P!StartThread, P!TaskReturns, Goal
<1>6. ASSUME NEW w \in Workers, P!SpuriousWakeup(w) \/ P!TestRunning(w) PROVE Goal
  <2>1. /\ \/ P!At("take")' = P!At("take") \cup {w} /\ w \in Workers \ P!At("take")
           \/ P!At("take")' = P!At("take")
        /\ P!At("wait")' \subseteq P!At("wait")
    BY <1>6 DEF P!SpuriousWakeup, P!TestRunning, P!At, P!TypeOK
  <2>2. /\ P!Cardinality(P!At("take")') >= P!Cardinality(P!At("take"))
        /\ P!At("wait")' # {} => P!At("wait") # {}
    BY <1>c, <1>n, <2>1, WorkerCount
  <2>3. UNCHANGED <<queue_, running_>>
    BY <1>6 DEF P!SpuriousWakeup, P!TestRunning
  <2> QED
    BY <1>0, <1>n, <2>2, <2>3 DEF Goal
<1>7. ASSUME NEW w \in Workers, P!TakeWaits(w) PROVE Goal
  BY <1>n, <1>7 DEF P!TakeWaits, Goal
<1>8. ASSUME NEW w \in Workers, P!TakeNothing(w) PROVE Goal
  <2>1. P!At("wait")' = P!At("wait")
    BY <1>8 DEF P!TakeNothing, P!At, P!TypeOK
  <2> QED
    BY <1>0, <1>n, <1>8, <2>1 DEF P!TakeNothing, Goal
<1>9. ASSUME NEW w \in Workers, P!TakeTask(w) PROVE Goal
  <2>1. /\ P!At("take")' = P!At("take") \ {w} /\ w \in P!At("take")
        /\ P!At("wait")' = P!At("wait")
    BY <1>9 DEF P!TakeTask, P!At, P!TypeOK
  <2>2. P!Cardinality(P!At("take")') = P!Cardinality(P!At("take")) - 1
    BY <1>c, <2>1, WorkerCount
  <2>3. Len(queue_') = Len(queue_) - 1 /\ running_' = running_
    BY <1>9 DEF P!TakeTask, P!TypeOK
  <2> QED
    BY <1>0, <1>n, <2>1, <2>2, <2>3 DEF Goal
<1> QED
  BY <1>1, <1>2, <1>3, <1>4, <1>5, <1>6, <1>7, <1>8, <1>9 DEF P!Next, P!WorkerStep

(* A task that is handed in is new, and goes to the queue or is started.   *)
LEMMA OneMoreTask ==
    ASSUME NEW q \in Seq(Tasks), NEW t \in Tasks, \A i \in DOMAIN q : q[i] # t,
           \A i, j \in DOMAIN q : q[i] = q[j] => i = j
    PROVE  LET r == Append(q, t) IN
           /\ \A u \in Tasks : (\E i \in DOMAIN r : r[i] = u)
                                  <=> (u = t \/ \E i \in DOMAIN q : q[i] = u)
           /\ \A i, j \in DOMAIN r : r[i] = r[j] => i = j
<1> DEFINE r == Append(q, t)
<1>1. /\ r \in Seq(Tasks) /\ Len(r) = Len(q) + 1 /\ Len(q) \in Nat
      /\ \A i \in 1..Len(q) : r[i] = q[i]
      /\ r[Len(q) + 1] = t
      /\ DOMAIN q = 1..Len(q) /\ DOMAIN r = 1..(Len(q) + 1)
  BY AppendProperties, LenProperties
<1> HIDE DEF r
<1>2. \A i \in DOMAIN r : i \in DOMAIN q \/ i = Len(q) + 1
  BY <1>1
<1>3. \A i \in DOMAIN q : i \in DOMAIN r /\ r[i] = q[i] /\ i # Len(q) + 1
  BY <1>1
<1>4. Len(q) + 1 \in DOMAIN r
  BY <1>1
<1>5. \A u \in Tasks : (\E i \in DOMAIN r : r[i] = u)
                          <=> (u = t \/ \E i \in DOMAIN q : q[i] = u)
  BY <1>1, <1>2, <1>3, <1>4
<1>6. \A i, j \in DOMAIN r : r[i] = r[j] => i = j
  BY <1>1, <1>2, <1>3
<1> QED
  BY <1>5, <1>6 DEF r

(* The first task of the queue is taken from it. *)
LEMMA OneLessTask ==
    ASSUME NEW q \in Seq(Tasks), q # << >>, \A i, j \in DOMAIN q : q[i] = q[j] => i = j
    PROVE  LET r == Tail(q) IN
           /\ Head(q) \in Tasks /\ \E i \in DOMAIN q : q[i] = Head(q)
           /\ \A u \in Tasks : (\E i \in DOMAIN r : r[i] = u)
                                  <=> (u # Head(q) /\ \E i \in DOMAIN q : q[i] = u)
           /\ \A i, j \in DOMAIN r : r[i] = r[j] => i = j
<1> DEFINE r == Tail(q)
<1>1. /\ Head(q) \in Tasks /\ Head(q) = q[1]
      /\ Len(q) \in Nat \ {0}
      /\ r \in Seq(Tasks) /\ Len(r) = Len(q) - 1
      /\ \A i \in 1..Len(r) : r[i] = q[i + 1]
      /\ DOMAIN q = 1..Len(q) /\ DOMAIN r = 1..(Len(q) - 1)
  BY HeadTailProperties, LenProperties, EmptySeq
<1> HIDE DEF r
<1>2. \A i \in DOMAIN r : i + 1 \in DOMAIN q /\ i + 1 # 1 /\ r[i] = q[i + 1]
  BY <1>1
<1>3. \A i \in DOMAIN q : i = 1 \/ (i - 1 \in DOMAIN r /\ r[i - 1] = q[i])
  BY <1>1
<1>4. 1 \in DOMAIN q
  BY <1>1
<1>5. \A u \in Tasks : (\E i \in DOMAIN r : r[i] = u)
                          <=> (u # Head(q) /\ \E i \in DOMAIN q : q[i] = u)
  <2> TAKE u \in Tasks
  <2>1. ASSUME NEW i \in DOMAIN r, r[i] = u
        PROVE  u # Head(q) /\ \E j \in DOMAIN q : q[j] = u
    BY <1>1, <1>2, <1>4, <2>1
  <2>2. ASSUME u # Head(q), NEW i \in DOMAIN q, q[i] = u
        PROVE  \E j \in DOMAIN r : r[j] = u
    BY <1>1, <1>3, <2>2
  <2> QED
    BY <2>1, <2>2
<1>6. \A i, j \in DOMAIN r : r[i] = r[j] => i = j
  <2> SUFFICES ASSUME NEW i \in DOMAIN r, NEW j \in DOMAIN r, r[i] = r[j] PROVE i = j
    OBVIOUS
  <2>1. i + 1 = j + 1
    BY <1>2
  <2> QED
    BY <1>1, <2>1
<1> QED
  BY <1>1, <1>4, <1>5, <1>6 DEF r

(* No step of the pool loses, duplicates or runs a task twice. *)
LEMMA PoolTasksStep ==
    P!TypeOK /\ P!RunsOnce /\ QueuedOnce /\ P!Next => P!RunsOnce' /\ QueuedOnce'
<1> SUFFICES ASSUME P!TypeOK, P!RunsOnce, QueuedOnce, P!Next
             PROVE  P!RunsOnce' /\ QueuedOnce'
  OBVIOUS
<1>0. queue_ \in Seq(Tasks) /\ ran \in Seq(Tasks)
  BY DEF P!TypeOK
<1>1. CASE UNCHANGED <<queue_, ran, posted>>
  BY <1>1 DEF P!RunsOnce, P!InQueue, P!HasRun, QueuedOnce
<1>2. ASSUME NEW t \in Tasks, P!RunHere(t) PROVE P!RunsOnce' /\ QueuedOnce'
  <2>1. ~P!InQueue(t) /\ ~P!HasRun(t)
    BY <1>2 DEF P!RunHere, P!RunsOnce
  <2>2. ran' = Append(ran, t) /\ queue_' = queue_ /\ posted' = posted \cup {t}
    BY <1>2 DEF P!RunHere
  <2>3. /\ \A u \in Tasks : P!HasRun(u)' <=> (u = t \/ P!HasRun(u))
        /\ \A i, j \in DOMAIN ran' : ran'[i] = ran'[j] => i = j
    BY <1>0, <2>1, <2>2, OneMoreTask DEF P!HasRun, P!RunsOnce
  <2>4. \A u \in Tasks : P!InQueue(u)' <=> P!InQueue(u)
    BY <2>2 DEF P!InQueue
  <2>5. QueuedOnce'
    BY <2>2 DEF QueuedOnce
  <2> QED
    BY <2>1, <2>2, <2>3, <2>4, <2>5 DEF P!RunsOnce
<1>3. ASSUME NEW t \in Tasks, P!Run(t) PROVE P!RunsOnce' /\ QueuedOnce'
  <2>1. ~P!InQueue(t) /\ ~P!HasRun(t)
    BY <1>3 DEF P!Run, P!RunsOnce
  <2>2. queue_' = Append(queue_, t) /\ ran' = ran /\ posted' = posted \cup {t}
    BY <1>3 DEF P!Run
  <2>3. /\ \A u \in Tasks : P!InQueue(u)' <=> (u = t \/ P!InQueue(u))
        /\ QueuedOnce'
    BY <1>0, <2>1, <2>2, OneMoreTask DEF P!InQueue, QueuedOnce
  <2>4. \A u \in Tasks : P!HasRun(u)' <=> P!HasRun(u)
    BY <2>2 DEF P!HasRun
  <2> QED
    BY <2>1, <2>2, <2>3, <2>4 DEF P!RunsOnce
<1>4. ASSUME NEW w \in Workers, P!TakeTask(w) PROVE P!RunsOnce' /\ QueuedOnce'
  <2>1. /\ queue_ # << >> /\ queue_' = Tail(queue_) /\ posted' = posted
        /\ ran' = Append(ran, Head(queue_))
    BY <1>4 DEF P!TakeTask
  <2>2. /\ Head(queue_) \in Tasks /\ P!InQueue(Head(queue_))
        /\ \A u \in Tasks : P!InQueue(u)' <=> (u # Head(queue_) /\ P!InQueue(u))
        /\ QueuedOnce'
    <3>1. queue_ \in Seq(Tasks) /\ \A i, j \in DOMAIN queue_ : queue_[i] = queue_[j] => i = j
      BY <1>0 DEF QueuedOnce
    <3>2. /\ Head(queue_) \in Tasks /\ \E i \in DOMAIN queue_ : queue_[i] = Head(queue_)
          /\ \A u \in Tasks : (\E i \in DOMAIN queue_' : queue_'[i] = u)
                                <=> (u # Head(queue_) /\ \E i \in DOMAIN queue_ : queue_[i] = u)
          /\ \A i, j \in DOMAIN queue_' : queue_'[i] = queue_'[j] => i = j
      BY <2>1, <3>1, OneLessTask
    <3> QED
      BY <3>2 DEF P!InQueue, QueuedOnce
  <2>3. ~P!HasRun(Head(queue_))
    BY <2>2 DEF P!RunsOnce
  <2>4. /\ \A u \in Tasks : P!HasRun(u)' <=> (u = Head(queue_) \/ P!HasRun(u))
        /\ \A i, j \in DOMAIN ran' : ran'[i] = ran'[j] => i = j
    <3> DEFINE t == Head(queue_)
    <3>1. t \in Tasks /\ ran' = Append(ran, t) /\ \A i \in DOMAIN ran : ran[i] # t
      BY <2>1, <2>2, <2>3 DEF P!HasRun
    <3> HIDE DEF t
    <3>2. /\ \A u \in Tasks : (\E i \in DOMAIN ran' : ran'[i] = u)
                                 <=> (u = t \/ \E i \in DOMAIN ran : ran[i] = u)
          /\ \A i, j \in DOMAIN ran' : ran'[i] = ran'[j] => i = j
      <4>1. ran \in Seq(Tasks) /\ \A i, j \in DOMAIN ran : ran[i] = ran[j] => i = j
        BY <1>0 DEF P!RunsOnce
      <4> QED
        BY <3>1, <4>1, OneMoreTask
    <3> QED
      BY <3>2 DEF P!HasRun, t
  <2> QED
    BY <2>1, <2>2, <2>3, <2>4 DEF P!RunsOnce
<1> QED
  BY <1>1, <1>2, <1>3, <1>4
  DEF P!Next, P!WorkerStep, P!Start, P!Started, P!Stop, P!Joined, P!StartThread,
      P!SpuriousWakeup, P!TestRunning, P!TakeWaits, P!TakeNothing, P!TaskReturns

(* In ThreadPool no notification is lost, no worker waits after stop(),    *)
(* and every task handed in is queued or started, once.                    *)
THEOREM PoolIsSound == SpecAll => []PoolSound
<1>1. InitAll => PoolInv
  <2> SUFFICES ASSUME P!Init PROVE PoolInv
    BY DEF InitAll
  <2>0. /\ queue_ \in Seq(Tasks) /\ ran \in Seq(Tasks)
        /\ pool \in [Workers -> {"none", "while", "take", "wait", "run", "done"}]
    BY EmptySeq DEF P!Init
  <2>1. P!TypeOK
    BY <2>0, Zenon DEF P!Init, P!TypeOK
  <2>2. P!NoLostNotify /\ P!NoWaitAfterStop
    BY DEF P!Init, P!NoLostNotify, P!NoWaitAfterStop, P!At
  <2>3. P!RunsOnce /\ QueuedOnce
    BY DEF P!Init, P!RunsOnce, P!InQueue, P!HasRun, QueuedOnce
  <2> QED
    BY <2>1, <2>2, <2>3 DEF PoolInv, PoolSound, NoLostNotify, NoWaitAfterStop, RunsOnce
<1>2. PoolInv /\ [NextAll]_allVars => PoolInv'
  <2>1. PoolInv /\ P!Next => PoolInv'
    BY PoolTypeStep, PoolNotifyStep, PoolTasksStep
    DEF PoolInv, PoolSound, NoLostNotify, NoWaitAfterStop, RunsOnce
  <2>2. PoolInv /\ UNCHANGED poolVars => PoolInv'
    BY DEF poolVars, PoolInv, PoolSound, NoLostNotify, NoWaitAfterStop, RunsOnce,
           P!TypeOK, P!NoLostNotify, P!NoWaitAfterStop, P!RunsOnce, P!At, P!InQueue,
           P!HasRun, QueuedOnce
  <2> QED
    BY <2>1, <2>2, PoolSteps
<1>3. PoolInv => PoolSound
  BY DEF PoolInv
<1> QED
  BY <1>1, <1>2, <1>3, PTL DEF SpecAll
=============================================================================

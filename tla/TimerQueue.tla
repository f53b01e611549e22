------------------------------ MODULE TimerQueue ------------------------------
(***************************************************************************)
(* net/TimerQueue.cpp, net/Timer.cpp and the timer calls of EventLoop.     *)
(*                                                                         *)
(* Timers live on the heap and are named by address; addresses are reused  *)
(* after delete, which is why a TimerId pairs the address with a sequence  *)
(* number.  Everything but the allocation happens on the loop thread:      *)
(* another thread's addTimer and cancel go through runInLoop, that is      *)
(* through the FIFO queue of functors that EventLoop implements, here ops. *)
(*                                                                         *)
(* Time is in ticks of the 100 us that howMuchTimeFromNow never goes       *)
(* below.  now is the wall clock behind Timestamp::now(); the timerfd runs *)
(* on the monotonic clock, so alarm holds the ticks it still has to wait.  *)
(***************************************************************************)
EXTENDS Integers, Sequences, FiniteSets, FiniteSetsExt

CONSTANTS
    Threads,        \* threads other than the loop's own
    Addr,           \* addresses new Timer can return
    NoTimer,        \* what an address holds when no Timer is there
    Idle,           \* a thread that is not inside addTimer
    MaxTimers,      \* bound: timers created
    MaxOps,         \* bound: functors waiting in the loop
    Horizon,        \* bound: the wall clock stops here
    Intervals,      \* the intervals clients use; 0 is a one-shot timer
    Jumps,          \* by how much the wall clock may be set forward or back
    MaxJumps        \* bound: how often that happens

ASSUME TimerAssumption ==
    /\ MaxTimers \in Nat \ {0}
    /\ MaxOps \in Nat \ {0}
    /\ Horizon \in Nat \ {0}
    /\ Intervals \subseteq Nat
    /\ Jumps \subseteq Nat
    /\ MaxJumps \in Nat
    /\ Idle \notin Addr \X (1..MaxTimers)
    /\ NoTimer \notin [sequence : 1..MaxTimers, expiration : Nat, interval : Intervals]

VARIABLES
    now,                    \* Timestamp::now()
    jumps,                  \* how often the wall clock has been set
    alarm,                  \* ticks until the timerfd expires; 0: disarmed
    readable,               \* the timerfd has expired and has not been read
    reported,               \* poll() reported it; handleRead is to come
    heap,                   \* the Timer objects
    created,                \* Timer::s_numCreated_
    timers_,                \* pairs of an expiration and an address
    activeTimers_,          \* pairs of an address and a sequence number
    callingExpiredTimers_,
    cancelingTimers_,
    expired,                \* the entries handleRead has taken out
    toRun,                  \* those whose callback is still to come
    batchNow,               \* the now of handleRead
    ops,                    \* functors queued by other threads
    returning,              \* what a thread inside addTimer has allocated
    ids,                    \* TimerIds that clients hold
    runs,                   \* how often each timer has run, at most counted to 2
    cancelled               \* how cancelInLoop met each timer, if it did

clockVars == <<now, jumps>>
fdVars == <<alarm, readable>>
listVars == <<timers_, activeTimers_>>
batchVars == <<callingExpiredTimers_, expired, toRun, batchNow>>
vars == <<clockVars, fdVars, reported, heap, created, listVars, cancelingTimers_,
          batchVars, ops, returning, ids, runs, cancelled>>

Seqs == 1..MaxTimers
Timer(seq, when, interval) ==
    [sequence |-> seq, expiration |-> when, interval |-> interval]
Repeat(a) == heap[a].interval > 0
Live == {a \in Addr : heap[a] # NoTimer}

AddOp(a) == <<"addTimerInLoop", a, 0>>
CancelOp(id) == <<"cancelInLoop", id[1], id[2]>>

TypeOK ==
    /\ now \in 1..Horizon
    /\ jumps \in 0..MaxJumps
    /\ alarm \in Nat
    /\ readable \in BOOLEAN
    /\ reported \in BOOLEAN
    /\ \A a \in Live : /\ heap[a].sequence \in 1..created
                       /\ heap[a].expiration \in Nat
                       /\ heap[a].interval \in Intervals
    /\ created \in 0..MaxTimers
    /\ timers_ \subseteq Nat \X Addr
    /\ activeTimers_ \subseteq Addr \X Seqs
    /\ callingExpiredTimers_ \in BOOLEAN
    /\ cancelingTimers_ \subseteq Addr \X Seqs
    /\ expired \subseteq Nat \X Addr
    /\ toRun \subseteq expired
    /\ batchNow \in 0..Horizon
    /\ \A i \in 1..Len(ops) : ops[i][2] \in Addr
    /\ Len(ops) <= MaxOps
    /\ returning \in [Threads -> (Addr \X Seqs) \cup {Idle}]
    /\ ids \subseteq Addr \X Seqs
    /\ runs \in [Seqs -> 0..2]
    /\ cancelled \in [Seqs -> {"no", "pending", "active", "expired"}]

Init ==
    /\ now = 1
    /\ jumps = 0
    /\ alarm = 0
    /\ readable = FALSE
    /\ reported = FALSE
    /\ heap = [a \in Addr |-> NoTimer]
    /\ created = 0
    /\ timers_ = {}
    /\ activeTimers_ = {}
    /\ callingExpiredTimers_ = FALSE
    /\ cancelingTimers_ = {}
    /\ expired = {}
    /\ toRun = {}
    /\ batchNow = 0
    /\ ops = <<>>
    /\ returning = [t \in Threads |-> Idle]
    /\ ids = {}
    /\ runs = [s \in Seqs |-> 0]
    /\ cancelled = [s \in Seqs |-> "no"]

-----------------------------------------------------------------------------
(* The clocks. *)

(* Time passes.  At the Horizon the wall clock stops; the timerfd does not. *)
Tick ==
    /\ now' = IF now < Horizon THEN now + 1 ELSE now
    /\ alarm' = IF alarm > 0 THEN alarm - 1 ELSE 0
    /\ readable' = (readable \/ alarm = 1)
    /\ UNCHANGED <<jumps, reported, heap, created, listVars, cancelingTimers_,
                   batchVars, ops, returning, ids, runs, cancelled>>

(* Somebody sets the wall clock; the timerfd does not notice. *)
ClockJump ==
    /\ jumps < MaxJumps
    /\ jumps' = jumps + 1
    /\ \E j \in Jumps : now' \in {now + j, now - j} \cap 1..Horizon
    /\ UNCHANGED <<fdVars, reported, heap, created, listVars, cancelingTimers_,
                   batchVars, ops, returning, ids, runs, cancelled>>

(* howMuchTimeFromNow *)
HowMuchTimeFromNow(when) == IF when - now < 1 THEN 1 ELSE when - now

(* timerfd_settime forgets an expiration that has not been read. *)
ResetTimerfd(expiration) ==
    /\ alarm' = HowMuchTimeFromNow(expiration)
    /\ readable' = FALSE

-----------------------------------------------------------------------------
(* addTimer *)

(* The loop thread runs client code: another channel's callback, or a      *)
(* timer's callback, in which case at least one of the batch has started.  *)
InLoopCallback == callingExpiredTimers_ => expired # toRun

(* insert() reports whether the new timer is now the first to expire. *)
EarliestChanged(when) == \A e \in timers_ : when < e[1]

(* addTimerInLoop *)
AddTimerInLoop(a, timer) ==
    /\ timers_' = timers_ \cup {<<timer.expiration, a>>}
    /\ activeTimers_' = activeTimers_ \cup {<<a, timer.sequence>>}
    /\ IF EarliestChanged(timer.expiration)
       THEN ResetTimerfd(timer.expiration)
       ELSE UNCHANGED fdVars

(* new Timer(cb, when, interval); one address is as good as another for    *)
(* the first one.                                                          *)
NewTimer(a, when, interval) ==
    /\ created < MaxTimers
    /\ created = 0 => a = CHOOSE b \in Addr : TRUE
    /\ heap[a] = NoTimer
    /\ created' = created + 1
    /\ heap' = [heap EXCEPT ![a] = Timer(created + 1, when, interval)]

(* addTimer on the loop thread: runInLoop calls addTimerInLoop at once. *)
LoopAdds(a, when, interval) ==
    /\ InLoopCallback
    /\ NewTimer(a, when, interval)
    /\ AddTimerInLoop(a, Timer(created + 1, when, interval))
    /\ ids' = ids \cup {<<a, created + 1>>}
    /\ UNCHANGED <<clockVars, reported, cancelingTimers_, batchVars, ops, returning,
                   runs, cancelled>>

(* addTimer on another thread, up to the queueing of addTimerInLoop ... *)
ThreadAdds(t, a, when, interval) ==
    /\ returning[t] = Idle
    /\ Len(ops) < MaxOps
    /\ NewTimer(a, when, interval)
    /\ ops' = Append(ops, AddOp(a))
    /\ returning' = [returning EXCEPT ![t] = <<a, created + 1>>]
    /\ UNCHANGED <<clockVars, fdVars, reported, listVars, cancelingTimers_, batchVars,
                   ids, runs, cancelled>>

(* ... and its return, which reads timer->sequence(): once the Timer is    *)
(* deleted this yields what the memory holds, the old number or that of    *)
(* the Timer that has taken its place.                                     *)
ThreadAddReturns(t) ==
    /\ returning[t] # Idle
    /\ LET a == returning[t][1]
       IN  \E s \in {returning[t][2]} \cup
                    (IF heap[a] = NoTimer THEN {} ELSE {heap[a].sequence}) :
             ids' = ids \cup {<<a, s>>}
    /\ returning' = [returning EXCEPT ![t] = Idle]
    /\ UNCHANGED <<clockVars, fdVars, reported, heap, created, listVars, cancelingTimers_,
                   batchVars, ops, runs, cancelled>>

-----------------------------------------------------------------------------
(* cancel *)

(* Mutant: a TimerId is looked up by its address alone. *)
FoundByAddress(id) == {x \in activeTimers_ : x[1] = id[1]}

(* activeTimers_.find(timer) *)
Found(id) == {x \in activeTimers_ : x = id}

(* How a cancelInLoop meets the timer it names (bookkeeping). *)
Meets(id) ==
    CASE id \in activeTimers_ -> "active"
      [] \E e \in expired : e[2] = id[1] /\ heap[id[1]].sequence = id[2]
            -> "expired"
      [] \E i \in 1..Len(ops) : /\ ops[i] = AddOp(id[1])
                                /\ heap[id[1]].sequence = id[2]
            -> "pending"
      [] OTHER -> cancelled[id[2]]

(* cancelInLoop *)
CancelInLoop(id) ==
    /\ IF Found(id) # {}
       THEN /\ timers_' = timers_ \ {<<heap[id[1]].expiration, id[1]>>}
            /\ activeTimers_' = activeTimers_ \ Found(id)
            /\ heap' = [heap EXCEPT ![id[1]] = NoTimer]
            /\ UNCHANGED cancelingTimers_
       ELSE /\ cancelingTimers_' = IF callingExpiredTimers_
                                   THEN cancelingTimers_ \cup {id}
                                   ELSE cancelingTimers_
            /\ UNCHANGED <<heap, timers_, activeTimers_>>
    /\ cancelled' = [cancelled EXCEPT ![id[2]] = Meets(id)]
    /\ UNCHANGED <<clockVars, fdVars, reported, created, batchVars, returning, ids, runs>>

(* cancel on the loop thread: cancelInLoop runs at once. *)
LoopCancels(id) ==
    /\ InLoopCallback
    /\ id \in ids
    /\ CancelInLoop(id)
    /\ UNCHANGED ops

(* Mutant: cancelInLoop is put before what is queued. *)
ThreadCancelsFirst(id) ==
    /\ id \in ids
    /\ Len(ops) < MaxOps
    /\ ops' = <<CancelOp(id)>> \o ops
    /\ UNCHANGED <<clockVars, fdVars, reported, heap, created, listVars, cancelingTimers_,
                   batchVars, returning, ids, runs, cancelled>>

(* cancel on another thread: cancelInLoop is queued. *)
ThreadCancels(id) ==
    /\ id \in ids
    /\ Len(ops) < MaxOps
    /\ ops' = Append(ops, CancelOp(id))
    /\ UNCHANGED <<clockVars, fdVars, reported, heap, created, listVars, cancelingTimers_,
                   batchVars, returning, ids, runs, cancelled>>

(* doPendingFunctors, after the events of the round, reaches what another   *)
(* thread has queued.                                                      *)
RunOp ==
    /\ ~reported
    /\ ~callingExpiredTimers_
    /\ ops # <<>>
    /\ ops' = Tail(ops)
    /\ LET op == Head(ops)
           a == op[2]
       IN  IF op = AddOp(a)
           THEN /\ AddTimerInLoop(a, heap[a])
                /\ UNCHANGED <<clockVars, reported, heap, created, cancelingTimers_,
                               batchVars, returning, ids, runs, cancelled>>
           ELSE CancelInLoop(<<a, op[3]>>)

-----------------------------------------------------------------------------
(* Expiration *)

(* poll() reports timerfdChannel_; callbacks of other channels of the same *)
(* round may still run before handleRead.                                  *)
Poll ==
    /\ ~callingExpiredTimers_
    /\ readable /\ ~reported
    /\ reported' = TRUE
    /\ UNCHANGED <<clockVars, fdVars, heap, created, listVars, cancelingTimers_, batchVars,
                   ops, returning, ids, runs, cancelled>>

(* Mutant: the sentry of getExpired is compared the wrong way at now. *)
DueStrictly == {e \in timers_ : e[1] < now}

(* getExpired: the entries below the sentry (now, UINTPTR_MAX). *)
Due == {e \in timers_ : e[1] <= now}

(* handleRead up to its first callback; the read of the timerfd fails, and *)
(* is only logged, when another callback has set it again.                 *)
HandleRead ==
    /\ reported
    /\ ~callingExpiredTimers_
    /\ reported' = FALSE
    /\ readable' = FALSE
    /\ batchNow' = now
    /\ expired' = Due
    /\ toRun' = Due
    /\ timers_' = timers_ \ Due
    /\ activeTimers_' = activeTimers_ \ {<<e[2], heap[e[2]].sequence>> : e \in Due}
    /\ callingExpiredTimers_' = TRUE
    /\ cancelingTimers_' = {}
    /\ UNCHANGED <<clockVars, alarm, heap, created, ops, returning, ids, runs, cancelled>>

(* The next callback of the batch, in the order of timers_. *)
RunTimer(e) ==
    /\ e \in toRun
    /\ \A d \in toRun : e[1] <= d[1]
    /\ toRun' = toRun \ {e}
    /\ LET s == heap[e[2]].sequence
       IN  runs' = [runs EXCEPT ![s] = IF @ < 2 THEN @ + 1 ELSE 2]
    /\ UNCHANGED <<clockVars, fdVars, reported, heap, created, listVars, cancelingTimers_,
                   callingExpiredTimers_, expired, batchNow, ops, returning, ids,
                   cancelled>>

(* Mutant: cancelingTimers_ is not consulted. *)
RestartsAlways(a) == Repeat(a)

(* The condition of reset() for a timer to be started again. *)
Restarts(a) == Repeat(a) /\ <<a, heap[a].sequence>> \notin cancelingTimers_

(* The expiration that Timer::restart gives a repeating timer. *)
restart(a) == batchNow + heap[a].interval

(* Mutant: the timerfd is armed before the repeating timers are back. *)
NextExpireTooSoon(list) == IF timers_ = {} THEN 0 ELSE Min({e[1] : e \in timers_})

(* nextExpire of reset(): the first expiration, or an invalid Timestamp. *)
NextExpire(list) == IF list = {} THEN 0 ELSE Min({e[1] : e \in list})

(* The end of handleRead: reset(expired, now) starts repeating timers      *)
(* again, deletes the others, and sets the timerfd if there is a valid     *)
(* next expiration.                                                        *)
Reset ==
    /\ callingExpiredTimers_
    /\ toRun = {}
    /\ callingExpiredTimers_' = FALSE
    /\ LET batch == {e[2] : e \in expired}
           again == {a \in batch : Restarts(a)}
       IN  /\ heap' = [a \in Addr |->
                         CASE a \in again -> [heap[a] EXCEPT !.expiration = restart(a)]
                           [] a \in batch \ again -> NoTimer
                           [] OTHER -> heap[a]]
           /\ timers_' = timers_ \cup {<<restart(a), a>> : a \in again}
           /\ activeTimers_' =
                activeTimers_ \cup {<<a, heap[a].sequence>> : a \in again}
    /\ IF NextExpire(timers_') > 0
       THEN ResetTimerfd(NextExpire(timers_'))
       ELSE UNCHANGED fdVars
    /\ expired' = {} /\ batchNow' = 0
    /\ UNCHANGED <<clockVars, reported, created, cancelingTimers_, toRun, ops,
                   returning, ids, runs, cancelled>>

LoopStep ==
    \/ RunOp
    \/ Poll
    \/ HandleRead
    \/ \E e \in toRun : RunTimer(e)
    \/ Reset

ClientStep ==
    \/ \E a \in Addr, when \in 0..Horizon, i \in Intervals :
         \/ LoopAdds(a, when, i)
         \/ \E t \in Threads : ThreadAdds(t, a, when, i)
    \/ \E t \in Threads : ThreadAddReturns(t)
    \/ \E id \in ids : LoopCancels(id) \/ ThreadCancels(id)

Next == Tick \/ ClockJump \/ LoopStep \/ ClientStep

Spec == Init /\ [][Next]_vars

(* Time passes, and the loop thread is scheduled: each of its rounds polls, *)
(* handles what was reported and runs the functors queued until then.      *)
FairSpec ==
    /\ Spec
    /\ WF_vars(Tick)
    /\ WF_vars(RunOp)
    /\ WF_vars(Poll)
    /\ WF_vars(HandleRead)
    /\ WF_vars(\E e \in toRun : RunTimer(e))
    /\ WF_vars(Reset)

-----------------------------------------------------------------------------
(* Properties. *)

(***************************************************************************)
(* timers_ and activeTimers_ hold the same timers, under their current     *)
(* expiration and sequence number: what the assertions on the sizes, on    *)
(* erase and on insert in TimerQueue.cpp rely on.                          *)
(***************************************************************************)
SameData ==
    /\ timers_ = {<<heap[x[1]].expiration, x[1]>> : x \in activeTimers_}
    /\ activeTimers_ = {<<e[2], heap[e[2]].sequence>> : e \in timers_}

(***************************************************************************)
(* Every Timer on the heap is reachable from exactly one place (the two    *)
(* sets, the batch of handleRead, or a queued addTimerInLoop), and no      *)
(* place refers to a deleted Timer: nothing leaks and nothing dangles.     *)
(***************************************************************************)
Places(a) ==
    Cardinality({e \in timers_ : e[2] = a})
    + Cardinality({e \in expired : e[2] = a})
    + Cardinality({i \in 1..Len(ops) : ops[i] = AddOp(a)})

OneOwner == \A a \in Addr : Places(a) = IF a \in Live THEN 1 ELSE 0

(***************************************************************************)
(* A Timer is deleted only when it is a one-shot timer that has run once,  *)
(* or when it is cancelled by its own TimerId; an old TimerId whose        *)
(* address has been reused deletes nothing.                                *)
(***************************************************************************)
DeletedWhenOver ==
    [][\A a \in Live :
         heap'[a] = NoTimer =>
            \/ ~Repeat(a) /\ runs[heap[a].sequence] = 1
            \/ cancelled'[heap[a].sequence] \in {"active", "expired"}]_vars

(***************************************************************************)
(* A cancelInLoop that another thread queued never comes before the        *)
(* addTimerInLoop of its timer, whoever queued that: it finds the timer    *)
(* waiting, in the batch, or over.  (A cancel on the loop thread may be    *)
(* too early, see the README.)                                             *)
(***************************************************************************)
CancelsReach ==
    [][\A s \in Seqs : (cancelled'[s] = "pending" /\ cancelled[s] # "pending") => ops' = ops]_vars

(***************************************************************************)
(* A timer that cancelInLoop found, waiting or in the running batch, never *)
(* waits again once the batch is over; a repeating timer can cancel itself *)
(* from its own callback.                                                  *)
(***************************************************************************)
CancelledStaysOut ==
    ~callingExpiredTimers_ =>
        \A x \in activeTimers_ : cancelled[x[2]] \notin {"active", "expired"}

(***************************************************************************)
(* While timers wait, an expiration of the timerfd is to come or has come  *)
(* and will be handled, even when the wall clock is set: a settime never   *)
(* discards the last alarm.                                                *)
(***************************************************************************)
NoLostAlarm ==
    timers_ # {} /\ ~callingExpiredTimers_ => alarm > 0 \/ readable \/ reported

(***************************************************************************)
(* While nobody sets the wall clock, the timerfd expires no later than the *)
(* first timer, or one tick from now when that has passed.                 *)
(***************************************************************************)
AlarmOnTime ==
    jumps = 0 /\ timers_ # {} /\ ~callingExpiredTimers_ /\ ~readable /\ ~reported =>
        \A e \in timers_ : now + alarm <= e[1] \/ alarm = 1

(***************************************************************************)
(* Every timer that reaches the loop runs, unless it is cancelled, also    *)
(* when the wall clock is set meanwhile.                                   *)
(***************************************************************************)
TimersRun ==
    \A s \in Seqs :
        (\E x \in activeTimers_ : x[2] = s) ~> (runs[s] > 0 \/ cancelled[s] # "no")

(***************************************************************************)
(* addTimer on another thread returns the TimerId of the timer it made:    *)
(* the Timer whose sequence number it reads still exists ("Must be thread  *)
(* safe").                                                                 *)
(***************************************************************************)
ReturnsOwnId ==
    \A t \in Threads :
        returning[t] # Idle =>
            LET a == returning[t][1]
            IN  a \in Live /\ heap[a].sequence = returning[t][2]

(***************************************************************************)
(* timers_ and activeTimers_ agree, and every Timer that exists is in      *)
(* exactly one place of the queue, the batch or the functors, so that none *)
(* leaks and none is reached after its deletion; a timer that was found    *)
(* and cancelled is never put back.                                        *)
(***************************************************************************)
ListsSound ==
    /\ TypeOK
    /\ SameData
    /\ OneOwner
    /\ CancelledStaysOut

(***************************************************************************)
(* While timers wait, the timerfd will expire: also when the wall clock is *)
(* set, and not after the first timer is due when it is not.               *)
(***************************************************************************)
AlarmSound ==
    /\ NoLostAlarm
    /\ AlarmOnTime
=============================================================================

---------------------------- MODULE PoolWithLatch ----------------------------
(***************************************************************************)
(* A ThreadPool and a CountDownLatch together, as test/ThreadPool_test.cpp *)
(* uses them: some of the tasks handed to the pool call countDown(), and   *)
(* threads wait() for them.  The owner may stop the pool before that.      *)
(***************************************************************************)
EXTENDS CountDownLatch, Sequences

CONSTANTS
    Workers,
    Tasks,          \* those in Counters call countDown() once
    NoTask

ASSUME PoolAssumption ==
    /\ IsFiniteSet(Workers)
    /\ Counters \subseteq Tasks
    /\ NoTask \notin Tasks

VARIABLES
    owner, running_, queue_, pool, posted, ran,     \* see ThreadPool
    doing           \* the task each worker is in

poolVars == <<owner, running_, queue_, pool, posted, ran>>
allVars == <<vars, poolVars, doing>>

P == INSTANCE ThreadPool WITH wpc <- pool

InitAll ==
    /\ Init
    /\ P!Init
    /\ doing = [w \in Workers |-> NoTask]

(* Waiters call wait() whenever they like. *)
WaiterSteps(w) ==
    /\ WaiterStep(w)
    /\ UNCHANGED <<poolVars, doing>>

WaiterOther(w) ==
    /\ CallWait(w) \/ SpuriousWakeup(w)
    /\ UNCHANGED <<poolVars, doing>>

(* A worker takes a task, counts down in it if the task does, and returns. *)
TakeTask(w) ==
    /\ P!TakeTask(w)
    /\ doing' = [doing EXCEPT ![w] = Head(queue_)]
    /\ UNCHANGED vars

TaskCounts(w) ==
    /\ doing[w] \in Counters
    /\ CountDown(doing[w])
    /\ UNCHANGED <<poolVars, doing>>

TaskReturns(w) ==
    /\ doing[w] \in Counters => doing[w] \in counted
    /\ P!TaskReturns(w)
    /\ doing' = [doing EXCEPT ![w] = NoTask]
    /\ UNCHANGED vars

WorkerTakes(w) ==
    /\ P!TestRunning(w) \/ P!TakeWaits(w) \/ P!TakeNothing(w)
    /\ UNCHANGED <<vars, doing>>

WorkerStep(w) ==
    WorkerTakes(w) \/ TakeTask(w) \/ TaskCounts(w) \/ TaskReturns(w)

WorkerWakes(w) == P!SpuriousWakeup(w) /\ UNCHANGED <<vars, doing>>

(* A task the caller runs itself. *)
RunHere(t) ==
    /\ P!RunHere(t)
    /\ IF t \in Counters THEN CountDown(t) ELSE UNCHANGED vars
    /\ UNCHANGED doing

Run(t) == P!Run(t) /\ UNCHANGED <<vars, doing>>

(* The owner. *)
StartThread(w) == P!StartThread(w) /\ UNCHANGED <<vars, doing>>
Calls == (P!Start \/ P!Stop) /\ UNCHANGED <<vars, doing>>
Returns == (P!Started \/ P!Joined) /\ UNCHANGED <<vars, doing>>

NextAll ==
    \/ Calls
    \/ Returns
    \/ \E t \in Tasks : RunHere(t) \/ Run(t)
    \/ \E w \in Workers : StartThread(w) \/ WorkerStep(w) \/ WorkerWakes(w)
    \/ \E w \in Waiters : WaiterSteps(w) \/ WaiterOther(w)

(* Workers, waiters that are not blocked, and an owner inside start() or   *)
(* stop() are scheduled and get the mutex, and tasks return; nobody need   *)
(* ever call run(), start() or stop(), and no wait ends by itself.         *)
Fairness ==
    /\ \A w \in Workers : WF_allVars(WorkerStep(w)) /\ WF_allVars(StartThread(w))
    /\ \A w \in Waiters : WF_allVars(WaiterSteps(w))
    /\ WF_allVars(Returns)

SpecAll == InitAll /\ [][NextAll]_allVars /\ Fairness

-----------------------------------------------------------------------------
(* Properties. *)

(***************************************************************************)
(* While a worker waits in ThreadPool::take(), every queued task has an    *)
(* awake worker: one notify() per run() is enough, although it is lost     *)
(* when nobody waits and a busy worker takes no notice of it.              *)
(***************************************************************************)
NoLostNotify == P!NoLostNotify

(***************************************************************************)
(* No worker waits after ThreadPool::stop() has broadcast, so that join()  *)
(* returns: running_ is tested in take() under the mutex stop() holds.     *)
(***************************************************************************)
NoWaitAfterStop == P!NoWaitAfterStop

(***************************************************************************)
(* Every task handed to ThreadPool::run() is queued or has been started,   *)
(* never both and never twice, also when it is handed in by a task, during *)
(* stop() or after it.                                                     *)
(***************************************************************************)
RunsOnce == P!RunsOnce

Stopping == owner \in {"joining", "stopped"}

(***************************************************************************)
(* A task handed to a running pool is started, unless the pool is stopped  *)
(* first, in which case it may be dropped.                                 *)
(***************************************************************************)
TasksRun == \A t \in Tasks : (t \in posted) ~> (P!HasRun(t) \/ Stopping)

(* stop() returns when every running task does. *)
StopReturns == (owner = "joining") ~> (owner = "stopped")

(***************************************************************************)
(* Every CountDownLatch::wait() returns once enough tasks that count down  *)
(* have been handed to a pool that goes on running.                        *)
(***************************************************************************)
WaitersPass ==
    \A w \in Waiters :
        (wpc[w] = "wait" /\ Cardinality(posted \cap Counters) >= Count)
            ~> (wpc[w] = "passed" \/ Stopping)

(***************************************************************************)
(* No task of the ThreadPool is lost on a waiting worker or run twice, and *)
(* no worker waits once stop() has broadcast.                              *)
(***************************************************************************)
PoolSound ==
    /\ P!TypeOK
    /\ NoLostNotify
    /\ NoWaitAfterStop
    /\ RunsOnce

(***************************************************************************)
(* Tasks run and those who wait for them on the latch pass, or the pool is *)
(* stopped; stop() returns.                                                *)
(***************************************************************************)
PoolProgress ==
    /\ TasksRun
    /\ WaitersPass
    /\ StopReturns
=============================================================================

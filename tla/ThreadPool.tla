------------------------------ MODULE ThreadPool ------------------------------
(***************************************************************************)
(* base/ThreadPool.cpp: the owner starts workers, the owner, other threads *)
(* and tasks hand in tasks with run(), and the owner stops the pool.       *)
(*                                                                         *)
(* A worker is "none" before its start(), at the test of the while of      *)
(* runInThread ("while"), about to lock in take() ("take"), waiting on     *)
(* cond_ ("wait"), in a task ("run") or past the while ("done").  What a   *)
(* thread does under mutex_ is one step; a wait may return for no reason.  *)
(***************************************************************************)
EXTENDS Naturals, Sequences, FiniteSets

CONSTANTS
    Workers,        \* the threads that start() creates, finitely many
    Tasks           \* calls of run(), one element per call

VARIABLES
    owner,          \* "new", "starting", "up", "joining" or "stopped"
    running_,
    queue_,
    wpc,
    posted,         \* calls of run() so far
    ran             \* tasks started, in this order

vars == <<owner, running_, queue_, wpc, posted, ran>>

TypeOK ==
    /\ owner \in {"new", "starting", "up", "joining", "stopped"}
    /\ running_ \in BOOLEAN
    /\ queue_ \in Seq(Tasks)
    /\ wpc \in [Workers -> {"none", "while", "take", "wait", "run", "done"}]
    /\ posted \subseteq Tasks
    /\ ran \in Seq(Tasks)

Init ==
    /\ owner = "new"
    /\ running_ = FALSE
    /\ queue_ = <<>>
    /\ wpc = [w \in Workers |-> "none"]
    /\ posted = {}
    /\ ran = <<>>

At(pc) == {w \in Workers : wpc[w] = pc}

(* threads_, which stop() does not clear. *)
threads_ == Workers \ At("none")

-----------------------------------------------------------------------------
(* The owner. *)

Start ==
    /\ owner = "new"
    /\ owner' = "starting"
    /\ running_' = TRUE
    /\ UNCHANGED <<queue_, wpc, posted, ran>>

(* One round of the for: the worker runs while others are yet to be made. *)
StartThread(w) ==
    /\ owner = "starting"
    /\ wpc[w] = "none"
    /\ wpc' = [wpc EXCEPT ![w] = "while"]
    /\ UNCHANGED <<owner, running_, queue_, posted, ran>>

Started ==
    /\ owner = "starting"
    /\ At("none") = {}
    /\ owner' = "up"
    /\ UNCHANGED <<running_, queue_, wpc, posted, ran>>

(* Mutant: stop() wakes one worker only. *)
StopNotifiesOne ==
    /\ owner = "up"
    /\ running_' = FALSE
    /\ IF At("wait") = {} THEN UNCHANGED wpc
       ELSE \E w \in At("wait") : wpc' = [wpc EXCEPT ![w] = "take"]
    /\ owner' = "joining"
    /\ UNCHANGED <<queue_, posted, ran>>

(* stop(), or the destructor: the critical section ... *)
Stop ==
    /\ owner = "up"
    /\ running_' = FALSE
    /\ wpc' = [w \in Workers |-> IF wpc[w] = "wait" THEN "take" ELSE wpc[w]]
    /\ owner' = "joining"
    /\ UNCHANGED <<queue_, posted, ran>>

(* ... and the last join(). *)
Joined ==
    /\ owner = "joining"
    /\ At("done") = Workers
    /\ owner' = "stopped"
    /\ UNCHANGED <<running_, queue_, wpc, posted, ran>>

-----------------------------------------------------------------------------
(* run() *)

(* Without threads the task is run by the caller. *)
RunHere(t) ==
    /\ owner # "starting"
    /\ threads_ = {}
    /\ t \notin posted
    /\ posted' = posted \cup {t}
    /\ ran' = Append(ran, t)
    /\ UNCHANGED <<owner, running_, queue_, wpc>>

(* The owner or another thread once start() has returned, or a task.  The  *)
(* pool does not refuse a task after stop(): it is queued for nobody.      *)
Run(t) ==
    /\ owner \in {"up", "joining", "stopped"} \/ At("run") # {}
    /\ threads_ # {}
    /\ t \notin posted
    /\ posted' = posted \cup {t}
    /\ queue_' = Append(queue_, t)
    /\ IF At("wait") = {} THEN UNCHANGED wpc
       ELSE \E w \in At("wait") : wpc' = [wpc EXCEPT ![w] = "take"]
    /\ UNCHANGED <<owner, running_, ran>>

-----------------------------------------------------------------------------
(* runInThread() and take() *)

TestRunning(w) ==
    /\ wpc[w] = "while"
    /\ wpc' = [wpc EXCEPT ![w] = IF running_ THEN "take" ELSE "done"]
    /\ UNCHANGED <<owner, running_, queue_, posted, ran>>

TakeWaits(w) ==
    /\ wpc[w] = "take"
    /\ queue_ = <<>>
    /\ running_
    /\ wpc' = [wpc EXCEPT ![w] = "wait"]
    /\ UNCHANGED <<owner, running_, queue_, posted, ran>>

(* take() returns a task, also after stop(), and the worker runs it ... *)
TakeTask(w) ==
    /\ wpc[w] = "take"
    /\ queue_ # <<>>
    /\ queue_' = Tail(queue_)
    /\ ran' = Append(ran, Head(queue_))
    /\ wpc' = [wpc EXCEPT ![w] = "run"]
    /\ UNCHANGED <<owner, running_, posted>>

(* Mutant: a worker that finds no task leaves. *)
TakeNothingLeaves(w) ==
    /\ wpc[w] = "take"
    /\ queue_ = <<>>
    /\ wpc' = [wpc EXCEPT ![w] = "done"]
    /\ UNCHANGED <<owner, running_, queue_, posted, ran>>

(* ... or, after stop(), none. *)
TakeNothing(w) ==
    /\ wpc[w] = "take"
    /\ queue_ = <<>>
    /\ ~running_
    /\ wpc' = [wpc EXCEPT ![w] = "while"]
    /\ UNCHANGED <<owner, running_, queue_, posted, ran>>

TaskReturns(w) ==
    /\ wpc[w] = "run"
    /\ wpc' = [wpc EXCEPT ![w] = "while"]
    /\ UNCHANGED <<owner, running_, queue_, posted, ran>>

SpuriousWakeup(w) ==
    /\ wpc[w] = "wait"
    /\ wpc' = [wpc EXCEPT ![w] = "take"]
    /\ UNCHANGED <<owner, running_, queue_, posted, ran>>

WorkerStep(w) ==
    \/ TestRunning(w)
    \/ TakeWaits(w)
    \/ TakeTask(w)
    \/ TakeNothing(w)
    \/ TaskReturns(w)

Next ==
    \/ Start
    \/ Started
    \/ Stop
    \/ Joined
    \/ \E t \in Tasks : RunHere(t) \/ Run(t)
    \/ \E w \in Workers : StartThread(w) \/ WorkerStep(w) \/ SpuriousWakeup(w)

Spec == Init /\ [][Next]_vars

-----------------------------------------------------------------------------
(* Properties. *)

(***************************************************************************)
(* While a worker waits, every queued task has an awake worker in take():  *)
(* one notify() per run() is enough, although it is lost when nobody waits *)
(* and a busy worker takes no notice of it.                                *)
(***************************************************************************)
NoLostNotify == At("wait") # {} => Len(queue_) <= Cardinality(At("take"))

(***************************************************************************)
(* No worker waits after stop() has broadcast, so that join() returns: the *)
(* test of running_ in take() is under the mutex that stop() holds.        *)
(***************************************************************************)
NoWaitAfterStop == At("wait") # {} => running_

(* Every task handed in is either queued or started, and never twice.      *)
InQueue(t) == \E i \in DOMAIN queue_ : queue_[i] = t
HasRun(t) == \E i \in DOMAIN ran : ran[i] = t

RunsOnce ==
    /\ \A t \in Tasks : t \in posted <=> (InQueue(t) \/ HasRun(t))
    /\ \A t \in Tasks : ~(InQueue(t) /\ HasRun(t))
    /\ \A i, j \in DOMAIN ran : ran[i] = ran[j] => i = j
=============================================================================

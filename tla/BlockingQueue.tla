---------------------------- MODULE BlockingQueue ----------------------------
(***************************************************************************)
(* base/BlockingQueue.h: an unbounded queue under a mutex, with a          *)
(* condition for takers.  A thread is "idle", about to lock or lock again  *)
(* in take() ("take") or waiting ("notEmpty"); what it does under the      *)
(* mutex is one step, and so is put(), which never waits.                  *)
(***************************************************************************)
EXTENDS Integers, Sequences, FiniteSets

CONSTANTS
    Threads,
    Values,
    NoValue,            \* no result yet
    MaxQueue            \* bound: elements in queue_

ASSUME QueueAssumption ==
    /\ IsFiniteSet(Threads)
    /\ NoValue \notin Values
    /\ MaxQueue \in Nat

VARIABLES
    queue_,
    tpc,
    taken               \* the result of each thread's last take()

vars == <<queue_, tpc, taken>>

TypeOK ==
    /\ queue_ \in Seq(Values)
    /\ tpc \in [Threads -> {"idle", "take", "notEmpty"}]
    /\ taken \in [Threads -> Values \cup {NoValue}]

Init ==
    /\ queue_ = <<>>
    /\ tpc = [t \in Threads |-> "idle"]
    /\ taken = [t \in Threads |-> NoValue]

Waiting == {t \in Threads : tpc[t] = "notEmpty"}
Awake == {t \in Threads : tpc[t] = "take"}

(* pthread_cond_signal wakes one waiter if there is one. *)
notify ==
    IF Waiting = {} THEN UNCHANGED tpc
    ELSE \E w \in Waiting : tpc' = [tpc EXCEPT ![w] = "take"]

(* Mutant: put() notifies only when the queue was empty. *)
PutNotifiesOnEdge(t, x) ==
    /\ tpc[t] = "idle"
    /\ Len(queue_) < MaxQueue
    /\ queue_' = Append(queue_, x)
    /\ IF queue_ = <<>> THEN notify ELSE UNCHANGED tpc
    /\ UNCHANGED taken

Put(t, x) ==
    /\ tpc[t] = "idle"
    /\ Len(queue_) < MaxQueue
    /\ queue_' = Append(queue_, x)
    /\ notify
    /\ UNCHANGED taken

CallTake(t) ==
    /\ tpc[t] = "idle"
    /\ tpc' = [tpc EXCEPT ![t] = "take"]
    /\ UNCHANGED <<queue_, taken>>

TakeWaits(t) ==
    /\ tpc[t] = "take"
    /\ queue_ = <<>>
    /\ tpc' = [tpc EXCEPT ![t] = "notEmpty"]
    /\ UNCHANGED <<queue_, taken>>

Take(t) ==
    /\ tpc[t] = "take"
    /\ queue_ # <<>>
    /\ taken' = [taken EXCEPT ![t] = Head(queue_)]
    /\ queue_' = Tail(queue_)
    /\ tpc' = [tpc EXCEPT ![t] = "idle"]

(* A wait returns without a notification. *)
SpuriousWakeup(t) ==
    /\ tpc[t] = "notEmpty"
    /\ tpc' = [tpc EXCEPT ![t] = "take"]
    /\ UNCHANGED <<queue_, taken>>

Next ==
    \E t \in Threads :
        \/ \E x \in Values : Put(t, x)
        \/ CallTake(t) \/ TakeWaits(t) \/ Take(t) \/ SpuriousWakeup(t)

Spec == Init /\ [][Next]_vars

(* A thread inside take() that does not wait is scheduled. *)
FairSpec == Spec /\ \A t \in Threads : WF_vars(TakeWaits(t) \/ Take(t))

-----------------------------------------------------------------------------
(***************************************************************************)
(* While a thread waits for an element, every element in the queue has an  *)
(* awake taker: the single notify() of put() is enough, whoever gets the   *)
(* mutex first and whatever wakes up without reason.                       *)
(***************************************************************************)
NoLostNotify == Waiting # {} => Len(queue_) <= Cardinality(Awake)

(* Threads do not wait for ever while the queue holds elements. *)
ElementsTaken ==
    (Waiting # {} /\ queue_ # <<>>) ~> (Waiting = {} \/ queue_ = <<>>)
=============================================================================

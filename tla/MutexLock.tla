------------------------------ MODULE MutexLock ------------------------------
(***************************************************************************)
(* base/Mutex.h and base/Condition.h: threads that lock and unlock one     *)
(* MutexLock, and wait on and notify one Condition of it.  The steps are   *)
(* those between the calls of pthreads and the assignments of holder_.     *)
(*                                                                         *)
(* A thread is outside ("out"), between pthread_mutex_lock and the         *)
(* assignment in lock() ("locking"), in its critical section ("in"),       *)
(* between the assignment in unlock() and pthread_mutex_unlock             *)
(* ("unlocking"), waiting ("wait"), or to lock again in its wait ("woken"). *)
(***************************************************************************)
EXTENDS Naturals

CONSTANTS
    Threads,        \* not NoThread among them
    NoThread        \* the 0 of holder_

VARIABLES
    owner,          \* the thread that holds the pthread mutex
    holder_,
    pc,
    t_cachedTid     \* what CurrentThread::tid() returns in each thread

vars == <<owner, holder_, pc>>

TypeOK ==
    /\ owner \in Threads \cup {NoThread}
    /\ holder_ \in Threads \cup {NoThread}
    /\ pc \in [Threads -> {"out", "locking", "in", "unlocking", "wait", "woken"}]

Init ==
    /\ owner = NoThread
    /\ holder_ = NoThread
    /\ pc = [t \in Threads |-> "out"]

Goto(t, to) == pc' = [pc EXCEPT ![t] = to]

(* pthreads. *)
PthreadLock(t) == owner = NoThread /\ owner' = t
PthreadUnlock(t) == owner' = NoThread

(* lock() *)
Lock(t) ==
    /\ pc[t] = "out"
    /\ PthreadLock(t)
    /\ Goto(t, "locking")
    /\ UNCHANGED holder_

SetHolder(t) ==
    /\ pc[t] = "locking"
    /\ holder_' = t_cachedTid[t]
    /\ Goto(t, "in")
    /\ UNCHANGED owner

(* Mutant: unlock() leaves holder_ to the next owner. *)
ClearNothing(t) ==
    /\ pc[t] = "in"
    /\ Goto(t, "unlocking")
    /\ UNCHANGED <<owner, holder_>>

(* unlock() *)
ClearHolder(t) ==
    /\ pc[t] = "in"
    /\ holder_' = NoThread
    /\ Goto(t, "unlocking")
    /\ UNCHANGED owner

Unlock(t) ==
    /\ pc[t] = "unlocking"
    /\ PthreadUnlock(t)
    /\ Goto(t, "out")
    /\ UNCHANGED holder_

(* Condition::wait and waitForSeconds release and take the pthread mutex,  *)
(* without lock() and unlock().                                            *)
Wait(t) ==
    /\ pc[t] = "in"
    /\ PthreadUnlock(t)
    /\ Goto(t, "wait")
    /\ UNCHANGED holder_

(* Notified, timed out or woken for no reason. *)
Wake(t) ==
    /\ pc[t] = "wait"
    /\ Goto(t, "woken")
    /\ UNCHANGED <<owner, holder_>>

WaitReturns(t) ==
    /\ pc[t] = "woken"
    /\ PthreadLock(t)
    /\ Goto(t, "in")
    /\ UNCHANGED holder_

(* What a thread does with the mutex. *)
Use(t) ==
    \/ Lock(t)
    \/ SetHolder(t)
    \/ ClearHolder(t)
    \/ Unlock(t)
    \/ Wait(t)
    \/ Wake(t)
    \/ WaitReturns(t)

Next == \E t \in Threads : Use(t)

isLockedByThisThread(t) == holder_ = t_cachedTid[t]
=============================================================================

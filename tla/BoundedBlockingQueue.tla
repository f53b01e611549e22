------------------------ MODULE BoundedBlockingQueue ------------------------
(***************************************************************************)
(* base/BoundedBlockingQueue.h over base/circularbuffer.h: threads that    *)
(* put and take under one mutex and wait on two conditions.                *)
(*                                                                         *)
(* A thread is "idle", about to lock or lock again in put() or take()      *)
(* ("put", "take"), or waiting on a condition ("notFull", "notEmpty").     *)
(* What a thread does between locking the mutex and unlocking it, or       *)
(* waiting, is one step.  pthread_cond_signal wakes one waiter if there is *)
(* one, and a wait may return for no reason.                               *)
(***************************************************************************)
EXTENDS Integers, FiniteSets

CONSTANTS
    Threads,
    Values,
    NoValue,        \* a default-constructed element
    maxSize         \* the constructor's argument, at least 1

VARIABLES
    buffer_,
    read_pos_,
    write_pos_,
    tpc,
    arg,            \* the element each thread is putting
    taken           \* the result of each thread's last take()

bufferVars == <<buffer_, read_pos_, write_pos_>>
vars == <<bufferVars, tpc, arg, taken>>

Positions == 0..(maxSize - 1)

TypeOK ==
    /\ buffer_ \in [Positions -> Values \cup {NoValue}]
    /\ read_pos_ \in Positions
    /\ write_pos_ \in Positions
    /\ tpc \in [Threads -> {"idle", "put", "take", "notFull", "notEmpty"}]
    /\ arg \in [Threads -> Values \cup {NoValue}]
    /\ taken \in [Threads -> Values \cup {NoValue}]

Init ==
    /\ buffer_ = [i \in Positions |-> NoValue]
    /\ read_pos_ = 0
    /\ write_pos_ = 0
    /\ tpc = [t \in Threads |-> "idle"]
    /\ arg = [t \in Threads |-> NoValue]
    /\ taken = [t \in Threads |-> NoValue]

-----------------------------------------------------------------------------
(* circular_buffer *)

size == (write_pos_ + maxSize - read_pos_) % maxSize
empty == read_pos_ = write_pos_

full == (write_pos_ + 1) % maxSize = read_pos_

push_back(x) ==
    /\ buffer_' = [buffer_ EXCEPT ![write_pos_] = x]
    /\ write_pos_' = (write_pos_ + 1) % maxSize
    /\ UNCHANGED read_pos_

front == buffer_[read_pos_]

(* Mutant: pop_front takes the newest. *)
pop_back ==
    /\ write_pos_' = (write_pos_ + maxSize - 1) % maxSize
    /\ UNCHANGED <<buffer_, read_pos_>>

pop_front ==
    /\ read_pos_' = (read_pos_ + 1) % maxSize
    /\ UNCHANGED <<buffer_, write_pos_>>

-----------------------------------------------------------------------------
(* put() and take() *)

Waiting(cond) == {t \in Threads : tpc[t] = cond}

(* t goes back to pc; one waiter of cond, if any, is to lock again in op. *)
NotifyAndReturn(t, cond, op) ==
    IF Waiting(cond) = {}
    THEN tpc' = [tpc EXCEPT ![t] = "idle"]
    ELSE \E w \in Waiting(cond) :
           tpc' = [tpc EXCEPT ![t] = "idle", ![w] = op]

CallPut(t, x) ==
    /\ tpc[t] = "idle"
    /\ tpc' = [tpc EXCEPT ![t] = "put"]
    /\ arg' = [arg EXCEPT ![t] = x]
    /\ UNCHANGED <<bufferVars, taken>>

CallTake(t) ==
    /\ tpc[t] = "idle"
    /\ tpc' = [tpc EXCEPT ![t] = "take"]
    /\ UNCHANGED <<bufferVars, arg, taken>>

PutWaits(t) ==
    /\ tpc[t] = "put"
    /\ full
    /\ tpc' = [tpc EXCEPT ![t] = "notFull"]
    /\ UNCHANGED <<bufferVars, arg, taken>>

(* Mutant: put() notifies only when the queue was empty. *)
PutNotifiesOnEdge(t) ==
    /\ tpc[t] = "put"
    /\ ~full
    /\ push_back(arg[t])
    /\ arg' = [arg EXCEPT ![t] = NoValue]
    /\ IF empty THEN NotifyAndReturn(t, "notEmpty", "take")
                ELSE tpc' = [tpc EXCEPT ![t] = "idle"]
    /\ UNCHANGED taken

Put(t) ==
    /\ tpc[t] = "put"
    /\ ~full
    /\ push_back(arg[t])
    /\ arg' = [arg EXCEPT ![t] = NoValue]
    /\ NotifyAndReturn(t, "notEmpty", "take")
    /\ UNCHANGED taken

TakeWaits(t) ==
    /\ tpc[t] = "take"
    /\ empty
    /\ tpc' = [tpc EXCEPT ![t] = "notEmpty"]
    /\ UNCHANGED <<bufferVars, arg, taken>>

(* Mutant: take() does not notify. *)
TakeSilently(t) ==
    /\ tpc[t] = "take"
    /\ ~empty
    /\ taken' = [taken EXCEPT ![t] = front]
    /\ pop_front
    /\ tpc' = [tpc EXCEPT ![t] = "idle"]
    /\ UNCHANGED arg

Take(t) ==
    /\ tpc[t] = "take"
    /\ ~empty
    /\ taken' = [taken EXCEPT ![t] = front]
    /\ pop_front
    /\ NotifyAndReturn(t, "notFull", "put")
    /\ UNCHANGED arg

(* A wait returns without a notification. *)
SpuriousWakeup(t) ==
    /\ \/ tpc[t] = "notFull" /\ tpc' = [tpc EXCEPT ![t] = "put"]
       \/ tpc[t] = "notEmpty" /\ tpc' = [tpc EXCEPT ![t] = "take"]
    /\ UNCHANGED <<bufferVars, arg, taken>>

Step(t) == PutWaits(t) \/ Put(t) \/ TakeWaits(t) \/ Take(t)

Next ==
    \E t \in Threads :
        \/ \E x \in Values : CallPut(t, x)
        \/ CallTake(t)
        \/ Step(t)
        \/ SpuriousWakeup(t)

Spec == Init /\ [][Next]_vars

(* Every thread inside put() or take() that does not wait is scheduled and *)
(* gets the mutex; no wait is assumed to end by itself.                    *)
FairSpec == Spec /\ \A t \in Threads : WF_vars(Step(t))

-----------------------------------------------------------------------------
(* Properties. *)

(***************************************************************************)
(* While a thread waits for an element, every element in the queue has an  *)
(* awake taker: the single notify() of each put() is enough, whatever the  *)
(* wakeups and whoever gets the mutex first.                               *)
(***************************************************************************)
NoLostNotEmpty ==
    Waiting("notEmpty") # {} => size <= Cardinality(Waiting("take"))

(* Likewise, while a thread waits for room, every free slot has an awake   *)
(* putter, with the single notify() of each take().                        *)
NoLostNotFull ==
    Waiting("notFull") # {} =>
        maxSize - 1 - size <= Cardinality(Waiting("put"))

(***************************************************************************)
(* The circular buffer under the mutex is a FIFO queue of maxSize - 1      *)
(* elements: nothing is lost, duplicated or overtaken when the positions   *)
(* wrap round.                                                             *)
(***************************************************************************)
Contents == [i \in 1..size |-> buffer_[(read_pos_ + i - 1) % maxSize]]

FQ == INSTANCE FifoQueue WITH queue <- Contents, Bound <- maxSize - 1

IsFifo == FQ!Spec

(***************************************************************************)
(* A thread never stays in take() while there is always an element for it, *)
(* in the sense that one of the takers gets it; so for put() and room.     *)
(***************************************************************************)
ElementsTaken ==
    (Waiting("notEmpty") # {} /\ ~empty) ~> (Waiting("notEmpty") = {} \/ empty)

RoomUsed ==
    (Waiting("notFull") # {} /\ ~full) ~> (Waiting("notFull") = {} \/ full)
=============================================================================

------------------------------- MODULE Queues -------------------------------
(***************************************************************************)
(* The same threads on a BlockingQueue or on a BoundedBlockingQueue, as    *)
(* test/BlockingQueue_test.cpp and test/BoundedBlockingQueue_test.cpp have *)
(* them: a program uses one queue or the other, and the one it does not    *)
(* use stays as it was constructed.                                        *)
(***************************************************************************)
EXTENDS BlockingQueue

CONSTANT maxSize        \* the argument of BoundedBlockingQueue

ASSUME BoundedAssumption == maxSize \in Nat \ {0}

VARIABLES
    bounded,            \* the program uses the BoundedBlockingQueue
    buffer_, read_pos_, write_pos_,
    btpc, arg, btaken   \* see BoundedBlockingQueue

boundedVars == <<buffer_, read_pos_, write_pos_, btpc, arg, btaken>>
allVars == <<bounded, vars, boundedVars>>

B == INSTANCE BoundedBlockingQueue WITH tpc <- btpc, taken <- btaken

InitEither ==
    /\ bounded \in BOOLEAN
    /\ Init
    /\ B!Init

NextUnbounded ==
    /\ ~bounded
    /\ Next
    /\ UNCHANGED <<bounded, boundedVars>>

NextBounded ==
    /\ bounded
    /\ B!Next
    /\ UNCHANGED <<bounded, vars>>

NextEither == NextUnbounded \/ NextBounded

(* A thread inside put() or take() that does not wait is scheduled. *)
StepUnbounded(t) ==
    /\ ~bounded
    /\ TakeWaits(t) \/ Take(t)
    /\ UNCHANGED <<bounded, boundedVars>>

StepBounded(t) ==
    /\ bounded
    /\ B!Step(t)
    /\ UNCHANGED <<bounded, vars>>

SpecEither ==
    /\ InitEither /\ [][NextEither]_allVars
    /\ \A t \in Threads : WF_allVars(StepUnbounded(t)) /\ WF_allVars(StepBounded(t))

-----------------------------------------------------------------------------
(* Properties of the BoundedBlockingQueue. *)

(***************************************************************************)
(* While a thread waits in BoundedBlockingQueue::take(), every element in  *)
(* the buffer has an awake taker: the single notify() of each put() is     *)
(* enough, whatever the wakeups and whoever gets the mutex first.          *)
(***************************************************************************)
NoLostNotEmpty == B!NoLostNotEmpty

(***************************************************************************)
(* While a thread waits in BoundedBlockingQueue::put(), every free slot    *)
(* has an awake putter, with the single notify() of each take().           *)
(***************************************************************************)
NoLostNotFull == B!NoLostNotFull

(***************************************************************************)
(* The circular buffer under the mutex is a FIFO queue of maxSize - 1      *)
(* elements: nothing is lost, duplicated or overtaken when the positions   *)
(* wrap round.                                                             *)
(***************************************************************************)
BoundedIsFifo == B!IsFifo

(***************************************************************************)
(* Threads do not wait in BoundedBlockingQueue::put() for ever while the   *)
(* buffer has room.                                                        *)
(***************************************************************************)
RoomUsed == B!RoomUsed

(***************************************************************************)
(* In BoundedBlockingQueue nobody waits, in put() or in take(), for        *)
(* something that is there and that no awake thread is going to use.       *)
(***************************************************************************)
BoundedSound ==
    /\ B!TypeOK
    /\ NoLostNotEmpty
    /\ NoLostNotFull

(***************************************************************************)
(* Nobody waits for ever in take() while a BlockingQueue holds elements,   *)
(* nor in put() while a BoundedBlockingQueue has room.                     *)
(***************************************************************************)
QueueProgress ==
    /\ ElementsTaken
    /\ RoomUsed
=============================================================================

---------------------------- MODULE CountDownLatch ----------------------------
(***************************************************************************)
(* base/CountDownLatch.cpp: threads that wait() for a count to reach zero  *)
(* and threads that countDown() it.  A thread inside wait() is about to    *)
(* lock ("wait"), waiting on condition_ ("blocked") or past it             *)
(* ("passed"); what it does under mutex_ is one step.                      *)
(***************************************************************************)
EXTENDS Integers, FiniteSets

CONSTANTS
    Waiters,        \* threads that call wait()
    Counters,       \* calls of countDown(), one element per call
    Count           \* the constructor's argument

ASSUME LatchAssumption ==
    /\ IsFiniteSet(Counters)
    /\ Count \in Nat

VARIABLES
    count_,
    wpc,
    counted         \* countDown() calls made

vars == <<count_, wpc, counted>>

TypeOK ==
    /\ count_ \in (Count - Cardinality(Counters))..Count
    /\ wpc \in [Waiters -> {"idle", "wait", "blocked", "passed"}]
    /\ counted \subseteq Counters

Init ==
    /\ count_ = Count
    /\ wpc = [w \in Waiters |-> "idle"]
    /\ counted = {}

CallWait(w) ==
    /\ wpc[w] = "idle"
    /\ wpc' = [wpc EXCEPT ![w] = "wait"]
    /\ UNCHANGED <<count_, counted>>

(* while (count_ > 0) condition_.wait(); *)
Blocks(w) ==
    /\ wpc[w] = "wait"
    /\ count_ > 0
    /\ wpc' = [wpc EXCEPT ![w] = "blocked"]
    /\ UNCHANGED <<count_, counted>>

(* Mutant: a wait that returns is taken for the end of the count. *)
PassesUntested(w) ==
    /\ wpc[w] = "wait"
    /\ wpc' = [wpc EXCEPT ![w] = "passed"]
    /\ UNCHANGED <<count_, counted>>

Passes(w) ==
    /\ wpc[w] = "wait"
    /\ count_ <= 0
    /\ wpc' = [wpc EXCEPT ![w] = "passed"]
    /\ UNCHANGED <<count_, counted>>

SpuriousWakeup(w) ==
    /\ wpc[w] = "blocked"
    /\ wpc' = [wpc EXCEPT ![w] = "wait"]
    /\ UNCHANGED <<count_, counted>>

(* Mutant: the last countDown() wakes one waiter only. *)
CountDownNotifiesOne(c) ==
    /\ c \notin counted
    /\ counted' = counted \cup {c}
    /\ count_' = count_ - 1
    /\ LET blocked == {w \in Waiters : wpc[w] = "blocked"}
       IN  IF count_' = 0 /\ blocked # {}
           THEN \E w \in blocked : wpc' = [wpc EXCEPT ![w] = "wait"]
           ELSE UNCHANGED wpc

(* Only the call that reaches zero notifies; later ones go below zero. *)
CountDown(c) ==
    /\ c \notin counted
    /\ counted' = counted \cup {c}
    /\ count_' = count_ - 1
    /\ wpc' = IF count_' = 0
              THEN [w \in Waiters |-> IF wpc[w] = "blocked" THEN "wait" ELSE wpc[w]]
              ELSE wpc

WaiterStep(w) == Blocks(w) \/ Passes(w)

Next ==
    \/ \E w \in Waiters : CallWait(w) \/ WaiterStep(w) \/ SpuriousWakeup(w)
    \/ \E c \in Counters : CountDown(c)

Spec == Init /\ [][Next]_vars

-----------------------------------------------------------------------------
(***************************************************************************)
(* wait() returns only after as many countDown() as the count, in spite of *)
(* spurious wakeups.                                                       *)
(***************************************************************************)
PassesAfterCount ==
    (\E w \in Waiters : wpc[w] = "passed") => Cardinality(counted) >= Count

(***************************************************************************)
(* No thread is blocked once the count is zero or below, although only one *)
(* countDown() notifies.                                                   *)
(***************************************************************************)
NoneBlockedAtZero == count_ <= 0 => \A w \in Waiters : wpc[w] # "blocked"
=============================================================================

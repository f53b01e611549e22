--------------------------- MODULE DefaultPoller ---------------------------
(***************************************************************************)
(* Poller::newDefaultPoller: a process that finds RAWMD_USE_POLL in its    *)
(* environment polls with PollPoller, any other one with EPollPoller, and  *)
(* its channels do not know which.  Both keep index, channels_ and broken; *)
(* pollfds_ and silenced are PollPoller's, interest and events_ are        *)
(* EPollPoller's.                                                          *)
(***************************************************************************)
EXTENDS Integers, Sequences, FiniteSets

CONSTANTS
    Fds,                    \* file descriptors
    kInitEventListSize,     \* first size of the buffer for epoll_wait
    NotInList               \* a descriptor epoll does not watch

ASSUME PollerAssumption ==
    /\ Fds \subseteq Nat /\ IsFiniteSet(Fds)
    /\ \A ev \in SUBSET {"read", "write"} : NotInList # ev
    /\ kInitEventListSize \in Nat \ {0}

VARIABLES
    usePoll,        \* RAWMD_USE_POLL is set
    channels, events, index, channels_, broken, cond, active, failed,
    pollfds_, silenced,
    interest, events_

shared == <<channels, events, index, channels_, broken, cond, active, failed>>
pollerVars == <<usePoll, shared, pollfds_, silenced, interest, events_>>

PP == INSTANCE PollPoller
EP == INSTANCE EPollPoller

PollerTypeOK == IF usePoll THEN PP!TypeOK ELSE EP!TypeOK

PollerInit ==
    /\ usePoll \in BOOLEAN
    /\ PP!Init
    /\ EP!Init

(* The calls a client makes of its channels, whichever poller serves them. *)
NextPoll ==
    /\ usePoll
    /\ PP!Next
    /\ UNCHANGED <<usePoll, interest, events_>>

NextEPoll ==
    /\ ~usePoll
    /\ EP!Next
    /\ UNCHANGED <<usePoll, pollfds_, silenced>>

PollerNext == NextPoll \/ NextEPoll

PollerSpec == PollerInit /\ [][PollerNext]_pollerVars

-----------------------------------------------------------------------------
(* Properties. *)

(***************************************************************************)
(* PollPoller's index_, pollfds_ and map agree: every registered channel   *)
(* finds its own entry, with its own events, and every entry belongs to    *)
(* one channel, after any sequence of removals that swap with the last     *)
(* entry, ignored or not; ignored are those that have been disabled since  *)
(* they were registered.                                                   *)
(***************************************************************************)
EntriesMatch == usePoll => PP!EntriesMatch

(***************************************************************************)
(* EPollPoller's index_ tells the truth about the kernel's list: what is   *)
(* kAdded is there with the channel's current events and nothing else is,  *)
(* so that epoll_wait never returns the pointer of a destroyed channel.    *)
(***************************************************************************)
ListMatches == ~usePoll => EP!ListMatches

(***************************************************************************)
(* No assertion of EPollPoller.cpp fails and every epoll_ctl succeeds; one *)
(* that fails on ADD or MOD is a LOG_SYSFATAL.  Of those of PollPoller.cpp *)
(* one can fail: that a channel which is removed is being ignored, line    *)
(* 118.                                                                    *)
(***************************************************************************)
AssertionsHold == IF usePoll THEN PP!AssertionsHold ELSE EP!AssertionsHold

(* The interest a poller takes note of.  PollPoller never restores the     *)
(* descriptor of an entry it has ignored, so a channel that was disabled   *)
(* is not watched again, whatever it enables.                              *)
Heeded == [fd \in Fds |-> IF fd \in silenced THEN {} ELSE events[fd]]

H == INSTANCE Poller WITH events <- Heeded

(***************************************************************************)
(* EPollPoller does what Poller.h promises after any sequence of calls,    *)
(* and PollPoller does, but for channels that are enabled again after they *)
(* were disabled, which it forgets: a poll that does not fail reports      *)
(* channels with events that interest them and only those events, and      *)
(* returns nothing only if there are none.                                 *)
(***************************************************************************)
PollsAsPromised == H!Spec

(***************************************************************************)
(* After any sequence of calls of its channels' operations, the structures *)
(* of the poller in use (the array and the map of PollPoller, the list in  *)
(* the kernel of EPollPoller) say the same of every channel as its index_, *)
(* its events_ and its history do, and no assertion has failed but         *)
(* PollPoller's that a removed channel is ignored, which is false of one   *)
(* that disableAll() registered.                                           *)
(***************************************************************************)
StructuresMatch ==
    /\ PollerTypeOK
    /\ EntriesMatch
    /\ ListMatches
    /\ AssertionsHold
=============================================================================

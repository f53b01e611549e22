----------------------------- MODULE EPollPoller -----------------------------
(***************************************************************************)
(* net/poller/EPollPoller.cpp under the channels of net/Channel.h: the     *)
(* kernel keeps the interest list, and index_ says whether a channel is    *)
(* new, in the list, or known to the poller but taken out of the list.     *)
(*                                                                         *)
(* Clients are those of PollPoller.  broken names the function in which    *)
(* an assertion or epoll_ctl has failed in the last call.                  *)
(***************************************************************************)
EXTENDS Integers, FiniteSets

CONSTANTS
    Fds,                    \* descriptors, natural numbers
    kInitEventListSize,     \* first size of the buffer for epoll_wait
    NotInList               \* a descriptor epoll does not watch

VARIABLES
    channels,       \* descriptors that have a Channel
    events,         \* Channel::events_
    index,          \* Channel::index_
    interest,       \* the kernel's interest list: events, or NotInList
    channels_,      \* domain of the map from descriptors to channels
    events_,        \* size of the buffer given to epoll_wait
    broken,         \* where the last call has failed
    cond, active, failed    \* see Poller

vars == <<channels, events, index, interest, channels_, events_, broken,
          cond, active, failed>>

P == INSTANCE Poller

kNew == -1
kAdded == 1
kDeleted == 2

TypeOK ==
    /\ channels \subseteq Fds
    /\ events \in [Fds -> SUBSET {P!ReadEvent, P!WriteEvent}]
    /\ index \in [Fds -> {kNew, kAdded, kDeleted}]
    /\ channels_ \subseteq channels
    /\ events_ \in Nat \ {0}
    /\ Cardinality(DOMAIN active) <= events_

Init ==
    /\ channels = {}
    /\ events = [fd \in Fds |-> {}]
    /\ index = [fd \in Fds |-> kNew]
    /\ interest = [fd \in Fds |-> NotInList]
    /\ channels_ = {}
    /\ events_ = kInitEventListSize
    /\ broken = {}
    /\ cond = P!NoConditions
    /\ active = P!Nothing
    /\ failed = FALSE

(* Channel::Channel, for a descriptor that has just been opened. *)
NewChannel(fd) ==
    /\ fd \notin channels
    /\ channels' = channels \cup {fd}
    /\ events' = [events EXCEPT ![fd] = {}]
    /\ index' = [index EXCEPT ![fd] = kNew]
    /\ broken' = {}
    /\ P!Forget
    /\ UNCHANGED <<interest, channels_, events_>>

(* update(): epoll_ctl fails on adding what is in the list and on changing *)
(* or deleting what is not.                                                *)
CtlFails(op, fd) == (op = "ADD") # (interest[fd] = NotInList)

Update(op, fd, ev) ==
    interest' = [interest EXCEPT ![fd] = IF op = "DEL" THEN NotInList ELSE ev]

(* What an assertion of the source adds to broken. *)
Failing(holds, name) == IF holds THEN {} ELSE {name}

(* The operation that updateChannel chooses. *)
Operation(fd, ev) ==
    CASE index[fd] \in {kNew, kDeleted} -> "ADD"
      [] index[fd] = kAdded /\ ev = {} -> "DEL"
      [] OTHER -> "MOD"

(* updateChannel *)
UpdateChannel(fd, ev) ==
    LET op == Operation(fd, ev)
    IN  /\ events' = [events EXCEPT ![fd] = ev]
        /\ Update(op, fd, ev)
        /\ index' = [index EXCEPT ![fd] = IF op = "DEL" THEN kDeleted ELSE kAdded]
        /\ channels_' = channels_ \cup {fd}
        /\ broken' = Failing(/\ ~CtlFails(op, fd)
                             /\ index[fd] = kNew <=> fd \notin channels_,
                             "updateChannel")
        /\ P!Forget
        /\ UNCHANGED <<channels, events_>>

(* removeChannel; the channel is then destroyed by its owner. *)
RemoveChannel(fd) ==
    /\ channels' = channels \ {fd}
    /\ channels_' = channels_ \ {fd}
    /\ IF index[fd] = kAdded THEN Update("DEL", fd, {}) ELSE UNCHANGED interest
    /\ index' = [index EXCEPT ![fd] = kNew]
    /\ broken' = Failing(/\ fd \in channels_ /\ index[fd] # kNew
                         /\ index[fd] = kAdded => ~CtlFails("DEL", fd),
                         "removeChannel")
    /\ P!Forget
    /\ UNCHANGED <<events, events_>>

-----------------------------------------------------------------------------
(* The operations of Channel, all of them on the loop thread. *)

EnableReading(fd) ==
    /\ fd \in channels
    /\ UpdateChannel(fd, events[fd] \cup {P!ReadEvent})

EnableWriting(fd) ==
    /\ fd \in channels
    /\ UpdateChannel(fd, events[fd] \cup {P!WriteEvent})

(* The mask is kWriteEvent, not its complement. *)
DisableWriting(fd) ==
    /\ fd \in channels
    /\ UpdateChannel(fd, events[fd] \cap {P!WriteEvent})

DisableAll(fd) ==
    /\ fd \in channels
    /\ UpdateChannel(fd, {})

(* remove(), before which disableAll has to be called. *)
Remove(fd) ==
    /\ fd \in channels /\ events[fd] = {} /\ index[fd] # kNew
    /\ RemoveChannel(fd)

(* What epoll_wait reports for fd. *)
Revents(fd, c) ==
    IF interest[fd] = NotInList THEN {} ELSE c[fd] \cap (interest[fd] \cup P!Unasked)

(* The buffer doubles when epoll_wait has filled it. *)
Grow(n) == IF n = events_ THEN 2 * events_ ELSE events_

(* poll(): as many ready channels as the buffer holds. *)
Poll ==
    /\ cond' \in [Fds -> P!Situations]
    /\ LET ready == {fd \in Fds : Revents(fd, cond') # {}}
       IN  \E S \in SUBSET ready :
             /\ Cardinality(S) = IF Cardinality(ready) < events_
                                 THEN Cardinality(ready) ELSE events_
             /\ active' = [fd \in S |-> Revents(fd, cond')]
             /\ events_' = Grow(Cardinality(S))
             /\ broken' = Failing(S \subseteq channels_, "fillActiveChannels")
    /\ failed' = FALSE
    /\ UNCHANGED <<channels, events, index, interest, channels_>>

(* epoll_wait() returns -1: an error is logged and no channel is active. *)
PollFails ==
    /\ P!PollFails
    /\ broken' = {}
    /\ UNCHANGED <<index, interest, channels_, events_>>

Next ==
    \/ \E fd \in Fds :
         \/ NewChannel(fd)
         \/ EnableReading(fd)
         \/ EnableWriting(fd)
         \/ DisableWriting(fd)
         \/ DisableAll(fd)
         \/ Remove(fd)
    \/ Poll
    \/ PollFails

Spec == Init /\ [][Next]_vars

-----------------------------------------------------------------------------
(* Properties. *)

(***************************************************************************)
(* index_ tells the truth about the kernel's list: what is kAdded is in    *)
(* the list with the channel's current events, and nothing else is.  No    *)
(* channel that is gone is left in the list, where epoll_wait would return *)
(* its dangling pointer.                                                   *)
(***************************************************************************)
ListMatches ==
    \A fd \in Fds :
        interest[fd] = IF fd \in channels /\ index[fd] = kAdded
                       THEN events[fd] ELSE NotInList

(***************************************************************************)
(* No assertion of EPollPoller.cpp fails and every epoll_ctl succeeds; one *)
(* that fails on ADD or MOD is a LOG_SYSFATAL.                             *)
(***************************************************************************)
AssertionsHold == broken = {}
=============================================================================

------------------------------- MODULE Poller -------------------------------
(***************************************************************************)
(* What net/Poller.h promises of any poller, over the channels of          *)
(* net/Channel.h: a poll reports channels that have interesting events,    *)
(* with those events, and unless it fails returns empty-handed only if     *)
(* there are none.  Of a channel that is interested in nothing it may      *)
(* report a hang-up, which no channel has to ask for.                      *)
(*                                                                         *)
(* A descriptor has at most one Channel at a time.  cond is what happened  *)
(* to each descriptor by the time of the last poll and active what that    *)
(* poll reported; both are forgotten at the next call.  A poll that fails  *)
(* finds out nothing.                                                      *)
(***************************************************************************)
EXTENDS Integers

CONSTANT Fds        \* file descriptors

VARIABLES
    channels,       \* descriptors that have a Channel
    events,         \* Channel::events_
    cond,           \* the conditions the kernel sees on each descriptor
    active,         \* for each channel reported: Channel::revents_
    failed          \* the last poll has failed, as it does when interrupted

vars == <<channels, events, cond, active, failed>>

(* kReadEvent, kWriteEvent, and what poll reports without being asked. *)
ReadEvent == "read"
WriteEvent == "write"
Unasked == {"hup"}
Conditions == {ReadEvent, WriteEvent} \cup Unasked

(* What can be found on a descriptor: nothing, a hang-up alone, everything. *)
Situations == {{}, Unasked, Conditions}

NoConditions == [fd \in Fds |-> {}]
Nothing == [fd \in {} |-> {}]

(* The events a poll reports for fd, and whether it has to. *)
Reports(fd, c) == c[fd] \cap (events[fd] \cup Unasked)
Due(fd, c) == events[fd] # {} /\ Reports(fd, c) # {}

Init ==
    /\ channels = {}
    /\ events = [fd \in Fds |-> {}]
    /\ cond = NoConditions
    /\ active = Nothing
    /\ failed = FALSE

Forget == cond' = NoConditions /\ active' = Nothing /\ failed' = FALSE

New(fd) ==
    /\ fd \notin channels
    /\ channels' = channels \cup {fd}
    /\ Forget
    /\ UNCHANGED events

Update(fd, ev) ==
    /\ fd \in channels
    /\ events' = [events EXCEPT ![fd] = ev]
    /\ Forget
    /\ UNCHANGED channels

Remove(fd) ==
    /\ fd \in channels
    /\ events[fd] = {}
    /\ channels' = channels \ {fd}
    /\ Forget
    /\ UNCHANGED events

Poll ==
    /\ cond' \in [Fds -> Situations]
    /\ \E S \in SUBSET {fd \in channels : Reports(fd, cond') # {}} :
         /\ (\E fd \in channels : Due(fd, cond')) => S # {}
         /\ active' = [fd \in S |-> Reports(fd, cond')]
    /\ failed' = FALSE
    /\ UNCHANGED <<channels, events>>

PollFails ==
    /\ cond' = NoConditions
    /\ active' = Nothing
    /\ failed' = TRUE
    /\ UNCHANGED <<channels, events>>

Next ==
    \/ \E fd \in Fds :
         \/ New(fd)
         \/ Remove(fd)
         \/ \E ev \in SUBSET {ReadEvent, WriteEvent} : Update(fd, ev)
    \/ Poll
    \/ PollFails

Spec == Init /\ [][Next]_vars
=============================================================================

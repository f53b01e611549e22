----------------------------- MODULE PollPoller -----------------------------
(***************************************************************************)
(* net/poller/PollPoller.cpp under the channels of net/Channel.h: an array *)
(* of pollfd that each Channel finds by its index_, in which a channel     *)
(* that is interested in nothing is kept with the descriptor -fd-1, and    *)
(* from which a channel is removed by swapping it with the last one.       *)
(*                                                                         *)
(* Clients call the operations of a Channel in any order, and remove it    *)
(* when it is interested in nothing and registered, before they destroy    *)
(* it.  broken names the assertions of the source that the last call has   *)
(* failed; without them, as with NDEBUG, the program goes on.  silenced is *)
(* a history variable: the channels that have been disabled since they     *)
(* were registered.                                                        *)
(***************************************************************************)
EXTENDS Integers, Sequences, FiniteSets

CONSTANT Fds        \* descriptors, natural numbers

VARIABLES
    channels,       \* descriptors that have a Channel
    events,         \* Channel::events_
    index,          \* Channel::index_
    pollfds_,       \* records of a descriptor (or -fd-1) and its events
    channels_,      \* domain of the map from descriptors to channels
    silenced,       \* channels that interested in nothing found an entry
    broken,         \* assertions that the last call has failed
    cond, active, failed    \* see Poller

vars == <<channels, events, index, pollfds_, channels_, silenced, broken, cond, active,
          failed>>

P == INSTANCE Poller

TypeOK ==
    /\ channels \subseteq Fds
    /\ events \in [Fds -> SUBSET {P!ReadEvent, P!WriteEvent}]
    /\ index \in [Fds -> Int]
    /\ \A i \in 1..Len(pollfds_) : pollfds_[i].fd \in Int
    /\ channels_ \subseteq channels /\ silenced \subseteq channels_

Init ==
    /\ channels = {}
    /\ events = [fd \in Fds |-> {}]
    /\ index = [fd \in Fds |-> -1]
    /\ pollfds_ = <<>>
    /\ channels_ = {}
    /\ silenced = {}
    /\ broken = {}
    /\ cond = P!NoConditions
    /\ active = P!Nothing
    /\ failed = FALSE

(* Channel::Channel, for a descriptor that has just been opened. *)
NewChannel(fd) ==
    /\ fd \notin channels
    /\ channels' = channels \cup {fd}
    /\ events' = [events EXCEPT ![fd] = {}]
    /\ index' = [index EXCEPT ![fd] = -1]
    /\ broken' = {}
    /\ P!Forget
    /\ UNCHANGED <<pollfds_, channels_, silenced>>

(* The descriptor under which a channel with no event stays in pollfds_. *)
Ignored(fd) == -fd - 1

(* What an assertion of the source adds to broken. *)
Failing(holds, name) == IF holds THEN {} ELSE {name}

(* updateChannel.  An entry that exists keeps its descriptor, even one that *)
(* is being ignored, unless the channel is interested in nothing.          *)
UpdateChannel(fd, ev) ==
    /\ events' = [events EXCEPT ![fd] = ev]
    /\ IF index[fd] < 0
       THEN /\ pollfds_' = Append(pollfds_, [fd |-> fd, events |-> ev])
            /\ index' = [index EXCEPT ![fd] = Len(pollfds_)]
            /\ channels_' = channels_ \cup {fd}
            /\ broken' = Failing(fd \notin channels_, "updateChannel")
            /\ UNCHANGED silenced
       ELSE LET i == index[fd] + 1
                sound == /\ fd \in channels_
                         /\ i \in 1..Len(pollfds_)
                         /\ pollfds_[i].fd \in {fd, Ignored(fd)}
            IN  /\ pollfds_' = [pollfds_ EXCEPT ![i] =
                     [fd |-> IF ev = {} THEN Ignored(fd) ELSE @.fd, events |-> ev]]
                /\ silenced' = IF ev = {} THEN silenced \cup {fd} ELSE silenced
                /\ broken' = Failing(sound, "updateChannel")
                /\ UNCHANGED <<index, channels_>>
    /\ P!Forget
    /\ UNCHANGED channels

(* Mutant: the last descriptor is used as it stands, so an ignored channel *)
(* is not found.                                                           *)
ChannelAtUndecoded(d) == d

(* The channel whose entry is d, ignored or not. *)
ChannelAt(d) == IF d < 0 THEN -d - 1 ELSE d

(* removeChannel: the last entry takes the place of the removed one; the   *)
(* channel is then destroyed by its owner.                                 *)
RemoveChannel(fd) ==
    LET i == index[fd] + 1
        n == Len(pollfds_)
        last == ChannelAt(pollfds_[n].fd)
        sound == /\ fd \in channels_
                 /\ i \in 1..n
                 /\ pollfds_[i].events = events[fd]
    IN  /\ channels' = channels \ {fd}
        /\ channels_' = channels_ \ {fd}
        /\ silenced' = silenced \ {fd}
        /\ pollfds_' = SubSeq([pollfds_ EXCEPT ![i] = pollfds_[n]], 1, n - 1)
        /\ index' = [index EXCEPT ![last] = index[fd], ![fd] = -1]
        /\ broken' = Failing(sound, "removeChannel")
                     \cup Failing(pollfds_[i].fd = Ignored(fd), "ignored")
        /\ P!Forget
        /\ UNCHANGED events

-----------------------------------------------------------------------------
(* The operations of Channel, all of them on the loop thread. *)

EnableReading(fd) ==
    /\ fd \in channels
    /\ UpdateChannel(fd, events[fd] \cup {P!ReadEvent})

EnableWriting(fd) ==
    /\ fd \in channels
    /\ UpdateChannel(fd, events[fd] \cup {P!WriteEvent})

(* The mask is kWriteEvent, not its complement. *)
DisableWriting(fd) ==
    /\ fd \in channels
    /\ UpdateChannel(fd, events[fd] \cap {P!WriteEvent})

DisableAll(fd) ==
    /\ fd \in channels
    /\ UpdateChannel(fd, {})

(* remove(), before which disableAll has to be called. *)
Remove(fd) ==
    /\ fd \in channels /\ index[fd] >= 0 /\ events[fd] = {}
    /\ RemoveChannel(fd)

(* revents of an entry: what it asks for, and hang-ups; the kernel ignores *)
(* negative descriptors.                                                   *)
Revents(p, c) ==
    IF p.fd < 0 THEN {} ELSE c[p.fd] \cap (p.events \cup P!Unasked)

(* Mutant: fillActiveChannels stops one entry early. *)
HitEarly(c) == {i \in 1..Len(pollfds_) - 1 : Revents(pollfds_[i], c) # {}}

(* The entries that fillActiveChannels turns into active channels. *)
Hit(c) == {i \in 1..Len(pollfds_) : Revents(pollfds_[i], c) # {}}

Poll ==
    /\ cond' \in [Fds -> P!Situations]
    /\ LET hit == Hit(cond')
       IN  /\ active' = [fd \in {pollfds_[i].fd : i \in hit} |->
                           LET i == CHOOSE i \in hit : pollfds_[i].fd = fd
                           IN  Revents(pollfds_[i], cond')]
           /\ broken' = Failing(\A i \in hit : pollfds_[i].fd \in channels_,
                                "fillActiveChannels")
    /\ failed' = FALSE
    /\ UNCHANGED <<channels, events, index, pollfds_, channels_, silenced>>

(* poll() returns -1: an error is logged and no channel is active. *)
PollFails ==
    /\ P!PollFails
    /\ broken' = {}
    /\ UNCHANGED <<index, pollfds_, channels_, silenced>>

Next ==
    \/ \E fd \in Fds :
         \/ NewChannel(fd)
         \/ EnableReading(fd)
         \/ EnableWriting(fd)
         \/ DisableWriting(fd)
         \/ DisableAll(fd)
         \/ Remove(fd)
    \/ Poll
    \/ PollFails

Spec == Init /\ [][Next]_vars

-----------------------------------------------------------------------------
(* Properties. *)

(***************************************************************************)
(* index_, pollfds_ and the map agree: every registered channel finds its  *)
(* own entry, with its own events, and every entry belongs to one channel; *)
(* the swap of removeChannel must move the index of the channel that was   *)
(* last, whether that one is being ignored or not.  Ignored are exactly    *)
(* the channels that have been disabled since they were registered, also   *)
(* those that have been enabled again.                                     *)
(***************************************************************************)
EntriesMatch ==
    /\ channels_ = {fd \in channels : index[fd] >= 0}
    /\ Len(pollfds_) = Cardinality(channels_)
    /\ \A fd \in channels_ :
         /\ index[fd] + 1 \in 1..Len(pollfds_)
         /\ pollfds_[index[fd] + 1] =
              [fd |-> IF fd \in silenced THEN Ignored(fd) ELSE fd,
               events |-> events[fd]]

(***************************************************************************)
(* No assertion of PollPoller.cpp fails but the one of removeChannel that  *)
(* the entry is ignored; EntriesMatch says when it is not: for a channel   *)
(* that disableAll() has registered.                                       *)
(***************************************************************************)
AssertionsHold == broken \subseteq {"ignored"}
=============================================================================

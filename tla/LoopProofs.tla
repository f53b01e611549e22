----------------------------- MODULE LoopProofs -----------------------------
(***************************************************************************)
(* Proofs about the two pollers, through the choice of DefaultPoller, for  *)
(* any finite set of descriptors and any first size of the buffer for      *)
(* epoll_wait: the structures of a poller agree, and either poller         *)
(* implements what Poller promises.  And about EventLoop, for any threads, *)
(* functors, channels and size of the eventfd counter.                     *)
(***************************************************************************)
EXTENDS EventLoop, DefaultPoller, FiniteSetTheorems, SequenceTheorems, TLAPS

Interests == SUBSET {"read", "write"}

-----------------------------------------------------------------------------
(* PollPoller.                                                             *)

Entry == [fd : Int, events : Interests]

(* The inductive invariant.  Beside EntriesMatch, in which a channel finds *)
(* its entry, each entry finds its channel; and only a channel in the map  *)
(* has events.                                                             *)
EntriesOwned ==
    \A i \in 1..Len(pollfds_) :
        LET fd == PP!ChannelAt(pollfds_[i].fd)
        IN  fd \in channels_ /\ index[fd] = i - 1

OthersQuiet == \A fd \in Fds \ channels_ : events[fd] = {}

PollInv ==
    /\ PP!TypeOK
    /\ pollfds_ \in Seq(Entry)
    /\ PP!EntriesMatch
    /\ EntriesOwned
    /\ OthersQuiet
    /\ PP!AssertionsHold

-----------------------------------------------------------------------------
(* EPollPoller.                                                            *)

(* The inductive invariant.  index_ tells whether a channel is in the map, *)
(* and one that is not kAdded has no events; a descriptor without channel  *)
(* is like new.                                                            *)
IndexTells ==
    /\ channels_ = {fd \in channels : index[fd] # EP!kNew}
    /\ \A fd \in Fds : index[fd] # EP!kAdded => events[fd] = {}
    /\ \A fd \in Fds \ channels : index[fd] = EP!kNew

EPollInv ==
    /\ EP!TypeOK
    /\ interest \in [Fds -> Interests \cup {NotInList}]
    /\ EP!ListMatches
    /\ IndexTells
    /\ broken = {}
    /\ silenced = {}

PollerInv ==
    /\ usePoll \in BOOLEAN
    /\ usePoll => PollInv
    /\ ~usePoll => EPollInv

-----------------------------------------------------------------------------
(* Lemmas. *)

LEMMA PollCardinality == \A S : PP!Cardinality(S) = Cardinality(S)
  BY DEF PP!Cardinality, Cardinality

LEMMA EPollCardinality == \A S : EP!Cardinality(S) = Cardinality(S)
  BY DEF EP!Cardinality, Cardinality

LEMMA FdCount ==
    ASSUME NEW S \in SUBSET Fds
    PROVE  /\ IsFiniteSet(S)
           /\ Cardinality(S) \in Nat
           /\ \A fd \in Fds \ S : Cardinality(S \cup {fd}) = Cardinality(S) + 1
           /\ \A fd \in S : Cardinality(S \ {fd}) = Cardinality(S) - 1
<1>1. IsFiniteSet(S)
  BY PollerAssumption, FS_Subset
<1> QED
  BY <1>1, FS_CardinalityType, FS_AddElement, FS_RemoveElement

(* The descriptor of an entry, ignored or not, leads to its channel. *)
LEMMA Decoded ==
    ASSUME NEW fd \in Fds
    PROVE  /\ PP!ChannelAt(fd) = fd /\ PP!ChannelAt(PP!Ignored(fd)) = fd
           /\ PP!Ignored(fd) < 0 /\ fd >= 0 /\ fd \in Int /\ PP!Ignored(fd) \in Int
  BY PollerAssumption DEF PP!ChannelAt, PP!Ignored

LEMMA EntryFd ==
    ASSUME NEW q \in Seq(Entry)
    PROVE  \A i \in 1..Len(q) : q[i].fd \in Int
<1> TAKE i \in 1..Len(q)
<1>1. q[i] \in Entry
  BY ElementOfSeq
<1> QED
  BY <1>1 DEF Entry

(* A channel of the map finds its own entry. *)
LEMMA FindsEntry ==
    ASSUME PollInv, NEW f \in channels_
    PROVE  LET e == pollfds_[index[f] + 1] IN
           /\ f \in Fds
           /\ index[f] + 1 \in 1..Len(pollfds_)
           /\ e.fd = IF f \in silenced THEN PP!Ignored(f) ELSE f
           /\ e.events = events[f]
           /\ PP!ChannelAt(e.fd) = f
<1>1. f \in Fds
  BY DEF PollInv, PP!TypeOK
<1>2. /\ index[f] + 1 \in 1..Len(pollfds_)
      /\ pollfds_[index[f] + 1] =
           [fd |-> IF f \in silenced THEN PP!Ignored(f) ELSE f, events |-> events[f]]
  BY DEF PollInv, PP!EntriesMatch
<1> QED
  BY <1>1, <1>2, Decoded

(* updateChannel() of a new channel appends an entry ... *)
LEMMA UpdateNew ==
    ASSUME PollInv, NEW fd \in channels, NEW ev \in Interests, index[fd] < 0,
           PP!UpdateChannel(fd, ev)
    PROVE  PollInv'
<1>0. /\ fd \in Fds /\ fd \notin channels_ /\ channels_ \subseteq channels
      /\ channels \subseteq Fds
      /\ index \in [Fds -> Int] /\ events \in [Fds -> Interests]
      /\ pollfds_ \in Seq(Entry)
      /\ silenced \subseteq channels_
  BY DEF PollInv, PP!TypeOK, PP!EntriesMatch, Interests, PP!P!ReadEvent, PP!P!WriteEvent
<1> DEFINE e == [fd |-> fd, events |-> ev]
<1>1. /\ events' = [events EXCEPT ![fd] = ev]
      /\ pollfds_' = Append(pollfds_, e)
      /\ index' = [index EXCEPT ![fd] = Len(pollfds_)]
      /\ channels_' = channels_ \cup {fd}
      /\ channels' = channels
      /\ silenced' = silenced
      /\ broken' = PP!Failing(fd \notin channels_, "updateChannel")
  BY DEF PP!UpdateChannel
<1>b. PP!AssertionsHold'
  BY <1>0, <1>1 DEF PP!Failing, PP!AssertionsHold
<1>2. e \in Entry
  BY <1>0, Decoded DEF Entry
<1>3. /\ pollfds_' \in Seq(Entry) /\ Len(pollfds_') = Len(pollfds_) + 1
      /\ Len(pollfds_) \in Nat
      /\ \A i \in 1..Len(pollfds_) : pollfds_'[i] = pollfds_[i]
      /\ pollfds_'[Len(pollfds_) + 1] = e
  <2> HIDE DEF e
  <2> QED
    BY <1>0, <1>1, <1>2, AppendProperties, LenProperties
<1>4. /\ index' \in [Fds -> Int] /\ events' \in [Fds -> Interests]
      /\ index'[fd] = Len(pollfds_) /\ events'[fd] = ev
      /\ \A f \in Fds \ {fd} : index'[f] = index[f] /\ events'[f] = events[f]
  BY <1>0, <1>1, <1>3
<1>5. \A i \in 1..Len(pollfds_') : pollfds_'[i].fd \in Int
  BY <1>3, EntryFd
<1>6. PP!TypeOK'
  BY <1>b, <1>0, <1>1, <1>4, <1>5
  DEF PP!TypeOK, Interests, PP!P!ReadEvent, PP!P!WriteEvent
<1>7. PP!EntriesMatch'
  <2>1. channels_' = {f \in channels' : index'[f] >= 0}
    <3>1. channels_ = {f \in channels : index[f] >= 0}
      BY DEF PollInv, PP!EntriesMatch
    <3>2. \A f \in channels : f \in channels_' <=> index'[f] >= 0
      BY <1>0, <1>1, <1>3, <1>4, <3>1
    <3> QED
      BY <1>0, <1>1, <3>2
  <2>2. Len(pollfds_') = PP!Cardinality(channels_')
    <3>1. Len(pollfds_) = Cardinality(channels_)
      BY PollCardinality DEF PollInv, PP!EntriesMatch
    <3>2. Cardinality(channels_ \cup {fd}) = Cardinality(channels_) + 1
      BY <1>0, FdCount
    <3> QED
      BY <1>1, <1>3, <3>1, <3>2, PollCardinality
  <2>3. ASSUME NEW f \in channels_'
        PROVE  /\ index'[f] + 1 \in 1..Len(pollfds_')
               /\ pollfds_'[index'[f] + 1] =
                    [fd |-> IF f \in silenced' THEN PP!Ignored(f) ELSE f,
                     events |-> events'[f]]
    <3>1. CASE f = fd
      BY <1>0, <1>1, <1>3, <1>4, <3>1
    <3>2. CASE f # fd
      <4>1. f \in channels_ /\ f \in Fds
        BY <1>0, <1>1, <2>3, <3>2
      <4>2. /\ index[f] + 1 \in 1..Len(pollfds_)
            /\ pollfds_[index[f] + 1] =
                 [fd |-> IF f \in silenced THEN PP!Ignored(f) ELSE f, events |-> events[f]]
        BY <4>1 DEF PollInv, PP!EntriesMatch
      <4> QED
        BY <1>1, <1>3, <1>4, <3>2, <4>1, <4>2
    <3> QED
      BY <3>1, <3>2
  <2>4. PP!Cardinality(channels_)' = PP!Cardinality(channels_')
    BY DEF PP!Cardinality
  <2> QED
    BY <2>1, <2>2, <2>3, <2>4 DEF PP!EntriesMatch, PP!Ignored
<1>8. EntriesOwned'
  <2> SUFFICES ASSUME NEW i \in 1..Len(pollfds_')
               PROVE  LET f == PP!ChannelAt(pollfds_'[i].fd)
                      IN  f \in channels_' /\ index'[f] = i - 1
    BY DEF EntriesOwned, PP!ChannelAt
  <2>1. CASE i = Len(pollfds_) + 1
    BY <1>0, <1>1, <1>3, <1>4, <2>1, Decoded
  <2>2. CASE i # Len(pollfds_) + 1
    <3>1. i \in 1..Len(pollfds_)
      BY <1>3, <2>2
    <3>2. LET f == PP!ChannelAt(pollfds_[i].fd) IN f \in channels_ /\ index[f] = i - 1
      BY <3>1 DEF PollInv, EntriesOwned
    <3> QED
      BY <1>0, <1>1, <1>3, <1>4, <3>1, <3>2
  <2> QED
    BY <2>1, <2>2
<1>9. OthersQuiet'
  BY <1>0, <1>1, <1>4 DEF PollInv, OthersQuiet
<1> QED
  BY <1>b, <1>3, <1>6, <1>7, <1>8, <1>9 DEF PollInv

(* ... and of another one changes the entry it has. *)
LEMMA UpdateOld ==
    ASSUME PollInv, NEW fd \in channels, NEW ev \in Interests, index[fd] >= 0,
           PP!UpdateChannel(fd, ev)
    PROVE  PollInv'
<1> DEFINE i == index[fd] + 1
           sil == IF ev = {} THEN silenced \cup {fd} ELSE silenced
           e == [fd |-> IF fd \in sil THEN PP!Ignored(fd) ELSE fd, events |-> ev]
<1>0. /\ fd \in Fds /\ fd \in channels_ /\ channels_ \subseteq channels
      /\ channels \subseteq Fds
      /\ index \in [Fds -> Int] /\ events \in [Fds -> Interests]
      /\ pollfds_ \in Seq(Entry)
      /\ silenced \subseteq channels_
  BY DEF PollInv, PP!TypeOK, PP!EntriesMatch, Interests, PP!P!ReadEvent, PP!P!WriteEvent
<1>1. \A f \in channels_ :
        /\ index[f] + 1 \in 1..Len(pollfds_)
        /\ pollfds_[index[f] + 1] =
             [fd |-> IF f \in silenced THEN PP!Ignored(f) ELSE f, events |-> events[f]]
  BY DEF PollInv, PP!EntriesMatch
<1>2. /\ i \in 1..Len(pollfds_)
      /\ pollfds_[i].fd = IF fd \in silenced THEN PP!Ignored(fd) ELSE fd
  BY <1>0, FindsEntry
<1>3. e \in Entry /\ (IF ev = {} THEN PP!Ignored(fd) ELSE pollfds_[i].fd) = e.fd
  BY <1>0, <1>2, Decoded DEF Entry
<1>4. /\ events' = [events EXCEPT ![fd] = ev]
      /\ pollfds_' = [pollfds_ EXCEPT ![i] = e]
      /\ UNCHANGED <<index, channels_, channels>>
      /\ silenced' = sil
      /\ PP!AssertionsHold'
  <2>1. /\ events' = [events EXCEPT ![fd] = ev]
        /\ pollfds_' = [pollfds_ EXCEPT ![i] =
              [fd |-> IF ev = {} THEN PP!Ignored(fd) ELSE pollfds_[i].fd, events |-> ev]]
        /\ silenced' = sil
        /\ broken' = PP!Failing(/\ fd \in channels_
                                /\ i \in 1..Len(pollfds_)
                                /\ pollfds_[i].fd \in {fd, PP!Ignored(fd)},
                                "updateChannel")
        /\ UNCHANGED <<index, channels_, channels>>
    BY <1>0 DEF PP!UpdateChannel
  <2>2. pollfds_[i].fd \in {fd, PP!Ignored(fd)}
    BY <1>2
  <2>3. PP!AssertionsHold'
    BY <1>0, <1>2, <2>1, <2>2 DEF PP!Failing, PP!AssertionsHold
  <2> QED
    BY <1>3, <2>1, <2>3
<1>5. /\ pollfds_' \in Seq(Entry) /\ Len(pollfds_') = Len(pollfds_)
      /\ Len(pollfds_) \in Nat
      /\ pollfds_'[i] = e
      /\ \A j \in 1..Len(pollfds_) : j # i => pollfds_'[j] = pollfds_[j]
  <2> HIDE DEF i, e
  <2> QED
    BY <1>0, <1>2, <1>3, <1>4, ExceptSeq, LenProperties
<1>6. /\ events' \in [Fds -> Interests] /\ events'[fd] = ev
      /\ \A f \in Fds \ {fd} : events'[f] = events[f]
  BY <1>0, <1>4
<1>7. \A j \in 1..Len(pollfds_') : pollfds_'[j].fd \in Int
  BY <1>5, EntryFd
<1>8. PP!TypeOK'
  BY <1>0, <1>4, <1>6, <1>7
  DEF PP!TypeOK, Interests, PP!P!ReadEvent, PP!P!WriteEvent
<1>9. \A f \in channels_ \ {fd} : index[f] + 1 # i
  <2> SUFFICES ASSUME NEW f \in channels_ \ {fd}, index[f] + 1 = i PROVE FALSE
    OBVIOUS
  <2>1. PP!ChannelAt(pollfds_[i].fd) = f
    BY FindsEntry
  <2>2. PP!ChannelAt(pollfds_[i].fd) = fd
    BY <1>0, <1>2, Decoded
  <2> QED
    BY <2>1, <2>2
<1>10. PP!EntriesMatch'
  <2>1. channels_' = {f \in channels' : index'[f] >= 0}
    BY <1>4 DEF PollInv, PP!EntriesMatch
  <2>2. Len(pollfds_') = PP!Cardinality(channels_)'
    BY <1>4, <1>5 DEF PollInv, PP!EntriesMatch
  <2>3. ASSUME NEW f \in channels_'
        PROVE  /\ index'[f] + 1 \in 1..Len(pollfds_')
               /\ pollfds_'[index'[f] + 1] =
                    [fd |-> IF f \in silenced' THEN PP!Ignored(f) ELSE f,
                     events |-> events'[f]]
    <3>1. CASE f = fd
      BY <1>2, <1>4, <1>5, <1>6, <3>1
    <3>2. CASE f # fd
      <4>1. f \in channels_ /\ f \in Fds /\ index'[f] = index[f]
        BY <1>0, <1>4, <2>3
      <4> HIDE DEF i, e
      <4> QED
        BY <1>1, <1>4, <1>5, <1>6, <1>9, <3>2, <4>1 DEF sil
    <3> QED
      BY <3>1, <3>2
  <2> QED
    BY <2>1, <2>2, <2>3 DEF PP!EntriesMatch, PP!Ignored
<1>11. EntriesOwned'
  <2> SUFFICES ASSUME NEW j \in 1..Len(pollfds_')
               PROVE  LET f == PP!ChannelAt(pollfds_'[j].fd)
                      IN  f \in channels_ /\ index[f] = j - 1
    BY <1>4 DEF EntriesOwned, PP!ChannelAt
  <2>1. CASE j = i
    <3>1. PP!ChannelAt(pollfds_'[j].fd) = fd
      BY <1>0, <1>5, <2>1, Decoded
    <3> QED
      BY <1>0, <2>1, <3>1
  <2>2. CASE j # i
    <3>1. j \in 1..Len(pollfds_) /\ pollfds_'[j] = pollfds_[j]
      BY <1>5, <2>2
    <3> QED
      BY <3>1 DEF PollInv, EntriesOwned
  <2> QED
    BY <2>1, <2>2
<1>12. OthersQuiet'
  BY <1>0, <1>4, <1>6 DEF PollInv, OthersQuiet
<1> QED
  BY <1>4, <1>5, <1>8, <1>10, <1>11, <1>12 DEF PollInv

(* removeChannel() moves the last entry to the place of the removed one,   *)
(* and the index of its channel with it.                                   *)
LEMMA RemoveKeeps ==
    ASSUME PollInv, NEW fd \in Fds, PP!Remove(fd)
    PROVE  PollInv'
<1> DEFINE i == index[fd] + 1
           n == Len(pollfds_)
           last == PP!ChannelAt(pollfds_[n].fd)
<1>0. /\ fd \in channels_ /\ events[fd] = {} /\ channels_ \subseteq channels
      /\ channels \subseteq Fds
      /\ index \in [Fds -> Int] /\ events \in [Fds -> Interests]
      /\ pollfds_ \in Seq(Entry)
      /\ silenced \subseteq channels_
      /\ channels_ = {f \in channels : index[f] >= 0}
  BY DEF PollInv, PP!TypeOK, PP!EntriesMatch, PP!Remove,
         Interests, PP!P!ReadEvent, PP!P!WriteEvent
<1>1. /\ i \in 1..n
      /\ pollfds_[i].events = events[fd]
  BY <1>0, FindsEntry
<1>2. n \in Nat /\ n > 0 /\ n \in 1..n
  BY <1>0, <1>1, LenProperties
<1>3. last \in channels_ /\ last \in Fds /\ index[last] = n - 1
  BY <1>0, <1>2 DEF PollInv, EntriesOwned
<1>4. /\ channels' = channels \ {fd} /\ channels_' = channels_ \ {fd}
      /\ pollfds_' = SubSeq([pollfds_ EXCEPT ![i] = pollfds_[n]], 1, n - 1)
      /\ silenced' = silenced \ {fd}
      /\ index' = [index EXCEPT ![last] = index[fd], ![fd] = -1]
      /\ events' = events
  BY DEF PP!Remove, PP!RemoveChannel
<1>5. PP!AssertionsHold'
  <2>1. broken' = PP!Failing(/\ fd \in channels_ /\ i \in 1..n
                             /\ pollfds_[i].events = events[fd], "removeChannel")
                  \cup PP!Failing(pollfds_[i].fd = PP!Ignored(fd), "ignored")
    BY DEF PP!Remove, PP!RemoveChannel
  <2> QED
    BY <1>0, <1>1, <2>1 DEF PP!Failing, PP!AssertionsHold
<1>6. /\ pollfds_' \in Seq(Entry) /\ Len(pollfds_') = n - 1
      /\ \A j \in 1..(n - 1) : pollfds_'[j] = IF j = i THEN pollfds_[n] ELSE pollfds_[j]
  <2> DEFINE q == [pollfds_ EXCEPT ![i] = pollfds_[n]]
  <2> HIDE DEF i, n
  <2>1. pollfds_[n] \in Entry
    BY <1>0, <1>2, ElementOfSeq DEF n
  <2>2. /\ q \in Seq(Entry) /\ Len(q) = n
        /\ \A j \in 1..n : q[j] = IF j = i THEN pollfds_[n] ELSE pollfds_[j]
    BY <1>0, <1>1, <2>1, ExceptSeq DEF n
  <2> HIDE DEF q
  <2>3. \A j \in 1..(n - 1) : q[j] \in Entry
    BY <1>2, <2>2, ElementOfSeq
  <2>4. /\ SubSeq(q, 1, n - 1) \in Seq(Entry)
        /\ Len(SubSeq(q, 1, n - 1)) = IF 1 <= n - 1 THEN n - 1 - 1 + 1 ELSE 0
        /\ \A j \in 1..(n - 1 - 1 + 1) : SubSeq(q, 1, n - 1)[j] = q[1 + j - 1]
    BY <1>2, <2>3, SubSeqProperties
  <2>5. pollfds_' = SubSeq(q, 1, n - 1)
    BY <1>4 DEF q
  <2> QED
    BY <1>2, <2>2, <2>4, <2>5
<1>7. \A j \in 1..Len(pollfds_') : pollfds_'[j].fd \in Int
  BY <1>6, EntryFd
<1>8. index' \in [Fds -> Int]
  BY <1>0, <1>3, <1>4
<1>9. PP!TypeOK'
  BY <1>0, <1>4, <1>5, <1>7, <1>8
  DEF PP!TypeOK, Interests, PP!P!ReadEvent, PP!P!WriteEvent
<1>10. \A f \in channels_ : index[f] + 1 \in 1..n /\ index[f] \in Int
  BY <1>0, FindsEntry
<1>11. \A f, g \in channels_ : index[f] = index[g] => f = g
  <2> SUFFICES ASSUME NEW f \in channels_, NEW g \in channels_, index[f] = index[g]
               PROVE  f = g
    OBVIOUS
  <2>1. PP!ChannelAt(pollfds_[index[f] + 1].fd) = f /\ PP!ChannelAt(pollfds_[index[g] + 1].fd) = g
    BY FindsEntry
  <2> QED
    BY <2>1
<1> HIDE DEF i, n, last
<1>12. \A f \in channels_ \ {fd} :
          /\ index'[f] = IF i # n /\ f = last THEN i - 1 ELSE index[f]
          /\ i = n => f # last
          /\ f # last => index[f] # n - 1
          /\ index[f] # i - 1
  <2> TAKE f \in channels_ \ {fd}
  <2>1. f \in Fds /\ index'[f] = IF f = last THEN index[fd] ELSE index[f]
    BY <1>0, <1>3, <1>4
  <2>2. index[f] # index[fd] /\ (f # last => index[f] # index[last])
    BY <1>0, <1>3, <1>11
  <2>3. i - 1 = index[fd] /\ (i = n => index[fd] = index[last])
    BY <1>0, <1>3, <1>10 DEF i
  <2> QED
    BY <1>3, <2>1, <2>2, <2>3
<1>13. PP!EntriesMatch'
  <2>1. channels_' = {f \in channels' : index'[f] >= 0}
    <3>1. \A f \in channels \ {fd} : f \in channels_ <=> index'[f] >= 0
      <4>1. \A f \in channels \ {fd} : f \notin channels_ => index'[f] = index[f]
        BY <1>0, <1>3, <1>4
      <4> QED
        BY <1>0, <1>1, <1>2, <1>12, <4>1
    <3> QED
      BY <1>0, <1>4, <3>1
  <2>2. Len(pollfds_') = PP!Cardinality(channels_')
    <3>1. n = Cardinality(channels_)
      BY PollCardinality DEF PollInv, PP!EntriesMatch, n
    <3>2. Cardinality(channels_ \ {fd}) = Cardinality(channels_) - 1
      BY <1>0, FdCount
    <3> QED
      BY <1>4, <1>6, <3>1, <3>2, PollCardinality
  <2>3. ASSUME NEW f \in channels_'
        PROVE  /\ index'[f] + 1 \in 1..Len(pollfds_')
               /\ pollfds_'[index'[f] + 1] =
                    [fd |-> IF f \in silenced' THEN PP!Ignored(f) ELSE f,
                     events |-> events'[f]]
    <3>0. f \in channels_ /\ f # fd
      BY <1>4, <2>3
    <3>1. /\ index[f] + 1 \in 1..n
          /\ pollfds_[index[f] + 1] =
               [fd |-> IF f \in silenced THEN PP!Ignored(f) ELSE f, events |-> events[f]]
      BY <3>0 DEF PollInv, PP!EntriesMatch, n
    <3>2. index'[f] + 1 \in 1..(n - 1)
      BY <1>1, <1>2, <1>10, <1>12, <3>0
    <3>3. pollfds_'[index'[f] + 1] = pollfds_[index[f] + 1]
      <4>1. CASE i # n /\ f = last
        BY <1>1, <1>2, <1>3, <1>6, <1>12, <3>0, <3>2, <4>1
      <4>2. CASE ~(i # n /\ f = last)
        <5>1. index'[f] = index[f] /\ index[f] + 1 # i
          BY <1>1, <1>2, <1>10, <1>12, <3>0, <4>2
        <5> QED
          BY <1>6, <3>2, <5>1
      <4> QED
        BY <4>1, <4>2
    <3> QED
      BY <1>4, <1>6, <3>1, <3>2, <3>3
  <2>4. PP!Cardinality(channels_)' = PP!Cardinality(channels_')
    BY DEF PP!Cardinality
  <2> QED
    BY <2>1, <2>2, <2>3, <2>4 DEF PP!EntriesMatch, PP!Ignored
<1>14. EntriesOwned'
  <2> SUFFICES ASSUME NEW j \in 1..Len(pollfds_')
               PROVE  LET f == PP!ChannelAt(pollfds_'[j].fd)
                      IN  f \in channels_' /\ index'[f] = j - 1
    BY DEF EntriesOwned, PP!ChannelAt
  <2>0. j \in 1..(n - 1) /\ j \in 1..n
    BY <1>2, <1>6
  <2>1. CASE j = i
    <3>1. PP!ChannelAt(pollfds_'[j].fd) = last /\ i # n
      BY <1>2, <1>6, <2>0, <2>1 DEF last
    <3>2. last # fd
      BY <1>1, <1>2, <1>3, <3>1 DEF i
    <3> QED
      BY <1>3, <1>4, <1>12, <2>1, <3>1, <3>2
  <2>2. CASE j # i
    <3> DEFINE f == PP!ChannelAt(pollfds_[j].fd)
    <3>1. f \in channels_ /\ index[f] = j - 1 /\ PP!ChannelAt(pollfds_'[j].fd) = f
      BY <1>6, <2>0, <2>2 DEF PollInv, EntriesOwned, n
    <3> HIDE DEF f
    <3>2. f # fd /\ (f # last \/ i = n)
      BY <1>2, <1>3, <2>0, <2>2, <3>1 DEF i
    <3> QED
      BY <1>4, <1>12, <3>1, <3>2
  <2> QED
    BY <2>1, <2>2
<1>15. OthersQuiet'
  BY <1>0, <1>4 DEF PollInv, OthersQuiet
<1> QED
  BY <1>5, <1>6, <1>9, <1>13, <1>14, <1>15 DEF PollInv

(* poll() reports channels of the map that it does not ignore, with what   *)
(* interests them, and all of those that are due.                          *)
LEMMA PollReports ==
    ASSUME PollInv, NEW c \in [Fds -> PP!P!Situations]
    PROVE  /\ \A i \in PP!Hit(c) :
                 LET fd == pollfds_[i].fd IN
                 /\ fd \in channels_
                 /\ PP!Revents(pollfds_[i], c) = H!Reports(fd, c)
           /\ \A fd \in channels :
                 H!Due(fd, c) => \E i \in PP!Hit(c) : pollfds_[i].fd = fd
<1>1. ASSUME NEW i \in PP!Hit(c)
      PROVE  LET fd == pollfds_[i].fd IN
             /\ fd \in channels_
             /\ PP!Revents(pollfds_[i], c) = H!Reports(fd, c)
  <2> DEFINE fd == pollfds_[i].fd
  <2>1. i \in 1..Len(pollfds_) /\ PP!Revents(pollfds_[i], c) # {}
    BY DEF PP!Hit
  <2>2. fd \in Int /\ fd >= 0
    BY <2>1, EntryFd DEF PP!Revents, PollInv
  <2>3. fd \in channels_ /\ index[fd] = i - 1
    BY <2>1, <2>2 DEF PollInv, EntriesOwned, PP!ChannelAt
  <2>4. LET e == pollfds_[index[fd] + 1] IN
        e.events = events[fd] /\ e.fd = (IF fd \in silenced THEN PP!Ignored(fd) ELSE fd)
        /\ fd \in Fds
    BY <2>3, FindsEntry
  <2>5. index[fd] + 1 = i
    BY <2>1, <2>3
  <2>6. fd \notin silenced /\ pollfds_[i].events = events[fd] /\ fd \in Fds
    BY <2>2, <2>4, <2>5, Decoded
  <2>7. Heeded[fd] = events[fd]
    BY <2>6 DEF Heeded
  <2> QED
    BY <2>2, <2>3, <2>6, <2>7 DEF PP!Revents, H!Reports, PP!P!Unasked, H!Unasked
<1>2. ASSUME NEW fd \in channels, H!Due(fd, c)
      PROVE  \E i \in PP!Hit(c) : pollfds_[i].fd = fd
  <2>0. fd \in Fds
    BY DEF PollInv, PP!TypeOK
  <2>1. events[fd] # {} /\ fd \notin silenced /\ Heeded[fd] = events[fd]
        /\ H!Reports(fd, c) # {}
    BY <1>2, <2>0 DEF H!Due, Heeded
  <2>2. fd \in channels_
    BY <2>0, <2>1 DEF PollInv, OthersQuiet
  <2> DEFINE i == index[fd] + 1
  <2>3. i \in 1..Len(pollfds_) /\ pollfds_[i].fd = fd /\ pollfds_[i].events = events[fd]
    BY <2>1, <2>2, FindsEntry
  <2> HIDE DEF i
  <2>4. PP!Revents(pollfds_[i], c) = H!Reports(fd, c)
    BY <2>0, <2>1, <2>3, Decoded DEF PP!Revents, H!Reports, PP!P!Unasked, H!Unasked
  <2> QED
    BY <2>1, <2>3, <2>4 DEF PP!Hit
<1> QED
  BY <1>1, <1>2

(* Every call of a channel, and every poll, keeps the structures of        *)
(* PollPoller together.                                                    *)
LEMMA PollStep == PollInv /\ PP!Next => PollInv'
<1> SUFFICES ASSUME PollInv, PP!Next PROVE PollInv'
  OBVIOUS
<1>0. channels \subseteq Fds /\ index \in [Fds -> Int] /\ events \in [Fds -> Interests]
      /\ channels_ = {f \in channels : index[f] >= 0} /\ silenced \subseteq channels_
  BY DEF PollInv, PP!TypeOK, PP!EntriesMatch, Interests, PP!P!ReadEvent, PP!P!WriteEvent
<1>1. ASSUME NEW fd \in Fds, PP!NewChannel(fd) PROVE PollInv'
  <2>1. /\ fd \notin channels /\ channels' = channels \cup {fd}
        /\ events' = [events EXCEPT ![fd] = {}]
        /\ index' = [index EXCEPT ![fd] = -1]
        /\ UNCHANGED <<pollfds_, channels_, silenced>>
        /\ broken' = {}
    BY <1>1 DEF PP!NewChannel
  <2>2. /\ events' \in [Fds -> Interests] /\ events'[fd] = {}
        /\ index' \in [Fds -> Int] /\ index'[fd] = -1
        /\ \A f \in Fds \ {fd} : index'[f] = index[f] /\ events'[f] = events[f]
    BY <1>0, <2>1 DEF Interests
  <2>3. PP!TypeOK'
    BY <1>0, <2>1, <2>2 DEF PollInv, PP!TypeOK, Interests, PP!P!ReadEvent, PP!P!WriteEvent
  <2>4. PP!EntriesMatch'
    <3>1. channels_' = {f \in channels' : index'[f] >= 0}
      <4>1. \A f \in channels' : f \in channels_ <=> index'[f] >= 0
        BY <1>0, <2>1, <2>2
      <4> QED
        BY <1>0, <2>1, <4>1
    <3>2. Len(pollfds_') = PP!Cardinality(channels_)'
      BY <2>1 DEF PollInv, PP!EntriesMatch
    <3>3. \A f \in channels_ : f # fd /\ f \in Fds
      BY <1>0, <2>1
    <3> QED
      BY <2>1, <2>2, <3>1, <3>2, <3>3 DEF PollInv, PP!EntriesMatch, PP!Ignored
  <2>5. EntriesOwned'
    <3>1. \A f \in channels_ : index'[f] = index[f]
      BY <1>0, <2>1, <2>2
    <3> QED
      BY <2>1, <3>1 DEF PollInv, EntriesOwned, PP!ChannelAt
  <2>6. OthersQuiet'
    BY <2>1, <2>2 DEF PollInv, OthersQuiet
  <2> QED
    BY <2>1, <2>3, <2>4, <2>5, <2>6 DEF PollInv, PP!AssertionsHold
<1>2. ASSUME NEW fd \in channels, NEW ev \in Interests, PP!UpdateChannel(fd, ev)
      PROVE  PollInv'
  BY <1>0, <1>2, UpdateNew, UpdateOld
<1>3. ASSUME NEW fd \in Fds, PP!EnableReading(fd) PROVE PollInv'
  <2>1. events[fd] \cup {PP!P!ReadEvent} \in Interests
    BY <1>0 DEF Interests, PP!P!ReadEvent
  <2> QED
    BY <1>2, <1>3, <2>1 DEF PP!EnableReading
<1>4. ASSUME NEW fd \in Fds, PP!EnableWriting(fd) PROVE PollInv'
  <2>1. events[fd] \cup {PP!P!WriteEvent} \in Interests
    BY <1>0 DEF Interests, PP!P!WriteEvent
  <2> QED
    BY <1>2, <1>4, <2>1 DEF PP!EnableWriting
<1>5. ASSUME NEW fd \in Fds, PP!DisableAll(fd) PROVE PollInv'
  <2>1. {} \in Interests /\ index[fd] \in Int
    BY <1>0 DEF Interests
  <2> QED
    BY <1>2, <1>5, <2>1 DEF PP!DisableAll
<1>w. ASSUME NEW fd \in Fds, PP!DisableWriting(fd) PROVE PollInv'
  <2>1. events[fd] \cap {PP!P!WriteEvent} \in Interests
    BY <1>0 DEF Interests
  <2> QED
    BY <1>2, <1>w, <2>1 DEF PP!DisableWriting
<1>6. ASSUME UNCHANGED <<channels, events, index, pollfds_, channels_, silenced>>,
             PP!AssertionsHold'
      PROVE  PollInv'
  <2>1. PP!Cardinality(channels_)' = PP!Cardinality(channels_)
    BY <1>6 DEF PP!Cardinality
  <2> QED
    BY <1>6, <2>1
    DEF PollInv, PP!TypeOK, PP!EntriesMatch, EntriesOwned, OthersQuiet, PP!ChannelAt, PP!Ignored,
        PP!P!ReadEvent, PP!P!WriteEvent
<1>7. CASE PP!Poll
  <2>1. UNCHANGED <<channels, events, index, pollfds_, channels_, silenced>>
    BY <1>7 DEF PP!Poll
  <2>2. cond' \in [Fds -> PP!P!Situations]
        /\ broken' = PP!Failing(\A i \in PP!Hit(cond') : pollfds_[i].fd \in channels_,
                                "fillActiveChannels")
    BY <1>7 DEF PP!Poll
  <2>3. PP!AssertionsHold'
    BY <2>2, PollReports DEF PP!Failing, PP!AssertionsHold
  <2> QED
    BY <1>6, <2>1, <2>3
<1>8. CASE PP!PollFails
  <2>1. UNCHANGED <<channels, events, index, pollfds_, channels_, silenced>> /\ broken' = {}
    BY <1>8 DEF PP!PollFails, PP!P!PollFails
  <2> QED
    BY <1>6, <2>1 DEF PP!AssertionsHold
<1> QED
  BY <1>1, <1>3, <1>4, <1>5, <1>w, <1>7, <1>8, RemoveKeeps DEF PP!Next

-----------------------------------------------------------------------------
(* EPollPoller, step by step. *)

LEMMA EPollTypes ==
    ASSUME EPollInv
    PROVE  /\ channels \subseteq Fds /\ channels_ \subseteq channels
           /\ events \in [Fds -> Interests]
           /\ index \in [Fds -> {EP!kNew, EP!kAdded, EP!kDeleted}]
           /\ events_ \in Nat /\ events_ > 0
           /\ \A fd \in Fds : events[fd] # NotInList
  BY PollerAssumption DEF EPollInv, EP!TypeOK, Interests, EP!P!ReadEvent, EP!P!WriteEvent

LEMMA EPollTypeStep ==
    ASSUME channels' \subseteq Fds, channels_' \subseteq channels',
           events' \in [Fds -> Interests],
           index' \in [Fds -> {EP!kNew, EP!kAdded, EP!kDeleted}],
           events_' \in Nat, events_' > 0,
           EP!Cardinality(DOMAIN active') <= events_'
    PROVE  EP!TypeOK'
<1>1. EP!Cardinality(DOMAIN active)' = EP!Cardinality(DOMAIN active')
  BY DEF EP!Cardinality
<1>2. (EP!Cardinality(DOMAIN active) <= events_)'
  BY <1>1, Zenon
<1>e. events_' \in Nat \ {0}
  OBVIOUS
<1>3. (events \in [Fds -> SUBSET {EP!P!ReadEvent, EP!P!WriteEvent}])'
  BY DEF Interests, EP!P!ReadEvent, EP!P!WriteEvent
<1>4. (index \in [Fds -> {EP!kNew, EP!kAdded, EP!kDeleted}])'
  BY DEF EP!kNew, EP!kAdded, EP!kDeleted
<1> QED
  BY <1>2, <1>3, <1>4, <1>e, Zenon DEF EP!TypeOK

(* Nothing is reported by a call that is not a poll. *)
LEMMA Forgotten ==
    ASSUME EPollInv, active' = EP!P!Nothing, UNCHANGED events_
    PROVE  EP!Cardinality(DOMAIN active') <= events_'
<1>1. DOMAIN active' = {}
  BY DEF EP!P!Nothing
<1> QED
  BY <1>1, EPollTypes, EPollCardinality, FS_EmptySet

(* updateChannel(): index_ chooses the operation that epoll_ctl accepts. *)
LEMMA EPollUpdate ==
    ASSUME EPollInv, NEW fd \in channels, NEW ev \in Interests,
           EP!UpdateChannel(fd, ev), silenced' = silenced
    PROVE  EPollInv'
<1>0. /\ channels \subseteq Fds /\ channels_ \subseteq channels /\ fd \in Fds
      /\ events \in [Fds -> Interests]
      /\ index \in [Fds -> {EP!kNew, EP!kAdded, EP!kDeleted}]
      /\ events_ \in Nat /\ events_ > 0
      /\ \A f \in Fds : events[f] # NotInList
      /\ ev # NotInList
  BY EPollTypes, PollerAssumption DEF Interests
<1>k. EP!kNew # EP!kAdded /\ EP!kNew # EP!kDeleted /\ EP!kAdded # EP!kDeleted
  BY DEF EP!kNew, EP!kAdded, EP!kDeleted
<1>1. /\ channels_ = {f \in channels : index[f] # EP!kNew}
      /\ \A f \in Fds : index[f] # EP!kAdded => events[f] = {}
      /\ \A f \in Fds \ channels : index[f] = EP!kNew
      /\ \A f \in Fds : interest[f] = IF f \in channels /\ index[f] = EP!kAdded
                                      THEN events[f] ELSE NotInList
  BY DEF EPollInv, IndexTells, EP!ListMatches
<1> DEFINE op == EP!Operation(fd, ev)
<1>2. /\ op = IF index[fd] # EP!kAdded THEN "ADD" ELSE IF ev = {} THEN "DEL" ELSE "MOD"
      /\ op = "DEL" => ev = {}
  BY <1>0, <1>1, <1>k DEF EP!Operation
<1>3. /\ events' = [events EXCEPT ![fd] = ev]
      /\ interest' = [interest EXCEPT ![fd] = IF op = "DEL" THEN NotInList ELSE ev]
      /\ index' = [index EXCEPT ![fd] = IF op = "DEL" THEN EP!kDeleted ELSE EP!kAdded]
      /\ channels_' = channels_ \cup {fd}
      /\ channels' = channels /\ events_' = events_
      /\ active' = EP!P!Nothing
  BY DEF EP!UpdateChannel, EP!Update, EP!P!Forget
<1>4. broken' = {}
  <2>1. broken' = EP!Failing(/\ ~EP!CtlFails(op, fd)
                             /\ index[fd] = EP!kNew <=> fd \notin channels_,
                             "updateChannel")
    BY DEF EP!UpdateChannel
  <2>2. ~EP!CtlFails(op, fd)
    BY <1>0, <1>1, <1>2 DEF EP!CtlFails
  <2>3. index[fd] = EP!kNew <=> fd \notin channels_
    BY <1>1
  <2> QED
    BY <2>1, <2>2, <2>3 DEF EP!Failing
<1> HIDE DEF op
<1>5. /\ events' \in [Fds -> Interests] /\ events'[fd] = ev
      /\ index' \in [Fds -> {EP!kNew, EP!kAdded, EP!kDeleted}]
      /\ index'[fd] = IF op = "DEL" THEN EP!kDeleted ELSE EP!kAdded
      /\ \A f \in Fds \ {fd} : index'[f] = index[f] /\ events'[f] = events[f]
  BY <1>0, <1>2, <1>3
<1>6. EP!TypeOK'
  <2>1. EP!Cardinality(DOMAIN active') <= events_'
    BY <1>3, Forgotten
  <2> QED
    BY <1>0, <1>3, <1>4, <1>5, <2>1, EPollTypeStep
<1>i. interest' \in [Fds -> Interests \cup {NotInList}]
  BY <1>3 DEF EPollInv
<1>7. EP!ListMatches'
  <2>1. ASSUME NEW f \in Fds
        PROVE  interest'[f] = IF f \in channels /\ index'[f] = EP!kAdded
                              THEN events'[f] ELSE NotInList
    <3>1. fd \in DOMAIN interest
      BY <1>0 DEF EPollInv
    <3>2. interest'[fd] = IF op = "DEL" THEN NotInList ELSE ev
      BY <1>2, <1>3, <3>1
    <3>3. f # fd => interest'[f] = interest[f]
      BY <1>3
    <3> QED
      BY <1>0, <1>1, <1>5, <1>k, <3>2, <3>3
  <2> QED
    BY <1>3, <2>1 DEF EP!ListMatches, EP!kAdded
<1>8. IndexTells'
  <2>1. channels_' = {f \in channels' : index'[f] # EP!kNew}
    BY <1>0, <1>1, <1>3, <1>5, <1>k
  <2>2. \A f \in Fds : index'[f] # EP!kAdded => events'[f] = {}
    BY <1>1, <1>2, <1>5, <1>k
  <2>3. \A f \in Fds \ channels' : index'[f] = EP!kNew
    BY <1>1, <1>3, <1>5
  <2> QED
    BY <2>1, <2>2, <2>3 DEF IndexTells, EP!kNew, EP!kAdded
<1> QED
  BY <1>4, <1>6, <1>7, <1>8, <1>i DEF EPollInv

LEMMA EPollNew ==
    ASSUME EPollInv, NEW fd \in Fds, EP!NewChannel(fd), silenced' = silenced
    PROVE  EPollInv' /\ events' = events
<1>0. /\ channels \subseteq Fds /\ channels_ \subseteq channels
      /\ events \in [Fds -> Interests]
      /\ index \in [Fds -> {EP!kNew, EP!kAdded, EP!kDeleted}]
      /\ events_ \in Nat /\ events_ > 0
  BY EPollTypes DEF EPollInv
<1>1. /\ fd \notin channels /\ channels' = channels \cup {fd}
      /\ events' = [events EXCEPT ![fd] = {}]
      /\ index' = [index EXCEPT ![fd] = EP!kNew]
      /\ active' = EP!P!Nothing /\ broken' = {}
      /\ UNCHANGED <<interest, channels_, events_>>
  BY DEF EP!NewChannel, EP!P!Forget
<1>2. index[fd] = EP!kNew /\ events[fd] = {}
  BY <1>1 DEF EPollInv, IndexTells, EP!kNew, EP!kAdded
<1>3. events' = events /\ index' = index
  BY <1>0, <1>1, <1>2
<1>4. EP!TypeOK'
  <2>1. EP!Cardinality(DOMAIN active') <= events_'
    BY <1>1, Forgotten
  <2> QED
    BY <1>0, <1>1, <1>3, <2>1, EPollTypeStep
<1>5. EP!ListMatches'
  BY <1>1, <1>2, <1>3 DEF EPollInv, EP!ListMatches, EP!kNew, EP!kAdded
<1>6. IndexTells'
  BY <1>0, <1>1, <1>2, <1>3 DEF EPollInv, IndexTells, EP!kNew, EP!kAdded
<1> QED
  BY <1>0, <1>1, <1>3, <1>4, <1>5, <1>6 DEF EPollInv

(* removeChannel() takes out of the kernel's list what is still there. *)
LEMMA EPollRemove ==
    ASSUME EPollInv, NEW fd \in Fds, EP!Remove(fd), silenced' = silenced
    PROVE  EPollInv'
<1>0. /\ channels \subseteq Fds /\ channels_ \subseteq channels
      /\ events \in [Fds -> Interests]
      /\ index \in [Fds -> {EP!kNew, EP!kAdded, EP!kDeleted}]
      /\ events_ \in Nat /\ events_ > 0
  BY EPollTypes DEF EPollInv
<1>1. /\ fd \in channels /\ events[fd] = {} /\ index[fd] # EP!kNew /\ fd \in channels_
  BY DEF EP!Remove, EPollInv, IndexTells
<1>i. /\ interest \in [Fds -> Interests \cup {NotInList}]
      /\ \A f \in Fds : interest[f] = IF f \in channels /\ index[f] = EP!kAdded
                                      THEN events[f] ELSE NotInList
      /\ events[fd] # NotInList
  BY EPollTypes DEF EPollInv, EP!ListMatches
<1>2. /\ channels' = channels \ {fd} /\ channels_' = channels_ \ {fd}
      /\ index' = [index EXCEPT ![fd] = EP!kNew]
      /\ active' = EP!P!Nothing
      /\ UNCHANGED <<events, events_>>
  BY DEF EP!Remove, EP!RemoveChannel, EP!P!Forget
<1>l. interest' = [interest EXCEPT ![fd] = NotInList]
  <2>1. IF index[fd] = EP!kAdded
        THEN interest' = [interest EXCEPT ![fd] = NotInList] ELSE interest' = interest
    BY DEF EP!Remove, EP!RemoveChannel, EP!Update
  <2> QED
    BY <1>i, <2>1
<1>3. broken' = {}
  <2>1. broken' = EP!Failing(/\ fd \in channels_ /\ index[fd] # EP!kNew
                             /\ index[fd] = EP!kAdded => ~EP!CtlFails("DEL", fd),
                             "removeChannel")
    BY DEF EP!Remove, EP!RemoveChannel
  <2>2. index[fd] = EP!kAdded => ~EP!CtlFails("DEL", fd)
    BY <1>1, <1>i DEF EP!CtlFails
  <2> QED
    BY <1>1, <2>1, <2>2 DEF EP!Failing
<1>4. /\ index' \in [Fds -> {EP!kNew, EP!kAdded, EP!kDeleted}]
      /\ index'[fd] = EP!kNew /\ \A f \in Fds \ {fd} : index'[f] = index[f]
  BY <1>0, <1>2
<1>5. EP!TypeOK'
  <2>1. EP!Cardinality(DOMAIN active') <= events_'
    BY <1>2, Forgotten
  <2> QED
    BY <1>0, <1>2, <1>3, <1>4, <2>1, EPollTypeStep
<1>6. EP!ListMatches' /\ interest' \in [Fds -> Interests \cup {NotInList}]
  BY <1>1, <1>2, <1>4, <1>i, <1>l DEF EP!ListMatches, EP!kNew, EP!kAdded
<1>7. IndexTells'
  <2>1. channels_' = {f \in channels' : index'[f] # EP!kNew}
    <3>1. channels_ = {f \in channels : index[f] # EP!kNew}
      BY DEF EPollInv, IndexTells
    <3> QED
      BY <1>0, <1>2, <1>4, <3>1
  <2>2. \A f \in Fds : index'[f] # EP!kAdded => events'[f] = {}
    BY <1>1, <1>2, <1>4 DEF EPollInv, IndexTells, EP!kNew, EP!kAdded
  <2>3. \A f \in Fds \ channels' : index'[f] = EP!kNew
    BY <1>2, <1>4 DEF EPollInv, IndexTells
  <2> QED
    BY <2>1, <2>2, <2>3 DEF IndexTells, EP!kNew, EP!kAdded
<1> QED
  BY <1>2, <1>3, <1>5, <1>6, <1>7 DEF EPollInv

(* EPollPoller heeds the interest of every channel. *)
LEMMA EPollHeeds == EPollInv => Heeded = events
  BY EPollTypes DEF EPollInv, Heeded

(* What epoll_wait finds is on channels of the map and interests them, and *)
(* every channel that is due is among it.                                  *)
LEMMA EPollReports ==
    ASSUME EPollInv, NEW c
    PROVE  /\ \A fd \in Fds : EP!Revents(fd, c) # {} =>
                 /\ fd \in channels_ /\ fd \in channels
                 /\ EP!Revents(fd, c) = H!Reports(fd, c)
           /\ \A fd \in channels : H!Due(fd, c) => EP!Revents(fd, c) # {}
<1>0. channels \subseteq Fds /\ channels_ \subseteq channels /\ Heeded = events
      /\ \A fd \in Fds : events[fd] # NotInList
  BY EPollTypes, EPollHeeds
<1>1. \A fd \in Fds : /\ interest[fd] = IF fd \in channels /\ index[fd] = EP!kAdded
                                        THEN events[fd] ELSE NotInList
                      /\ index[fd] # EP!kAdded => events[fd] = {}
  BY DEF EPollInv, EP!ListMatches, IndexTells
<1>2. ASSUME NEW fd \in channels, index[fd] = EP!kAdded
      PROVE  EP!Revents(fd, c) = H!Reports(fd, c)
  BY <1>0, <1>1, <1>2 DEF EP!Revents, H!Reports, EP!P!Unasked, H!Unasked
<1>3. \A fd \in Fds : EP!Revents(fd, c) # {} => fd \in channels /\ index[fd] = EP!kAdded
  BY <1>1 DEF EP!Revents
<1>4. \A fd \in channels : index[fd] = EP!kAdded => fd \in channels_
  BY DEF EPollInv, IndexTells, EP!kNew, EP!kAdded
<1>5. ASSUME NEW fd \in channels, H!Due(fd, c) PROVE EP!Revents(fd, c) # {}
  <2>1. index[fd] = EP!kAdded /\ H!Reports(fd, c) # {}
    BY <1>0, <1>1, <1>5 DEF H!Due
  <2> QED
    BY <1>2, <2>1
<1> QED
  BY <1>0, <1>2, <1>3, <1>4, <1>5

(* poll() fills its buffer at most, and reports something if it can. *)
LEMMA EPollPolls ==
    ASSUME EPollInv, EP!Poll, silenced' = silenced
    PROVE  /\ EPollInv'
           /\ \E S \in SUBSET {fd \in channels : H!Reports(fd, cond') # {}} :
                 /\ (\E fd \in channels : H!Due(fd, cond')) => S # {}
                 /\ active' = [fd \in S |-> H!Reports(fd, cond')]
<1> DEFINE reportable == {fd \in Fds : EP!Revents(fd, cond') # {}}
<1>0. /\ channels \subseteq Fds /\ channels_ \subseteq channels
      /\ events \in [Fds -> Interests]
      /\ index \in [Fds -> {EP!kNew, EP!kAdded, EP!kDeleted}]
      /\ events_ \in Nat /\ events_ > 0
  BY EPollTypes DEF EPollInv
<1>1. PICK S \in SUBSET reportable :
        /\ EP!Cardinality(S) = IF EP!Cardinality(reportable) < events_
                               THEN EP!Cardinality(reportable) ELSE events_
        /\ active' = [fd \in S |-> EP!Revents(fd, cond')]
        /\ events_' = EP!Grow(EP!Cardinality(S))
        /\ broken' = EP!Failing(S \subseteq channels_, "fillActiveChannels")
  BY DEF EP!Poll
<1>2. UNCHANGED <<channels, events, index, interest, channels_>>
  BY DEF EP!Poll
<1>3. /\ S \subseteq {fd \in channels : H!Reports(fd, cond') # {}}
      /\ S \subseteq channels_
      /\ \A fd \in S : EP!Revents(fd, cond') = H!Reports(fd, cond')
      /\ (\E fd \in channels : H!Due(fd, cond')) => reportable # {}
  BY <1>0, <1>1, EPollReports
<1>4. IsFiniteSet(reportable) /\ IsFiniteSet(S) /\ Cardinality(S) \in Nat
      /\ Cardinality(reportable) \in Nat
  BY <1>1, FdCount
<1> HIDE DEF reportable
<1>5. Cardinality(S) = IF Cardinality(reportable) < events_ THEN Cardinality(reportable) ELSE events_
  BY <1>1, EPollCardinality
<1>6. reportable # {} => S # {}
  <2> SUFFICES ASSUME S = {} PROVE reportable = {}
    OBVIOUS
  <2>1. Cardinality(S) = 0
    BY FS_EmptySet
  <2>2. Cardinality(reportable) = 0
    BY <1>0, <1>4, <1>5, <2>1
  <2> QED
    BY <1>4, <2>2, FS_EmptySet
<1>7. EPollInv'
  <2>1. events_' \in Nat /\ events_' > 0 /\ events_' >= events_
    BY <1>0, <1>1 DEF EP!Grow
  <2>2. EP!Cardinality(DOMAIN active') <= events_'
    <3>1. DOMAIN active' = S
      BY <1>1
    <3> QED
      BY <1>0, <1>4, <1>5, <2>1, <3>1, EPollCardinality
  <2>3. broken' = {}
    BY <1>1, <1>3 DEF EP!Failing
  <2>4. EP!TypeOK'
    BY <1>0, <1>2, <2>1, <2>2, EPollTypeStep
  <2>5. EP!ListMatches' /\ IndexTells'
    BY <1>2 DEF EPollInv, EP!ListMatches, IndexTells, EP!kNew, EP!kAdded
  <2> QED
    BY <1>2, <2>3, <2>4, <2>5 DEF EPollInv
<1>8. active' = [fd \in S |-> H!Reports(fd, cond')]
  BY <1>1, <1>3
<1> QED
  BY <1>1, <1>3, <1>6, <1>7, <1>8

(* Every call of a channel, and every poll, keeps index_ and the kernel's  *)
(* list together.                                                          *)
LEMMA EPollStep ==
    ASSUME EPollInv, EP!Next, silenced' = silenced
    PROVE  EPollInv'
<1>0. events \in [Fds -> Interests]
  BY EPollTypes
<1>1. ASSUME NEW fd \in Fds, \/ EP!EnableReading(fd) \/ EP!EnableWriting(fd)
                             \/ EP!DisableWriting(fd) \/ EP!DisableAll(fd)
      PROVE  EPollInv'
  <2>1. /\ events[fd] \cup {EP!P!ReadEvent} \in Interests
        /\ events[fd] \cup {EP!P!WriteEvent} \in Interests
        /\ events[fd] \cap {EP!P!WriteEvent} \in Interests
        /\ {} \in Interests
    BY <1>0 DEF Interests, EP!P!ReadEvent, EP!P!WriteEvent
  <2>2. PICK ev \in Interests : fd \in channels /\ EP!UpdateChannel(fd, ev)
    BY <1>1, <2>1 DEF EP!EnableReading, EP!EnableWriting, EP!DisableWriting, EP!DisableAll
  <2> QED
    BY <2>2, EPollUpdate
<1>2. CASE EP!PollFails
  <2>1. /\ UNCHANGED <<channels, events, index, interest, channels_, events_>>
        /\ active' = EP!P!Nothing /\ broken' = {}
    BY <1>2 DEF EP!PollFails, EP!P!PollFails
  <2>2. EP!TypeOK'
    <3>1. EP!Cardinality(DOMAIN active') <= events_'
      BY <2>1, Forgotten
    <3> QED
      BY <2>1, <3>1, EPollTypes, EPollTypeStep
  <2>3. EP!ListMatches' /\ IndexTells'
    BY <2>1 DEF EPollInv, EP!ListMatches, IndexTells, EP!kNew, EP!kAdded
  <2> QED
    BY <2>1, <2>2, <2>3 DEF EPollInv
<1> QED
  BY <1>1, <1>2, EPollNew, EPollRemove, EPollPolls DEF EP!Next

-----------------------------------------------------------------------------
(* The choice of newDefaultPoller, and the theorems. *)

LEMMA PollerStart == PollerInit => PollerInv
<1> SUFFICES ASSUME PollerInit PROVE PollerInv
  OBVIOUS
<1>0. /\ usePoll \in BOOLEAN
      /\ channels = {} /\ channels_ = {} /\ pollfds_ = <<>> /\ broken = {} /\ silenced = {}
      /\ events = [fd \in Fds |-> {}]
      /\ index = [fd \in Fds |-> -1]
      /\ interest = [fd \in Fds |-> NotInList]
      /\ events_ = kInitEventListSize
      /\ active = EP!P!Nothing
  BY DEF PollerInit, PP!Init, EP!Init
<1>1. PollInv
  <2>1. PP!Cardinality({}) = 0
    BY PollCardinality, FS_EmptySet
  <2>2. pollfds_ \in Seq(Entry) /\ Len(pollfds_) = 0
    BY <1>0, EmptySeq
  <2>3. channels \subseteq Fds /\ channels_ \subseteq channels /\ silenced \subseteq channels_
    BY <1>0, Zenon
  <2>4. PP!TypeOK
    BY <1>0, <2>2, <2>3 DEF PP!TypeOK
  <2>5. PP!EntriesMatch
    BY <1>0, <2>1, <2>2 DEF PP!EntriesMatch
  <2>6. EntriesOwned /\ OthersQuiet
    BY <1>0, <2>2 DEF EntriesOwned, OthersQuiet
  <2> QED
    BY <1>0, <2>2, <2>4, <2>5, <2>6 DEF PollInv, PP!AssertionsHold
<1>2. EPollInv
  <2>1. EP!Cardinality(DOMAIN active) = 0
    <3>1. DOMAIN active = {}
      BY <1>0 DEF EP!P!Nothing
    <3> QED
      BY <3>1, EPollCardinality, FS_EmptySet
  <2>2. events_ \in Nat \ {0} /\ EP!Cardinality(DOMAIN active) <= events_
    BY <1>0, <2>1, PollerAssumption
  <2>3. channels \subseteq Fds /\ channels_ \subseteq channels
    BY <1>0, Zenon
  <2>4. EP!TypeOK
    BY <1>0, <2>2, <2>3 DEF EP!TypeOK, EP!kNew
  <2>5. EP!ListMatches /\ IndexTells
    BY <1>0 DEF EP!ListMatches, IndexTells, EP!kNew, EP!kAdded
  <2> QED
    BY <1>0, <2>4, <2>5 DEF EPollInv
<1> QED
  BY <1>0, <1>1, <1>2 DEF PollerInv

LEMMA PollerInvariant == PollerSpec => []PollerInv
<1>1. PollerInv /\ [PollerNext]_pollerVars => PollerInv'
  <2> SUFFICES ASSUME PollerInv, [PollerNext]_pollerVars PROVE PollerInv'
    OBVIOUS
  <2>1. CASE NextPoll
    <3>1. usePoll = TRUE /\ usePoll' = TRUE /\ PollInv'
      BY <2>1, PollStep DEF NextPoll, PollerInv
    <3> QED
      BY <3>1 DEF PollerInv
  <2>2. CASE NextEPoll
    <3>1. usePoll = FALSE /\ usePoll' = FALSE /\ EPollInv'
      BY <2>2, EPollStep DEF NextEPoll, PollerInv
    <3> QED
      BY <3>1 DEF PollerInv
  <2>3. CASE UNCHANGED pollerVars
    <3>1. UNCHANGED <<usePoll, channels, events, index, channels_, broken, cond, active,
                      pollfds_, silenced, interest, events_>>
      BY <2>3 DEF pollerVars, shared
    <3>2. PP!Cardinality(channels_)' = PP!Cardinality(channels_)
          /\ EP!Cardinality(DOMAIN active)' = EP!Cardinality(DOMAIN active)
      BY <3>1 DEF PP!Cardinality, EP!Cardinality
    <3>3. PollInv => PollInv'
      BY <3>1, <3>2 DEF PollInv, PP!TypeOK, PP!EntriesMatch, EntriesOwned, OthersQuiet,
                        PP!AssertionsHold, PP!ChannelAt, PP!Ignored, PP!P!ReadEvent,
                        PP!P!WriteEvent
    <3>4. EPollInv => EPollInv'
      BY <3>1, <3>2 DEF EPollInv, EP!TypeOK, EP!ListMatches, IndexTells,
                        EP!kNew, EP!kAdded, EP!kDeleted, EP!P!ReadEvent, EP!P!WriteEvent
    <3> QED
      BY <3>1, <3>3, <3>4 DEF PollerInv
  <2> QED
    BY <2>1, <2>2, <2>3 DEF PollerNext
<1> QED
  BY PollerStart, <1>1, PTL DEF PollerSpec

(***************************************************************************)
(* For any finite set of descriptors and any size of the first buffer: the *)
(* structures of the poller in use agree with index_ and events_ of every  *)
(* channel after any sequence of enable, disable, remove and poll calls,   *)
(* failing polls and the swap with the last entry of                       *)
(* PollPoller::removeChannel included; the entries PollPoller ignores are  *)
(* those of the channels that were disabled after they were registered,    *)
(* even if they were enabled again; and no assertion of either poller, nor *)
(* any epoll_ctl, has failed but PollPoller.cpp:118.                       *)
(***************************************************************************)
THEOREM StructuresAgree == PollerSpec => []StructuresMatch
<1>1. PollerInv => StructuresMatch
  <2> SUFFICES ASSUME PollerInv PROVE StructuresMatch
    OBVIOUS
  <2>1. CASE usePoll
    BY <2>1 DEF PollerInv, PollInv, StructuresMatch, PollerTypeOK, EntriesMatch, ListMatches,
                AssertionsHold
  <2>2. CASE ~usePoll
    BY <2>2 DEF PollerInv, EPollInv, StructuresMatch, PollerTypeOK, EntriesMatch, ListMatches,
                AssertionsHold, EP!AssertionsHold
  <2> QED
    BY <2>1, <2>2
<1> QED
  BY PollerInvariant, <1>1, PTL

(* What Poller forgets is the same whatever interest it is given. *)
LEMMA ForgetsAlike ==
    /\ (PP!P!Forget => H!Forget) /\ (EP!P!Forget => H!Forget)
    /\ PP!P!Situations = H!Situations /\ EP!P!Situations = H!Situations
    /\ PP!P!Nothing = H!Nothing /\ EP!P!Nothing = H!Nothing
    /\ PP!P!NoConditions = H!NoConditions /\ EP!P!NoConditions = H!NoConditions
    /\ {H!ReadEvent, H!WriteEvent} = {"read", "write"}
  BY DEF PP!P!Forget, EP!P!Forget, H!Forget,
         PP!P!Situations, EP!P!Situations, H!Situations, PP!P!Conditions, EP!P!Conditions,
         H!Conditions, PP!P!Unasked, EP!P!Unasked, H!Unasked,
         PP!P!ReadEvent, EP!P!ReadEvent, H!ReadEvent, PP!P!WriteEvent, EP!P!WriteEvent,
         H!WriteEvent, PP!P!Nothing, EP!P!Nothing, H!Nothing, PP!P!NoConditions,
         EP!P!NoConditions, H!NoConditions

(* A step of PollPoller is a step of Poller with the interest it heeds. *)
LEMMA PollRefines == PollInv /\ PP!Next => H!Next
<1> SUFFICES ASSUME PollInv, PP!Next PROVE H!Next
  OBVIOUS
<1>0. /\ channels \subseteq Fds /\ channels_ \subseteq channels /\ silenced \subseteq channels_
      /\ events \in [Fds -> Interests] /\ index \in [Fds -> Int]
      /\ channels_ = {fd \in channels : index[fd] >= 0}
  BY DEF PollInv, PP!TypeOK, PP!EntriesMatch, Interests, PP!P!ReadEvent, PP!P!WriteEvent
<1>i. H!Next <=> \/ \E fd \in Fds : \/ H!New(fd) \/ H!Remove(fd)
                                   \/ \E ev \in Interests : H!Update(fd, ev)
                 \/ H!Poll
                 \/ H!PollFails
  BY ForgetsAlike DEF H!Next, Interests
<1>1. ASSUME NEW fd \in Fds, PP!NewChannel(fd) PROVE H!New(fd)
  <2>1. events[fd] = {} /\ fd \notin silenced
    BY <1>0, <1>1 DEF PollInv, OthersQuiet, PP!NewChannel
  <2>2. /\ events' = [events EXCEPT ![fd] = {}] /\ silenced' = silenced
        /\ fd \notin channels /\ channels' = channels \cup {fd} /\ PP!P!Forget
    BY <1>1 DEF PP!NewChannel
  <2>3. events' = events
    BY <1>0, <2>1, <2>2
  <2>4. Heeded' = Heeded
    BY <2>2, <2>3 DEF Heeded
  <2> QED
    BY <2>2, <2>4, ForgetsAlike DEF H!New
<1>2. ASSUME NEW fd \in Fds, fd \in channels, NEW ev \in Interests, PP!UpdateChannel(fd, ev)
      PROVE  \E e \in Interests : H!Update(fd, e)
  <2>1. /\ events' = [events EXCEPT ![fd] = ev] /\ channels' = channels /\ PP!P!Forget
        /\ IF index[fd] < 0 THEN silenced' = silenced
           ELSE silenced' = IF ev = {} THEN silenced \cup {fd} ELSE silenced
    BY <1>2 DEF PP!UpdateChannel
  <2>2. index[fd] < 0 => fd \notin silenced
    BY <1>0
  <2> DEFINE e == IF fd \in silenced' THEN {} ELSE ev
  <2>3. e \in Interests
    BY DEF Interests
  <2>4. \A f \in Fds : Heeded'[f] = IF f = fd THEN e ELSE Heeded[f]
    BY <1>0, <2>1 DEF Heeded
  <2>5. Heeded' = [Heeded EXCEPT ![fd] = e]
    <3> HIDE DEF e
    <3> QED
      BY <2>4 DEF Heeded
  <2>6. H!Update(fd, e)
    BY <1>2, <2>1, <2>5, ForgetsAlike DEF H!Update
  <2> QED
    BY <2>3, <2>6
<1>3. ASSUME NEW fd \in Fds, \/ PP!EnableReading(fd) \/ PP!EnableWriting(fd)
                             \/ PP!DisableWriting(fd) \/ PP!DisableAll(fd)
      PROVE  \E e \in Interests : H!Update(fd, e)
  <2>1. /\ events[fd] \cup {PP!P!ReadEvent} \in Interests
        /\ events[fd] \cup {PP!P!WriteEvent} \in Interests
        /\ events[fd] \cap {PP!P!WriteEvent} \in Interests
        /\ {} \in Interests
    BY <1>0 DEF Interests, PP!P!ReadEvent, PP!P!WriteEvent
  <2>2. PICK ev \in Interests : fd \in channels /\ PP!UpdateChannel(fd, ev)
    BY <1>3, <2>1 DEF PP!EnableReading, PP!EnableWriting, PP!DisableWriting, PP!DisableAll
  <2> QED
    BY <1>2, <2>2
<1>4. ASSUME NEW fd \in Fds, PP!Remove(fd) PROVE H!Remove(fd)
  <2>1. /\ fd \in channels /\ events[fd] = {} /\ channels' = channels \ {fd}
        /\ silenced' = silenced \ {fd} /\ events' = events /\ PP!P!Forget
    BY <1>4 DEF PP!Remove, PP!RemoveChannel
  <2>2. Heeded' = Heeded /\ Heeded[fd] = {}
    BY <2>1 DEF Heeded
  <2> QED
    BY <2>1, <2>2, ForgetsAlike DEF H!Remove
<1>5. CASE PP!Poll
  <2> DEFINE hit == PP!Hit(cond')
             S == {pollfds_[i].fd : i \in hit}
             R(i) == PP!Revents(pollfds_[i], cond')
  <2>1. /\ cond' \in [Fds -> PP!P!Situations] /\ failed' = FALSE
        /\ active' = [fd \in S |-> R(CHOOSE i \in hit : pollfds_[i].fd = fd)]
        /\ UNCHANGED <<channels, events, silenced>>
    BY <1>5 DEF PP!Poll
  <2>2. /\ \A i \in hit : /\ pollfds_[i].fd \in channels_
                          /\ R(i) = H!Reports(pollfds_[i].fd, cond')
        /\ \A fd \in channels : H!Due(fd, cond') => \E i \in hit : pollfds_[i].fd = fd
    BY <2>1, PollReports
  <2>3. \A i \in hit : R(i) # {}
    BY DEF PP!Hit
  <2> HIDE DEF hit, R
  <2>4. S \in SUBSET {fd \in channels : H!Reports(fd, cond') # {}}
    BY <1>0, <2>2, <2>3
  <2>5. ASSUME NEW fd \in S
        PROVE  R(CHOOSE i \in hit : pollfds_[i].fd = fd) = H!Reports(fd, cond')
    <3> DEFINE k == CHOOSE i \in hit : pollfds_[i].fd = fd
    <3>1. \E i \in hit : pollfds_[i].fd = fd
      BY <2>5
    <3>2. k \in hit /\ pollfds_[k].fd = fd
      BY <3>1
    <3> HIDE DEF k
    <3>3. R(k) = H!Reports(fd, cond')
      BY <2>2, <3>2
    <3> QED
      BY <3>3 DEF k
  <2>6. active' = [fd \in S |-> H!Reports(fd, cond')]
    <3> HIDE DEF S
    <3> QED
      BY <2>1, <2>5
  <2>7. (\E fd \in channels : H!Due(fd, cond')) => S # {}
    BY <2>2
  <2>8. Heeded' = Heeded
    BY <2>1 DEF Heeded
  <2> HIDE DEF S
  <2>9. H!Poll
    BY <2>1, <2>4, <2>6, <2>7, <2>8, ForgetsAlike DEF H!Poll
  <2> QED
    BY <1>i, <2>9
<1>6. CASE PP!PollFails
  <2>1. /\ cond' = PP!P!NoConditions /\ active' = PP!P!Nothing /\ failed' = TRUE
        /\ UNCHANGED <<channels, events, silenced>>
    BY <1>6 DEF PP!PollFails, PP!P!PollFails
  <2>2. Heeded' = Heeded
    BY <2>1 DEF Heeded
  <2> QED
    BY <1>i, <2>1, <2>2, ForgetsAlike DEF H!PollFails
<1> QED
  BY <1>1, <1>3, <1>4, <1>5, <1>6, <1>i DEF PP!Next

(* A step of EPollPoller, which heeds every interest, is a step of Poller. *)
LEMMA EPollRefines ==
    ASSUME EPollInv, EP!Next, silenced' = silenced
    PROVE  H!Next
<1>0. channels \subseteq Fds /\ events \in [Fds -> Interests]
  BY EPollTypes
<1>h. EPollInv'
  BY EPollStep
<1>s. Heeded = events /\ Heeded' = events'
  BY <1>h, EPollHeeds DEF EPollInv, EP!TypeOK, Heeded, EP!P!ReadEvent, EP!P!WriteEvent
<1>i. H!Next <=> \/ \E fd \in Fds : \/ H!New(fd) \/ H!Remove(fd)
                                   \/ \E ev \in Interests : H!Update(fd, ev)
                 \/ H!Poll
                 \/ H!PollFails
  BY ForgetsAlike DEF H!Next, Interests
<1>1. ASSUME NEW fd \in Fds, EP!NewChannel(fd) PROVE H!New(fd)
  <2>1. events' = events
    BY <1>1, EPollNew
  <2> QED
    BY <1>1, <1>s, <2>1, ForgetsAlike DEF EP!NewChannel, H!New
<1>2. ASSUME NEW fd \in Fds, fd \in channels, NEW ev \in Interests, EP!UpdateChannel(fd, ev)
      PROVE  H!Update(fd, ev)
  BY <1>2, <1>s, ForgetsAlike DEF EP!UpdateChannel, H!Update
<1>3. ASSUME NEW fd \in Fds, \/ EP!EnableReading(fd) \/ EP!EnableWriting(fd)
                             \/ EP!DisableWriting(fd) \/ EP!DisableAll(fd)
      PROVE  \E ev \in Interests : H!Update(fd, ev)
  <2>1. /\ events[fd] \cup {EP!P!ReadEvent} \in Interests
        /\ events[fd] \cup {EP!P!WriteEvent} \in Interests
        /\ events[fd] \cap {EP!P!WriteEvent} \in Interests
        /\ {} \in Interests
    BY <1>0 DEF Interests, EP!P!ReadEvent, EP!P!WriteEvent
  <2>2. PICK ev \in Interests : fd \in channels /\ EP!UpdateChannel(fd, ev)
    BY <1>3, <2>1 DEF EP!EnableReading, EP!EnableWriting, EP!DisableWriting, EP!DisableAll
  <2> QED
    BY <1>2, <2>2
<1>4. ASSUME NEW fd \in Fds, EP!Remove(fd) PROVE H!Remove(fd)
  BY <1>4, <1>s, ForgetsAlike DEF EP!Remove, EP!RemoveChannel, H!Remove
<1>5. CASE EP!Poll
  <2>1. /\ cond' \in [Fds -> EP!P!Situations] /\ failed' = FALSE
        /\ UNCHANGED <<channels, events>>
    BY <1>5 DEF EP!Poll
  <2>2. \E S \in SUBSET {fd \in channels : H!Reports(fd, cond') # {}} :
          /\ (\E fd \in channels : H!Due(fd, cond')) => S # {}
          /\ active' = [fd \in S |-> H!Reports(fd, cond')]
    BY <1>5, EPollPolls
  <2>3. H!Poll
    BY <1>s, <2>1, <2>2, ForgetsAlike DEF H!Poll
  <2> QED
    BY <1>i, <2>3
<1>6. CASE EP!PollFails
  <2>1. /\ cond' = EP!P!NoConditions /\ active' = EP!P!Nothing /\ failed' = TRUE
        /\ UNCHANGED <<channels, events>>
    BY <1>6 DEF EP!PollFails, EP!P!PollFails
  <2> QED
    BY <1>i, <1>s, <2>1, ForgetsAlike DEF H!PollFails
<1> QED
  BY <1>1, <1>3, <1>4, <1>5, <1>6, <1>i DEF EP!Next

(***************************************************************************)
(* Whichever poller newDefaultPoller chooses, after any sequence of calls  *)
(* it does what Poller promises for the interest it heeds: a poll reports  *)
(* channels with events that interest them, with those events, and unless  *)
(* it fails none only if there are none.  EPollPoller heeds every channel; *)
(* its buffer, which never has size zero, may cut the answer short but     *)
(* never empties it.  PollPoller heeds those that were not disabled since  *)
(* they were registered: PollPoller.cpp:98-104 restores no descriptor.     *)
(***************************************************************************)
THEOREM PollersKeepPromise == PollerSpec => PollsAsPromised
<1>1. PollerInit => H!Init
  <2> SUFFICES ASSUME PollerInit PROVE H!Init
    OBVIOUS
  <2>1. /\ channels = {} /\ events = [fd \in Fds |-> {}] /\ cond = PP!P!NoConditions
        /\ active = PP!P!Nothing /\ failed = FALSE /\ silenced = {}
    BY DEF PollerInit, PP!Init
  <2>2. Heeded = [fd \in Fds |-> {}]
    BY <2>1 DEF Heeded
  <2> QED
    BY <2>1, <2>2, ForgetsAlike DEF H!Init
<1>2. PollerInv /\ [PollerNext]_pollerVars => [H!Next]_(H!vars)
  <2> SUFFICES ASSUME PollerInv, [PollerNext]_pollerVars PROVE [H!Next]_(H!vars)
    OBVIOUS
  <2>1. CASE NextPoll
    BY <2>1, PollRefines DEF NextPoll, PollerInv
  <2>2. CASE NextEPoll
    BY <2>2, EPollRefines DEF NextEPoll, PollerInv
  <2>3. CASE UNCHANGED pollerVars
    BY <2>3 DEF pollerVars, shared, H!vars, Heeded
  <2> QED
    BY <2>1, <2>2, <2>3 DEF PollerNext
<1> QED
  BY PollerInvariant, <1>1, <1>2, PTL DEF PollerSpec, PollsAsPromised, H!Spec

-----------------------------------------------------------------------------
(* EventLoop. *)

USE ConstantsAssumption DEF ConstantsAssumption

-----------------------------------------------------------------------------
(* Type correctness. *)

LEMMA InitType == Init => TypeOK
<1> SUFFICES ASSUME Init PROVE TypeOK
    OBVIOUS
<1>1. wakeups \in 0..MaxWakeups
    BY DEF Init
<1>2. tpc \in [Threads -> {"idle", "wakeup"}]
    BY DEF Init
<1>3. <<>> \in Seq(Functors)
    OBVIOUS
<1>4. /\ looping_ \in BOOLEAN
      /\ quit_ \in BOOLEAN
      /\ eventHandling_ \in BOOLEAN
      /\ callingPendingFunctors_ \in BOOLEAN
    BY DEF Init
<1> QED
    BY <1>1, <1>2, <1>3, <1>4 DEF Init, TypeOK, AllChannels

LEMMA NextType == TypeOK /\ [Next]_vars => TypeOK'
<1> SUFFICES ASSUME TypeOK, [Next]_vars PROVE TypeOK'
    OBVIOUS
<1> USE DEF TypeOK, loopVars, functorVars, channelVars, AllChannels
<1>1. CASE Loop
    BY <1>1 DEF Loop
<1>2. CASE While
    BY <1>2 DEF While
<1>3. CASE PollReturns
    BY <1>3 DEF PollReturns, Pollable
<1>4. CASE PollTimeout
    BY <1>4 DEF PollTimeout
<1>5. ASSUME NEW c \in AllChannels, HandleEvent(c) PROVE TypeOK'
    BY <1>5 DEF HandleEvent
<1>6. CASE EventReturns
    BY <1>6 DEF EventReturns
<1>7. CASE EndDispatch
    BY <1>7 DEF EndDispatch
<1>8. CASE SwapFunctors
    BY <1>8 DEF SwapFunctors
<1>9. CASE RunFunctor
    BY <1>9 DEF RunFunctor
<1>10. CASE FunctorReturns
    BY <1>10 DEF FunctorReturns
<1>11. CASE EndFunctors
    BY <1>11 DEF EndFunctors
<1>12. ASSUME NEW f \in Functors, CallbackQueues(f) PROVE TypeOK'
    BY <1>12 DEF CallbackQueues, QueueInLoop, Wakeup
<1>13. ASSUME NEW f \in Functors, RunInLoop(f) PROVE TypeOK'
    BY <1>13 DEF RunInLoop
<1>14. CASE CallbackQuits
    BY <1>14 DEF CallbackQuits
<1>15. ASSUME NEW c \in Channels, UpdateChannel(c) PROVE TypeOK'
    BY <1>15 DEF UpdateChannel
<1>16. ASSUME NEW c \in Channels, RemoveChannel(c) PROVE TypeOK'
    BY <1>16 DEF RemoveChannel
<1>17. ASSUME NEW t \in Threads, NEW f \in Functors, ThreadQueues(t, f)
       PROVE  TypeOK'
    BY <1>17 DEF ThreadQueues
<1>18. ASSUME NEW t \in Threads, ThreadQuits(t) PROVE TypeOK'
    BY <1>18 DEF ThreadQuits
<1>19. ASSUME NEW t \in Threads, ThreadWakes(t) PROVE TypeOK'
    BY <1>19 DEF ThreadWakes, Wakeup
<1>20. ASSUME NEW c \in Channels, ChannelReady(c) PROVE TypeOK'
    BY <1>20 DEF ChannelReady
<1>21. CASE UNCHANGED vars
    BY <1>21 DEF vars
<1> QED
    BY <1>1, <1>2, <1>3, <1>4, <1>5, <1>6, <1>7, <1>8, <1>9, <1>10, <1>11,
       <1>12, <1>13, <1>14, <1>15, <1>16, <1>17, <1>18, <1>19, <1>20, <1>21
       DEF Next, LoopStep, ClientStep

(* Every variable of EventLoop keeps its type; in particular the eventfd   *)
(* counter never exceeds its maximum, however many calls of wakeup() the   *)
(* loop has not yet read.                                                  *)
THEOREM TypeCorrect == Spec => []TypeOK
BY InitType, NextType, PTL DEF Spec

-----------------------------------------------------------------------------
(* The inductive invariant. *)

LEMMA InitInv == Init => LoopInv
<1> SUFFICES ASSUME Init PROVE LoopInv
    OBVIOUS
<1>1. TypeOK
    BY InitType
<1>2. FlagsMatchPc
    BY DEF Init, FlagsMatchPc
<1>3. PendingAnnounced
    BY DEF Init, PendingAnnounced
<1>4. NoLostQuit
    BY DEF Init, NoLostQuit
<1>5. NoStaleDispatch
    BY DEF Init, NoStaleDispatch
<1> QED
    BY <1>1, <1>2, <1>3, <1>4, <1>5 DEF LoopInv

LEMMA NextInv == LoopInv /\ [Next]_vars => LoopInv'
<1> SUFFICES ASSUME LoopInv, [Next]_vars PROVE LoopInv'
    OBVIOUS
<1> DEFINE Rest == FlagsMatchPc /\ PendingAnnounced /\ NoLostQuit /\ NoStaleDispatch
<1>0. TypeOK /\ TypeOK' /\ Rest
    BY NextType DEF LoopInv
<1> USE <1>0 DEF TypeOK, FlagsMatchPc, PendingAnnounced, NoLostQuit, NoStaleDispatch,
        WakeupComing, loopVars, functorVars, channelVars, AllChannels
<1>1. ASSUME Loop PROVE Rest'
    BY <1>1 DEF Loop
<1>2. ASSUME While PROVE Rest'
    BY <1>2 DEF While
<1>3. ASSUME PollReturns PROVE Rest'
    BY <1>3 DEF PollReturns, Pollable
<1>4. ASSUME PollTimeout PROVE Rest'
    BY <1>4 DEF PollTimeout
<1>5. ASSUME NEW c \in AllChannels, HandleEvent(c) PROVE Rest'
    BY <1>5 DEF HandleEvent
<1>6. ASSUME EventReturns PROVE Rest'
    BY <1>6 DEF EventReturns
<1>7. ASSUME EndDispatch PROVE Rest'
    BY <1>7 DEF EndDispatch
<1>8. ASSUME SwapFunctors PROVE Rest'
    BY <1>8 DEF SwapFunctors
<1>9. ASSUME RunFunctor PROVE Rest'
    BY <1>9 DEF RunFunctor
<1>10. ASSUME FunctorReturns PROVE Rest'
    BY <1>10 DEF FunctorReturns
<1>11. ASSUME EndFunctors PROVE Rest'
    BY <1>11 DEF EndFunctors
<1>12. ASSUME NEW f \in Functors, CallbackQueues(f) PROVE Rest'
    BY <1>12 DEF CallbackQueues, QueueInLoop, InCallback, Wakeup
<1>13. ASSUME NEW f \in Functors, RunInLoop(f) PROVE Rest'
    BY <1>13 DEF RunInLoop, InCallback
<1>14. ASSUME CallbackQuits PROVE Rest'
    BY <1>14 DEF CallbackQuits, InCallback
<1>15. ASSUME NEW c \in Channels, UpdateChannel(c) PROVE Rest'
    BY <1>15 DEF UpdateChannel, InCallback
<1>16. ASSUME NEW c \in Channels, RemoveChannel(c) PROVE Rest'
    BY <1>16 DEF RemoveChannel, InCallback, RemoveAssertion
<1>17. ASSUME NEW t \in Threads, NEW f \in Functors, ThreadQueues(t, f) PROVE Rest'
    BY <1>17 DEF ThreadQueues
<1>18. ASSUME NEW t \in Threads, ThreadQuits(t) PROVE Rest'
    BY <1>18 DEF ThreadQuits
<1>19. ASSUME NEW t \in Threads, ThreadWakes(t) PROVE Rest'
    BY <1>19 DEF ThreadWakes, Wakeup
<1>20. ASSUME NEW c \in Channels, ChannelReady(c) PROVE Rest'
    BY <1>20 DEF ChannelReady
<1>21. ASSUME UNCHANGED vars PROVE Rest'
    BY <1>21 DEF vars
<1>22. Rest'
    BY <1>1, <1>2, <1>3, <1>4, <1>5, <1>6, <1>7, <1>8, <1>9, <1>10, <1>11,
       <1>12, <1>13, <1>14, <1>15, <1>16, <1>17, <1>18, <1>19, <1>20, <1>21
       DEF Next, LoopStep, ClientStep
<1> QED
    BY <1>0, <1>22 DEF LoopInv

(* The inductive invariant holds in every reachable state. *)
LEMMA Invariance == Spec => []LoopInv
BY InitInv, NextInv, PTL DEF Spec

(* For any number of threads and functors the loop never sleeps in poll()  *)
(* on a queue that nobody is about to announce: queueInLoop is right to    *)
(* skip wakeup() in event callbacks.                                       *)
THEOREM NeverSleepsOnFunctors == Spec => []NoLostWakeup
<1>1. LoopInv => NoLostWakeup
    BY DEF LoopInv, PendingAnnounced, NoLostWakeup
<1> QED
    BY <1>1, Invariance, PTL

(* For any number of threads the loop never sleeps in poll() on a quit()   *)
(* made since loop() began.                                                *)
THEOREM NeverSleepsOnQuit == Spec => []NoLostQuit
<1>1. LoopInv => NoLostQuit
    BY DEF LoopInv
<1> QED
    BY <1>1, Invariance, PTL

(* For any set of channels, the assertion in removeChannel is enough to    *)
(* keep loop() from dispatching a removed channel.                         *)
THEOREM NeverDispatchesRemoved == Spec => []NoStaleDispatch
<1>1. LoopInv => NoStaleDispatch
    BY DEF LoopInv
<1> QED
    BY <1>1, Invariance, PTL

-----------------------------------------------------------------------------
(* Refinement of FunctorQueue. *)

(* The head and the tail of a concatenation whose left part is not empty. *)
LEMMA ConcatHeadTail ==
    ASSUME NEW S, NEW a \in Seq(S), NEW b \in Seq(S), a # <<>>
    PROVE  /\ a \o b # <<>>
           /\ Head(a \o b) = Head(a)
           /\ Tail(a \o b) = Tail(a) \o b
OBVIOUS

(* Appending to the right part of a concatenation. *)
LEMMA ConcatAppend ==
    ASSUME NEW S, NEW a \in Seq(S), NEW b \in Seq(S), NEW e \in S
    PROVE  a \o Append(b, e) = Append(a \o b, e)
OBVIOUS

(* The empty sequence is neutral. *)
LEMMA ConcatEmpty ==
    ASSUME NEW S, NEW a \in Seq(S)
    PROVE  /\ a \o <<>> = a
           /\ <<>> \o a = a
OBVIOUS

LEMMA StepRefines ==
    LoopInv /\ [Next]_vars => [FQ!Next]_(FQ!vars)
<1> SUFFICES ASSUME LoopInv, [Next]_vars PROVE [FQ!Next]_(FQ!vars)
    OBVIOUS
<1>0. /\ functors \in Seq(Functors)
      /\ pendingFunctors_ \in Seq(Functors)
      /\ pc \notin {"functors", "functor"} => functors = <<>>
    BY DEF LoopInv, TypeOK, FlagsMatchPc
<1> USE DEF loopVars, functorVars, channelVars
<1>1. ASSUME SwapFunctors PROVE UNCHANGED FQ!vars
    BY <1>0, <1>1, ConcatEmpty DEF SwapFunctors, FQ!vars
<1>2. ASSUME RunFunctor PROVE FQ!RunHead
    BY <1>0, <1>2, ConcatHeadTail DEF RunFunctor, FQ!RunHead
<1>3. ASSUME NEW f \in Functors, CallbackQueues(f) PROVE FQ!Post(f)
    BY <1>0, <1>3, ConcatAppend DEF CallbackQueues, QueueInLoop, FQ!Post
<1>4. ASSUME NEW f \in Functors, RunInLoop(f) PROVE FQ!RunInline(f)
    BY <1>4 DEF RunInLoop, FQ!RunInline
<1>5. ASSUME NEW t \in Threads, NEW f \in Functors, ThreadQueues(t, f)
      PROVE  FQ!Post(f)
    BY <1>0, <1>5, ConcatAppend DEF ThreadQueues, FQ!Post
<1>6. ASSUME Loop PROVE UNCHANGED FQ!vars
    BY <1>6 DEF Loop, FQ!vars
<1>7. ASSUME While PROVE UNCHANGED FQ!vars
    BY <1>7 DEF While, FQ!vars
<1>8. ASSUME PollReturns PROVE UNCHANGED FQ!vars
    BY <1>8 DEF PollReturns, FQ!vars
<1>9. ASSUME PollTimeout PROVE UNCHANGED FQ!vars
    BY <1>9 DEF PollTimeout, FQ!vars
<1>10. ASSUME NEW c \in AllChannels, HandleEvent(c) PROVE UNCHANGED FQ!vars
    BY <1>10 DEF HandleEvent, FQ!vars
<1>11. ASSUME EventReturns PROVE UNCHANGED FQ!vars
    BY <1>11 DEF EventReturns, FQ!vars
<1>12. ASSUME EndDispatch PROVE UNCHANGED FQ!vars
    BY <1>12 DEF EndDispatch, FQ!vars
<1>13. ASSUME FunctorReturns PROVE UNCHANGED FQ!vars
    BY <1>13 DEF FunctorReturns, FQ!vars
<1>14. ASSUME EndFunctors PROVE UNCHANGED FQ!vars
    BY <1>14 DEF EndFunctors, FQ!vars
<1>15. ASSUME CallbackQuits PROVE UNCHANGED FQ!vars
    BY <1>15 DEF CallbackQuits, FQ!vars
<1>16. ASSUME NEW c \in Channels, UpdateChannel(c) PROVE UNCHANGED FQ!vars
    BY <1>16 DEF UpdateChannel, FQ!vars
<1>17. ASSUME NEW c \in Channels, RemoveChannel(c) PROVE UNCHANGED FQ!vars
    BY <1>17 DEF RemoveChannel, FQ!vars
<1>18. ASSUME NEW t \in Threads, ThreadQuits(t) PROVE UNCHANGED FQ!vars
    BY <1>18 DEF ThreadQuits, FQ!vars
<1>19. ASSUME NEW t \in Threads, ThreadWakes(t) PROVE UNCHANGED FQ!vars
    BY <1>19 DEF ThreadWakes, FQ!vars
<1>20. ASSUME NEW c \in Channels, ChannelReady(c) PROVE UNCHANGED FQ!vars
    BY <1>20 DEF ChannelReady, FQ!vars
<1>21. ASSUME UNCHANGED vars PROVE UNCHANGED FQ!vars
    BY <1>21 DEF vars, FQ!vars
<1> QED
    BY <1>1, <1>2, <1>3, <1>4, <1>5, <1>6, <1>7, <1>8, <1>9, <1>10, <1>11,
       <1>12, <1>13, <1>14, <1>15, <1>16, <1>17, <1>18, <1>19, <1>20, <1>21
       DEF Next, LoopStep, ClientStep, FQ!Next

(* EventLoop implements FunctorQueue: with any number of threads, every     *)
(* functor is started at most once and queued functors start in the order  *)
(* of their queueInLoop; none is lost or repeated by the swap.              *)
THEOREM ImplementsFunctorQueue == Spec => RunsOnceInOrder
<1>1. Init => FQ!Init
    BY ConcatEmpty DEF Init, FQ!Init
<1> QED
    BY <1>1, StepRefines, Invariance, PTL DEF Spec, FQ!Spec, RunsOnceInOrder
=============================================================================

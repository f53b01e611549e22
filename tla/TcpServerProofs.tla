--------------------------- MODULE TcpServerProofs ---------------------------
(***************************************************************************)
(* Proofs about TcpServer, for any number of clients, descriptors, threads *)
(* and calls of start(): no assertion of the code fails but one that       *)
(* PollPoller makes of a server that never listened, every descriptor has  *)
(* one owner, and every connection comes up once, goes down once and is    *)
(* destroyed once.                                                         *)
(***************************************************************************)
EXTENDS TcpServer, FiniteSetTheorems, NaturalsInduction, TLAPS

Queued == {Listen, Destroy} \cup {ConnectDestroyed(c) : c \in Conns}

(* connectDestroyed of c is queued and has not run. *)
IsDue(c) ==
    \/ \E i \in DOMAIN pendingFunctors_ : pendingFunctors_[i] = ConnectDestroyed(c)
    \/ \E i \in DOMAIN functors : i > ran /\ functors[i] = ConnectDestroyed(c)

Watched(c) == \E d \in Fds : channels_[d] = c

-----------------------------------------------------------------------------
(* The inductive invariant. *)

(* What the queue holds, and that it holds each connectDestroyed once. *)
Queues ==
    /\ \A i \in DOMAIN pendingFunctors_ : pendingFunctors_[i] \in Queued
    /\ \A i \in DOMAIN functors : functors[i] \in Queued
    /\ \A c \in Conns : \A i, j \in DOMAIN pendingFunctors_ :
          pendingFunctors_[i] = ConnectDestroyed(c) /\ pendingFunctors_[j] = ConnectDestroyed(c)
              => i = j
    /\ \A c \in Conns : \A i, j \in DOMAIN functors :
          functors[i] = ConnectDestroyed(c) /\ functors[j] = ConnectDestroyed(c) => i = j

(* What the position of the loop tells: there is a batch only in           *)
(* doPendingFunctors, and a connection is removed by its own event only,   *)
(* so that what is still to be dispatched is up.                           *)
Phases ==
    /\ phase # "functors" => functors = <<>> /\ ran = 0
    /\ phase \in {"out", "poll", "functors"} =>
          /\ todo = {}
          /\ \A c \in Conns : \A i \in DOMAIN pendingFunctors_ :
                pendingFunctors_[i] # ConnectDestroyed(c)
    /\ phase = "message" => currentActiveChannel_ \in connections_
    /\ \A c \in Conns : c \in todo => c \in connections_

(* nextConnId_ counts the accepted clients. *)
Counts ==
    /\ nextConnId_ + backlog <= clients + 1
    /\ \A c \in Conns : c >= nextConnId_ <=> state_[c] = "kConnecting"

(* state_, connections_ and the channel of a connection agree. *)
States ==
    \A c \in Conns :
        /\ c \in connections_ <=> state_[c] = "kConnected"
        /\ reading[c] <=> c \in connections_
        /\ state_[c] = "kConnecting" => told[c] = 0 /\ fd[c] = NoFd
        /\ state_[c] = "kConnected" => told[c] = 1
        /\ state_[c] = "kDisconnected" => told[c] = 2

(* The poller has the channels of the connections in the map and of those  *)
(* that wait for connectDestroyed.                                         *)
Watches ==
    /\ \A d \in Fds : channels_[d] # NoConn => fd[channels_[d]] = d
    /\ \A c \in Conns : Watched(c) <=> (c \in connections_ \/ IsDue(c))
    /\ \A c \in Conns : IsDue(c) => c \notin connections_

(* A server that is gone has left nothing behind; its destruction was      *)
(* queued behind every listen() that start() has queued.  The channel of   *)
(* the acceptor is known to the poller once the server listens.            *)
Lifetime ==
    /\ server => (accepting <=> listenning_)
    /\ ~server => ~accepting /\ connections_ = {} /\ AcceptChannel \notin todo /\ dying
    /\ dying => starting = {}
    /\ ~dying => /\ \A i \in DOMAIN pendingFunctors_ : pendingFunctors_[i] # Destroy
                 /\ \A i \in DOMAIN functors : functors[i] # Destroy
    /\ ~server => /\ \A i \in DOMAIN pendingFunctors_ : pendingFunctors_[i] # Listen
                  /\ \A i \in DOMAIN functors : i > ran => functors[i] # Listen
    /\ \A i, j \in DOMAIN pendingFunctors_ :
          pendingFunctors_[i] = Destroy /\ pendingFunctors_[j] = Listen => j < i
    /\ \A i, j \in DOMAIN functors : functors[i] = Destroy /\ functors[j] = Listen => j < i
    /\ \A i \in DOMAIN functors, j \in DOMAIN pendingFunctors_ :
          functors[i] = Destroy => pendingFunctors_[j] # Listen

ServerInv ==
    /\ Sound
    /\ Queues
    /\ Phases
    /\ Counts
    /\ States
    /\ Watches
    /\ Lifetime
    /\ DescriptorsOwned

USE DEF roundVars, loopVars, functorVars, acceptVars, tableVars, serverVars, lifeVars,
        connVars, objectVars, netVars, kernelVars, startVars, clientVars, worldVars, vars

-----------------------------------------------------------------------------
(* The types. *)

(* A set of natural numbers has a least element. *)
LEMMA LeastNat ==
    ASSUME NEW S \in SUBSET Nat, S # {}
    PROVE  Min(S) \in S
<1>1. PICK x \in S : \A y \in S : ~(<<y, x>> \in OpToRel(<, Nat))
  BY NatLessThanWellFounded, WFMin
<1>2. \A y \in S : ~(y < x)
  BY <1>1 DEF OpToRel
<1>3. \A y \in S : x =< y
  BY <1>2
<1> QED
  BY <1>3 DEF Min

(* The descriptor that open() and accept() return is free. *)
LEMMA LowestFree ==
    ASSUME FreeFds # {}
    PROVE  Min(FreeFds) \in FreeFds
<1>1. FreeFds \in SUBSET Nat
  BY ServerAssumption DEF FreeFds, Fds
<1> QED
  BY <1>1, LeastNat

(* The client gets connections that exist. *)
LEMMA HandedTypes ==
    ASSUME NEW S \in SUBSET Conns, kept \subseteq Conns, Handed(S)
    PROVE  kept' \subseteq Conns
BY DEF Handed

(* Release leaves descriptors or none. *)
LEMMA ReleaseTypes ==
    ASSUME NEW C, fd \in [Conns -> Fds \cup {NoFd}], openFds \subseteq Fds, Release(C)
    PROVE  fd' \in [Conns -> Fds \cup {NoFd}] /\ openFds' \subseteq Fds
BY DEF Release

(* A connectDestroyed in the queue is that of a connection. *)
LEMMA QueuedConn ==
    ASSUME NEW f \in Queued, f.op = "connectDestroyed"
    PROVE  f.conn \in Conns /\ f = ConnectDestroyed(f.conn)
BY DEF Queued, Listen, Destroy, ConnectDestroyed

(* So is the one that runs next. *)
LEMMA NextDestroyed ==
    ASSUME TypeOK, Queues, RunConnectDestroyed
    PROVE  /\ ran + 1 \in DOMAIN functors
           /\ functors[ran + 1].conn \in Conns
           /\ functors[ran + 1] = ConnectDestroyed(functors[ran + 1].conn)
<1>1. ran + 1 \in DOMAIN functors
  BY DEF TypeOK, RunConnectDestroyed, NextFunctor
<1> QED
  BY <1>1, QueuedConn DEF Queues, RunConnectDestroyed

(* A client that is accepted has a number. *)
LEMMA NextIsConn ==
    ASSUME TypeOK, Counts, backlog > 0
    PROVE  nextConnId_ \in Conns /\ nextConnId_ + 1 \in 1..(MaxConns + 1)
BY ServerAssumption DEF TypeOK, Counts, Conns

LoopTypes ==
    /\ phase \in {"out", "poll", "dispatch", "message", "shed", "shedclose",
                  "reopen", "functors", "aborted"}
    /\ activeChannels_ \subseteq AllChannels /\ todo \subseteq activeChannels_
    /\ currentActiveChannel_ \in AllChannels \cup {NoChannel}
    /\ revents_ \in [Conns -> SUBSET {"IN", "HUP", "ERR"}]

FunctorTypes ==
    /\ pendingFunctors_ \in Seq(Functor) /\ functors \in Seq(Functor)
    /\ ran \in 0..Len(functors)

ServerTypes ==
    /\ server \in BOOLEAN /\ listenning_ \in BOOLEAN /\ accepting \in BOOLEAN
    /\ dying \in BOOLEAN
    /\ idleFd_ \in Fds \cup {NoFd}
    /\ nextConnId_ \in 1..(MaxConns + 1)
    /\ connections_ \subseteq Conns /\ kept \subseteq Conns

ConnTypes ==
    /\ state_ \in [Conns -> {"kConnecting", "kConnected", "kDisconnected"}]
    /\ fd \in [Conns -> Fds \cup {NoFd}]
    /\ reading \in [Conns -> BOOLEAN]
    /\ channels_ \in [Fds -> Conns \cup {NoConn}]
    /\ told \in [Conns -> Nat]

WorldTypes ==
    /\ backlog \in 0..MaxConns /\ clients \in 0..MaxConns
    /\ sock \in [Conns -> Sockets]
    /\ openFds \subseteq Fds /\ others \subseteq Fds
    /\ starting \subseteq Threads
    /\ starts \in 0..MaxStarts

(* TypeOK in five parts, each of which the steps keep. *)
LEMMA TypesApart ==
    ASSUME failed \subseteq {"ignored"}
    PROVE  TypeOK <=> LoopTypes /\ FunctorTypes /\ ServerTypes /\ ConnTypes /\ WorldTypes
BY DEF TypeOK, LoopTypes, FunctorTypes, ServerTypes, ConnTypes, WorldTypes

(* The types of the round of loop(). *)
LEMMA LoopTypesStep ==
    ASSUME LoopTypes, Step
    PROVE  LoopTypes'
<1> USE DEF LoopTypes, AllChannels, AcceptChannel, NoChannel
<1>1. CASE EnterLoop \/ LeaveLoop
  BY <1>1 DEF EnterLoop, LeaveLoop
<1>2. CASE PollReturns
  BY <1>2 DEF PollReturns
<1>3. CASE NewConnection \/ AcceptFails \/ AcceptFatal \/ AcceptEMFILE
  BY <1>3 DEF NewConnection, AcceptFails, AcceptFatal, AcceptEMFILE, Dispatch
<1>4. CASE Shed \/ ShedClose \/ Reopen
  BY <1>4 DEF Shed, ShedClose, Reopen
<1>5. ASSUME NEW c \in Conns, HandleHup(c) \/ HandleMessage(c) \/ HandleEnd(c) \/ HandleReadError(c)
      PROVE  LoopTypes'
  BY <1>5 DEF HandleHup, HandleMessage, HandleEnd, HandleReadError, Dispatch
<1>6. CASE MessageReturns \/ EndDispatch \/ EndFunctors
  BY <1>6 DEF MessageReturns, EndDispatch, EndFunctors
<1>7. CASE RunListen \/ RunConnectDestroyed \/ RunDestructor \/ DestroyOutside
  BY <1>7 DEF RunListen, RunConnectDestroyed, RunDestructor, DestroyOutside, Destructor
<1>8. CASE \/ StartInLoop \/ QueueDestructor
           \/ \E t \in Threads : ThreadStarts(t) \/ ThreadQueuesListen(t)
  BY <1>8 DEF StartInLoop, QueueDestructor, ThreadStarts, ThreadQueuesListen
<1>9. CASE \/ \E c \in Conns : ClientDrops(c) \/ PeerDoes(c)
           \/ OthersOpen \/ PeerConnects \/ PeerAborts
           \/ \E d \in Fds : OthersClose(d)
  BY <1>9 DEF ClientDrops, PeerDoes, OthersOpen, OthersClose, PeerConnects, PeerAborts
<1> QED
  BY <1>1, <1>2, <1>3, <1>4, <1>5, <1>6, <1>7, <1>8, <1>9 DEF Step, LoopStep

(* The types of the functors. *)
LEMMA FunctorTypesStep ==
    ASSUME FunctorTypes, Phases, Step
    PROVE  FunctorTypes'
<1> USE DEF FunctorTypes
<1>1. /\ Listen \in Functor /\ Destroy \in Functor
      /\ \A c \in Conns : ConnectDestroyed(c) \in Functor
  BY DEF Functor, Listen, Destroy, ConnectDestroyed
<1>2. CASE \/ EnterLoop \/ LeaveLoop \/ PollReturns \/ NewConnection \/ AcceptFails \/ AcceptFatal
           \/ AcceptEMFILE \/ Shed \/ ShedClose \/ Reopen \/ MessageReturns
  BY <1>2 DEF EnterLoop, LeaveLoop, PollReturns, NewConnection, AcceptFails,
              AcceptFatal, AcceptEMFILE,
              Shed, ShedClose, Reopen, MessageReturns
<1>3. ASSUME NEW c \in Conns, HandleHup(c) \/ HandleEnd(c)
      PROVE  FunctorTypes'
  <2>1. pendingFunctors_' = Append(pendingFunctors_, ConnectDestroyed(c))
        /\ UNCHANGED <<functors, ran>>
    BY <1>3 DEF HandleHup, HandleEnd, HandleClose, RemoveConnection
  <2> QED
    BY <1>1, <2>1
<1>4. ASSUME NEW c \in Conns, HandleMessage(c) \/ HandleReadError(c)
      PROVE  FunctorTypes'
  BY <1>4 DEF HandleMessage, HandleReadError
<1>5. CASE EndDispatch
  <2>1. ran' = 0 /\ functors' = pendingFunctors_ /\ pendingFunctors_' = <<>>
    BY <1>5 DEF EndDispatch, Phases
  <2> QED
    BY <2>1
<1>6. CASE EndFunctors
  BY <1>6 DEF EndFunctors
<1>7. CASE RunListen \/ RunConnectDestroyed \/ RunDestructor
  BY <1>7 DEF RunListen, RunConnectDestroyed, RunDestructor, NextFunctor
<1>8. CASE \/ StartInLoop \/ DestroyOutside \/ OthersOpen \/ PeerConnects \/ PeerAborts
           \/ \E t \in Threads : ThreadStarts(t)
           \/ \E c \in Conns : ClientDrops(c) \/ PeerDoes(c)
           \/ \E d \in Fds : OthersClose(d)
  BY <1>8 DEF StartInLoop, DestroyOutside, ThreadStarts, ClientDrops, PeerDoes, OthersOpen,
              OthersClose, PeerConnects, PeerAborts
<1>9. CASE QueueDestructor \/ \E t \in Threads : ThreadQueuesListen(t)
  <2>1. PICK f \in Functor : pendingFunctors_' = Append(pendingFunctors_, f)
    BY <1>1, <1>9 DEF QueueDestructor, ThreadQueuesListen
  <2>2. UNCHANGED <<functors, ran>>
    BY <1>9 DEF QueueDestructor, ThreadQueuesListen
  <2> QED
    BY <2>1, <2>2
<1> QED
  BY <1>2, <1>3, <1>4, <1>5, <1>6, <1>7, <1>8, <1>9 DEF Step, LoopStep

(* The types of TcpServer and Acceptor. *)
LEMMA ServerTypesStep ==
    ASSUME TypeOK, ServerTypes, Queues, Counts, Step
    PROVE  ServerTypes'
<1> USE DEF ServerTypes
<1>1. CASE \/ EnterLoop \/ LeaveLoop \/ PollReturns \/ AcceptFails \/ AcceptFatal \/ AcceptEMFILE
           \/ ShedClose \/ MessageReturns \/ EndDispatch \/ EndFunctors
  BY <1>1 DEF EnterLoop, LeaveLoop, PollReturns, AcceptFails, AcceptFatal, AcceptEMFILE, ShedClose,
              MessageReturns, EndDispatch, EndFunctors
<1>2. CASE NewConnection
  BY <1>2, NextIsConn, HandedTypes DEF NewConnection, ConnectEstablished
<1>3. CASE Shed \/ Reopen
  BY <1>3, LowestFree DEF Shed, Reopen, FreeFds
<1>4. ASSUME NEW c \in Conns, HandleHup(c) \/ HandleMessage(c) \/ HandleEnd(c) \/ HandleReadError(c)
      PROVE  ServerTypes'
  BY <1>4, HandedTypes DEF HandleHup, HandleMessage, HandleEnd, HandleReadError, HandleClose,
                           RemoveConnection
<1>5. CASE RunListen
  BY <1>5 DEF RunListen
<1>6. CASE RunConnectDestroyed
  <2>1. PICK S \in SUBSET Conns : Handed(S)
    BY <1>6, NextDestroyed DEF RunConnectDestroyed, ConnectionsDestroyed
  <2> QED
    BY <1>6, <2>1, HandedTypes DEF RunConnectDestroyed
<1>7. CASE RunDestructor \/ DestroyOutside
  <2>1. PICK S \in SUBSET Conns : Handed(S)
    BY <1>7 DEF RunDestructor, DestroyOutside, Destructor, ConnectionsDestroyed, TypeOK
  <2> QED
    BY <1>7, <2>1, HandedTypes DEF RunDestructor, DestroyOutside, Destructor
<1>8. CASE \/ StartInLoop \/ QueueDestructor
           \/ \E t \in Threads : ThreadStarts(t) \/ ThreadQueuesListen(t)
  BY <1>8 DEF StartInLoop, QueueDestructor, ThreadStarts, ThreadQueuesListen
<1>9. CASE \/ \E c \in Conns : ClientDrops(c) \/ PeerDoes(c)
           \/ OthersOpen \/ PeerConnects \/ PeerAborts
           \/ \E d \in Fds : OthersClose(d)
  BY <1>9 DEF ClientDrops, PeerDoes, OthersOpen, OthersClose, PeerConnects, PeerAborts
<1> QED
  BY <1>1, <1>2, <1>3, <1>4, <1>5, <1>6, <1>7, <1>8, <1>9 DEF Step, LoopStep

(* The types of the connections and of the poller's map. *)
LEMMA ConnTypesStep ==
    ASSUME TypeOK, ConnTypes, Counts, Step
    PROVE  ConnTypes'
<1> USE DEF ConnTypes
<1>1. openFds \subseteq Fds
  BY DEF TypeOK
<1>2. CASE \/ EnterLoop \/ LeaveLoop \/ PollReturns \/ AcceptFails \/ AcceptFatal \/ AcceptEMFILE
           \/ Shed \/ ShedClose \/ Reopen \/ EndDispatch \/ RunListen
  BY <1>2 DEF EnterLoop, LeaveLoop, PollReturns, AcceptFails,
              AcceptFatal, AcceptEMFILE, Shed, ShedClose,
              Reopen, EndDispatch, RunListen
<1>3. CASE NewConnection
  BY <1>3, NextIsConn, LowestFree DEF NewConnection, ConnectEstablished, FreeFds
<1>4. CASE MessageReturns \/ EndFunctors \/ \E c \in Conns : ClientDrops(c)
  BY <1>1, <1>4, ReleaseTypes DEF MessageReturns, EndFunctors, ClientDrops
<1>5. ASSUME NEW c \in Conns, HandleHup(c) \/ HandleEnd(c)
      PROVE  ConnTypes'
  <2>1. HandleClose(c) /\ Release({})
    BY <1>5 DEF HandleHup, HandleEnd
  <2>2. fd' \in [Conns -> Fds \cup {NoFd}]
    BY <1>1, <2>1, ReleaseTypes
  <2>3. /\ state_' = [state_ EXCEPT ![c] = "kDisconnected"]
        /\ reading' = [reading EXCEPT ![c] = FALSE]
        /\ told' = [told EXCEPT ![c] = @ + 1]
        /\ channels_' = channels_
    BY <2>1 DEF HandleClose
  <2> QED
    BY <2>2, <2>3
<1>6. ASSUME NEW c \in Conns, HandleMessage(c) \/ HandleReadError(c)
      PROVE  ConnTypes'
  BY <1>6 DEF HandleMessage, HandleReadError
<1>7. ASSUME NEW S, ConnectionsDestroyed(S), fd' \in [Conns -> Fds \cup {NoFd}]
      PROVE  ConnTypes'
  BY <1>7 DEF ConnectionsDestroyed
<1>8. CASE RunConnectDestroyed
  BY <1>7, <1>8 DEF RunConnectDestroyed
<1>9. CASE RunDestructor \/ DestroyOutside
  BY <1>1, <1>7, <1>9, ReleaseTypes DEF RunDestructor, DestroyOutside, Destructor
<1>10. CASE \/ StartInLoop \/ QueueDestructor \/ OthersOpen \/ PeerConnects \/ PeerAborts
            \/ \E t \in Threads : ThreadStarts(t) \/ ThreadQueuesListen(t)
            \/ \E c \in Conns : PeerDoes(c)
            \/ \E d \in Fds : OthersClose(d)
  BY <1>10 DEF StartInLoop, QueueDestructor, ThreadStarts, ThreadQueuesListen, PeerDoes,
               OthersOpen, OthersClose, PeerConnects, PeerAborts
<1> QED
  BY <1>2, <1>3, <1>4, <1>5, <1>6, <1>8, <1>9, <1>10 DEF Step, LoopStep

(* The types of the kernel and of the threads. *)
LEMMA WorldTypesStep ==
    ASSUME TypeOK, WorldTypes, Counts, Step
    PROVE  WorldTypes'
<1> USE DEF WorldTypes
<1>1. fd \in [Conns -> Fds \cup {NoFd}]
  BY DEF TypeOK
<1>2. CASE \/ EnterLoop \/ LeaveLoop \/ PollReturns \/ AcceptFails \/ AcceptFatal \/ AcceptEMFILE
           \/ ShedClose \/ EndDispatch \/ RunListen \/ RunConnectDestroyed
  BY <1>2 DEF EnterLoop, LeaveLoop, PollReturns, AcceptFails, AcceptFatal, AcceptEMFILE, ShedClose,
              EndDispatch, RunListen, RunConnectDestroyed
<1>3. CASE NewConnection
  BY <1>3, LowestFree, ServerAssumption DEF NewConnection, FreeFds
<1>4. CASE Shed
  BY <1>4, LowestFree, ServerAssumption DEF Shed, FreeFds
<1>5. CASE Reopen
  BY <1>5, LowestFree DEF Reopen, FreeFds
<1>6. CASE MessageReturns \/ EndFunctors \/ \E c \in Conns : ClientDrops(c)
  BY <1>1, <1>6, ReleaseTypes DEF MessageReturns, EndFunctors, ClientDrops
<1>7. \A c \in Conns : ErrorTaken(sock[c]) \in Sockets /\ SocketAtRead(c) \in Sockets
  BY DEF ErrorTaken, SocketAtRead, Sockets
<1>8. ASSUME NEW c \in Conns, HandleHup(c) \/ HandleEnd(c)
      PROVE  WorldTypes'
  BY <1>1, <1>7, <1>8, ReleaseTypes DEF HandleHup, HandleEnd
<1>9. ASSUME NEW c \in Conns, HandleMessage(c)
      PROVE  WorldTypes'
  <2>1. [SocketAtRead(c) EXCEPT !.data = FALSE] \in Sockets
    BY <1>7 DEF Sockets
  <2> QED
    BY <1>9, <2>1 DEF HandleMessage
<1>10. ASSUME NEW c \in Conns, HandleReadError(c)
      PROVE  WorldTypes'
  BY <1>7, <1>10 DEF HandleReadError
<1>11. CASE RunDestructor \/ DestroyOutside
  BY <1>1, <1>11, ReleaseTypes, ServerAssumption DEF RunDestructor, DestroyOutside, Destructor
<1>12. CASE \/ StartInLoop \/ QueueDestructor \/ PeerAborts
            \/ \E t \in Threads : ThreadStarts(t) \/ ThreadQueuesListen(t)
            \/ \E d \in Fds : OthersClose(d)
  BY <1>12, ServerAssumption DEF StartInLoop, QueueDestructor, ThreadStarts,
               ThreadQueuesListen, OthersClose, PeerAborts
<1>13. CASE OthersOpen
  BY <1>13, LowestFree DEF OthersOpen, FreeFds
<1>14. CASE PeerConnects
  BY <1>14, ServerAssumption DEF PeerConnects, Counts, TypeOK
<1>15. ASSUME NEW c \in Conns, PeerDoes(c)
       PROVE  WorldTypes'
  <2>1. PICK v \in Sockets : sock' = [sock EXCEPT ![c] = v]
    <3>1. sock[c] \in Sockets
      OBVIOUS
    <3>2. /\ [sock[c] EXCEPT !.data = TRUE] \in Sockets
          /\ [sock[c] EXCEPT !.peer = "fin"] \in Sockets
          /\ [sock[c] EXCEPT !.peer = "rst"] \in Sockets
      BY <3>1 DEF Sockets
    <3> QED
      BY <1>15, <3>2 DEF PeerDoes
  <2>2. UNCHANGED <<backlog, clients, openFds, others, starting, starts>>
    BY <1>15 DEF PeerDoes
  <2> QED
    BY <2>1, <2>2
<1> QED
  BY <1>2, <1>3, <1>4, <1>5, <1>6, <1>8, <1>9, <1>10, <1>11, <1>12, <1>13, <1>14, <1>15
     DEF Step, LoopStep

-----------------------------------------------------------------------------
(* The queue of functors. *)

(* No functor is taken for another. *)
LEMMA FunctorsApart ==
    /\ Listen # Destroy
    /\ \A c \in Conns : ConnectDestroyed(c) \notin {Listen, Destroy}
    /\ \A c, x \in Conns : ConnectDestroyed(c) = ConnectDestroyed(x) => c = x
    /\ Listen.op = "listen" /\ Destroy.op = "~TcpServer"
    /\ \A c \in Conns : ConnectDestroyed(c).op = "connectDestroyed"
BY DEF Listen, Destroy, ConnectDestroyed, Conns, NoConn

Appended(f) ==
    /\ pendingFunctors_' = Append(pendingFunctors_, f)
    /\ UNCHANGED <<functors, ran>>

Closes(c) == HandleHup(c) \/ HandleEnd(c)

(* What the steps do to the queue. *)
LEMMA QueueSteps ==
    ASSUME Step
    PROVE  \/ UNCHANGED <<pendingFunctors_, functors, ran>>
           \/ \E c \in Conns : Closes(c) /\ Appended(ConnectDestroyed(c))
           \/ \E t \in Threads : ThreadQueuesListen(t) /\ Appended(Listen)
           \/ QueueDestructor /\ Appended(Destroy)
           \/ EndDispatch
           \/ EndFunctors
           \/ RunListen
           \/ RunConnectDestroyed
           \/ RunDestructor
<1>1. CASE \/ EnterLoop \/ LeaveLoop \/ PollReturns \/ NewConnection \/ AcceptFails \/ AcceptFatal
           \/ AcceptEMFILE \/ Shed \/ ShedClose \/ Reopen \/ MessageReturns
  BY <1>1 DEF EnterLoop, LeaveLoop, PollReturns, NewConnection, AcceptFails,
              AcceptFatal, AcceptEMFILE,
              Shed, ShedClose, Reopen, MessageReturns
<1>2. ASSUME NEW c \in Conns, Closes(c)
      PROVE  Appended(ConnectDestroyed(c))
  BY <1>2 DEF Closes, HandleHup, HandleEnd, HandleClose, RemoveConnection, Appended
<1>3. ASSUME NEW c \in Conns, HandleMessage(c) \/ HandleReadError(c)
      PROVE  UNCHANGED <<pendingFunctors_, functors, ran>>
  BY <1>3 DEF HandleMessage, HandleReadError
<1>4. CASE \/ StartInLoop \/ DestroyOutside \/ OthersOpen \/ PeerConnects \/ PeerAborts
           \/ \E t \in Threads : ThreadStarts(t)
           \/ \E c \in Conns : ClientDrops(c) \/ PeerDoes(c)
           \/ \E d \in Fds : OthersClose(d)
  BY <1>4 DEF StartInLoop, DestroyOutside, ThreadStarts, ClientDrops, PeerDoes, OthersOpen,
              OthersClose, PeerConnects, PeerAborts
<1>5. ASSUME NEW t \in Threads, ThreadQueuesListen(t)
      PROVE  Appended(Listen)
  BY <1>5 DEF ThreadQueuesListen, Appended
<1>6. ASSUME QueueDestructor
      PROVE  Appended(Destroy)
  BY <1>6 DEF QueueDestructor, Appended
<1> QED
  BY <1>1, <1>2, <1>3, <1>4, <1>5, <1>6 DEF Step, LoopStep, Closes

(* The elements of a queue behind which something is queued. *)
LEMMA AppendedElements ==
    ASSUME TypeOK, NEW f \in Functor, Appended(f)
    PROVE  /\ pendingFunctors_ \in Seq(Functor)
           /\ DOMAIN pendingFunctors_' = DOMAIN pendingFunctors_ \cup {Len(pendingFunctors_) + 1}
           /\ \A i \in DOMAIN pendingFunctors_ : /\ pendingFunctors_'[i] = pendingFunctors_[i]
                                                 /\ i < Len(pendingFunctors_) + 1
           /\ pendingFunctors_'[Len(pendingFunctors_) + 1] = f
           /\ Len(pendingFunctors_) + 1 \notin DOMAIN pendingFunctors_
<1>1. pendingFunctors_ \in Seq(Functor)
  BY DEF TypeOK
<1> QED
  BY <1>1 DEF Appended

(* What is queued are functors. *)
LEMMA QueuedFunctors ==
    /\ Queued \subseteq Functor
    /\ Listen \in Queued /\ Destroy \in Queued /\ \A c \in Conns : ConnectDestroyed(c) \in Queued
<1>1. Listen \in Functor /\ Destroy \in Functor
  BY DEF Functor, Listen, Destroy
<1>2. \A c \in Conns : ConnectDestroyed(c) \in Functor
  BY DEF Functor, ConnectDestroyed
<1> QED
  BY <1>1, <1>2 DEF Queued

(* When the batch begins, there is none. *)
LEMMA BatchBegins ==
    ASSUME Phases, EndDispatch
    PROVE  functors = <<>> /\ functors' = pendingFunctors_ /\ pendingFunctors_' = <<>> /\ ran' = 0
BY DEF Phases, EndDispatch

(* A connectDestroyed becomes due when its connection closes ... *)
LEMMA BecomesDue ==
    ASSUME TypeOK, NEW x \in Conns, NEW c \in Conns, Appended(ConnectDestroyed(c))
    PROVE  IsDue(x)' <=> IsDue(x) \/ x = c
<1>1. ConnectDestroyed(c) \in Functor /\ UNCHANGED <<functors, ran>>
  BY QueuedFunctors DEF Appended
<1> QED
  BY <1>1, AppendedElements, FunctorsApart DEF IsDue

(* ... is not so any more when it runs ... *)
LEMMA RunsWhenDue ==
    ASSUME TypeOK, Queues, Phases, NEW x \in Conns, RunConnectDestroyed
    PROVE  /\ IsDue(functors[ran + 1].conn)
           /\ IsDue(x)' <=> IsDue(x) /\ x # functors[ran + 1].conn
<1>1. /\ ran' = ran + 1 /\ ran \in Nat
      /\ UNCHANGED <<pendingFunctors_, functors>>
      /\ functors \in Seq(Functor)
  BY DEF RunConnectDestroyed, NextFunctor, TypeOK
<1>2. \A i \in DOMAIN pendingFunctors_ : pendingFunctors_[i] # ConnectDestroyed(x)
  BY DEF Phases, RunConnectDestroyed, NextFunctor
<1>3. DEFINE c == functors[ran + 1].conn
<1>4. c \in Conns /\ ran + 1 \in DOMAIN functors /\ functors[ran + 1] = ConnectDestroyed(c)
  BY NextDestroyed
<1>5. \A i \in DOMAIN functors : functors[i] = ConnectDestroyed(c) => i = ran + 1
  BY <1>4 DEF Queues
<1>6. ConnectDestroyed(x) = ConnectDestroyed(c) <=> x = c
  BY <1>4, FunctorsApart
<1>7. \A i \in DOMAIN functors : i > ran + 1 <=> i > ran /\ i # ran + 1
  BY <1>1
<1> HIDE DEF c
<1>8. IsDue(c)
  BY <1>1, <1>4 DEF IsDue
<1>9. IsDue(x)' <=> \E i \in DOMAIN functors : i > ran + 1 /\ functors[i] = ConnectDestroyed(x)
  BY <1>1, <1>2 DEF IsDue
<1>10. IsDue(x) <=> \E i \in DOMAIN functors : i > ran /\ functors[i] = ConnectDestroyed(x)
  BY <1>2 DEF IsDue
<1>11. CASE x = c
  BY <1>5, <1>7, <1>8, <1>9, <1>11 DEF c
<1>12. CASE x # c
  <2>1. \A i \in DOMAIN functors : functors[i] = ConnectDestroyed(x) => i # ran + 1
    BY <1>4, <1>6, <1>12
  <2> QED
    BY <1>7, <1>8, <1>9, <1>10, <1>12, <2>1 DEF c
<1> QED
  BY <1>11, <1>12

(* ... and stays as it is otherwise. *)
LEMMA DueKept ==
    ASSUME TypeOK, Phases, NEW x \in Conns, Step,
           ~(\E c \in Conns : Closes(c)), ~RunConnectDestroyed
    PROVE  IsDue(x)' <=> IsDue(x)
<1>1. CASE UNCHANGED <<pendingFunctors_, functors, ran>>
  BY <1>1 DEF IsDue
<1>2. ASSUME NEW f \in {Listen, Destroy}, Appended(f)
      PROVE  IsDue(x)' <=> IsDue(x)
  <2>1. f \in Functor /\ UNCHANGED <<functors, ran>> /\ f # ConnectDestroyed(x)
    BY <1>2, QueuedFunctors, FunctorsApart DEF Appended
  <2> QED
    BY <1>2, <2>1, AppendedElements DEF IsDue
<1>3. CASE EndDispatch
  <2>1. functors = <<>> /\ functors' = pendingFunctors_ /\ pendingFunctors_' = <<>> /\ ran' = 0
    BY <1>3, BatchBegins
  <2>2. \A i \in DOMAIN pendingFunctors_ : i > 0
    BY DEF TypeOK
  <2> QED
    BY <2>1, <2>2 DEF IsDue
<1>4. CASE EndFunctors
  <2>1. /\ functors' = <<>> /\ pendingFunctors_' = pendingFunctors_
        /\ \A i \in DOMAIN functors : ~(i > ran)
    BY <1>4 DEF EndFunctors, TypeOK
  <2> QED
    BY <2>1 DEF IsDue
<1>5. CASE RunListen \/ RunDestructor
  <2>1. /\ ran' = ran + 1 /\ functors' = functors /\ pendingFunctors_' = pendingFunctors_
        /\ functors[ran + 1].op # "connectDestroyed"
    BY <1>5 DEF RunListen, RunDestructor, NextFunctor
  <2>2. functors[ran + 1] # ConnectDestroyed(x)
    BY <2>1, FunctorsApart
  <2>3. \A i \in DOMAIN functors : i > ran + 1 <=> i > ran /\ i # ran + 1
    BY DEF TypeOK
  <2> QED
    BY <2>1, <2>2, <2>3 DEF IsDue
<1> QED
  BY <1>1, <1>2, <1>3, <1>4, <1>5, QueueSteps

(* A connection that closes is not due yet, so it is queued once. *)
LEMMA QueuesStep ==
    ASSUME ServerInv, Step
    PROVE  Queues'
<1> USE DEF ServerInv, Sound
<1>1. CASE \/ UNCHANGED <<pendingFunctors_, functors, ran>>
           \/ RunListen \/ RunConnectDestroyed \/ RunDestructor
  BY <1>1 DEF RunListen, RunConnectDestroyed, RunDestructor, Queues
<1>2. ASSUME NEW f \in Queued, Appended(f),
             \A c \in Conns : f = ConnectDestroyed(c) => ~IsDue(c)
      PROVE  Queues'
  <2>1. f \in Functor /\ functors' = functors
    BY <1>2, QueuedFunctors DEF Appended
  <2>2. \A i \in DOMAIN pendingFunctors_' : pendingFunctors_'[i] \in Queued
    BY <1>2, <2>1, AppendedElements DEF Queues
  <2>3. \A c \in Conns : \A i \in DOMAIN pendingFunctors_ :
            f = ConnectDestroyed(c) => pendingFunctors_[i] # ConnectDestroyed(c)
    BY <1>2 DEF IsDue
  <2>4. \A c \in Conns : \A i, j \in DOMAIN pendingFunctors_' :
          pendingFunctors_'[i] = ConnectDestroyed(c) /\ pendingFunctors_'[j] = ConnectDestroyed(c)
              => i = j
    BY <1>2, <2>1, <2>3, AppendedElements DEF Queues
  <2> QED
    BY <2>1, <2>2, <2>4 DEF Queues
<1>3. ASSUME NEW c \in Conns, Closes(c), Appended(ConnectDestroyed(c))
      PROVE  Queues'
  <2>1. c \in connections_
    BY <1>3 DEF Closes, HandleHup, HandleEnd, Dispatch, Phases
  <2>2. ~IsDue(c)
    BY <2>1 DEF Watches
  <2>3. \A x \in Conns : ConnectDestroyed(c) = ConnectDestroyed(x) => ~IsDue(x)
    BY <2>2, FunctorsApart
  <2> QED
    BY <1>2, <1>3, <2>3, QueuedFunctors
<1>4. CASE \/ \E t \in Threads : ThreadQueuesListen(t) /\ Appended(Listen)
           \/ QueueDestructor /\ Appended(Destroy)
  BY <1>2, <1>4, QueuedFunctors, FunctorsApart
<1>5. CASE EndDispatch
  <2>1. functors' = pendingFunctors_ /\ pendingFunctors_' = <<>>
    BY <1>5, BatchBegins
  <2> QED
    BY <2>1 DEF Queues
<1>6. CASE EndFunctors
  <2>1. functors' = <<>> /\ pendingFunctors_' = pendingFunctors_
    BY <1>6 DEF EndFunctors
  <2> QED
    BY <2>1 DEF Queues
<1> QED
  BY <1>1, <1>3, <1>4, <1>5, <1>6, QueueSteps

-----------------------------------------------------------------------------
(* The position of the loop. *)

(* The position of the loop tells what it did before. *)
LEMMA PhasesStep ==
    ASSUME ServerInv, Step
    PROVE  Phases'
<1> USE DEF ServerInv, Sound, Phases, AcceptChannel, Conns
<1>1. CASE EnterLoop \/ LeaveLoop
  BY <1>1 DEF EnterLoop, LeaveLoop
<1>2. CASE PollReturns
  <2>1. \A c \in Conns : c \in todo' => reading[c]
    BY <1>2 DEF PollReturns, Interesting
  <2> QED
    BY <1>2, <2>1 DEF PollReturns, States
<1>3. CASE NewConnection \/ AcceptFails \/ AcceptFatal \/ AcceptEMFILE
  BY <1>3 DEF NewConnection, AcceptFails, AcceptFatal, AcceptEMFILE, Dispatch
<1>4. CASE Shed \/ ShedClose \/ Reopen \/ MessageReturns
  BY <1>4 DEF Shed, ShedClose, Reopen, MessageReturns
<1>5. ASSUME NEW c \in Conns, Closes(c)
      PROVE  Phases'
  BY <1>5 DEF Closes, HandleHup, HandleEnd, HandleClose, RemoveConnection, Dispatch
<1>6. ASSUME NEW c \in Conns, HandleMessage(c) \/ HandleReadError(c)
      PROVE  Phases'
  BY <1>6 DEF HandleMessage, HandleReadError, Dispatch
<1>7. CASE EndDispatch
  BY <1>7 DEF EndDispatch
<1>8. CASE EndFunctors
  BY <1>8 DEF EndFunctors
<1>9. CASE RunListen \/ RunConnectDestroyed
  BY <1>9 DEF RunListen, RunConnectDestroyed, NextFunctor
<1>10. CASE RunDestructor \/ DestroyOutside
  BY <1>10 DEF RunDestructor, DestroyOutside, Destructor, NextFunctor
<1>11. CASE \/ StartInLoop \/ OthersOpen \/ PeerConnects \/ PeerAborts
            \/ \E t \in Threads : ThreadStarts(t)
            \/ \E c \in Conns : ClientDrops(c) \/ PeerDoes(c)
            \/ \E d \in Fds : OthersClose(d)
  BY <1>11 DEF StartInLoop, ThreadStarts, ClientDrops, PeerDoes, OthersOpen,
               OthersClose, PeerConnects, PeerAborts
<1>12. ASSUME NEW f \in {Listen, Destroy}, Appended(f),
              UNCHANGED <<phase, todo, currentActiveChannel_, connections_>>
       PROVE  Phases'
  <2>1. f \in Functor /\ \A c \in Conns : f # ConnectDestroyed(c)
    BY QueuedFunctors, FunctorsApart
  <2>2. ASSUME phase \in {"out", "poll", "functors"},
               NEW c \in Conns, NEW i \in DOMAIN pendingFunctors_'
        PROVE  pendingFunctors_'[i] # ConnectDestroyed(c)
    BY <1>12, <2>1, <2>2, AppendedElements
  <2> QED
    BY <1>12, <2>2 DEF Appended
<1>13. CASE QueueDestructor \/ \E t \in Threads : ThreadQueuesListen(t)
  BY <1>12, <1>13 DEF QueueDestructor, ThreadQueuesListen, Appended
<1> QED
  BY <1>1, <1>2, <1>3, <1>4, <1>5, <1>6, <1>7, <1>8, <1>9, <1>10, <1>11, <1>13
     DEF Step, LoopStep, Closes

-----------------------------------------------------------------------------
(* The connections. *)

(* nextConnId_ counts, and a number is used once. *)
LEMMA CountsStep ==
    ASSUME ServerInv, Step
    PROVE  Counts'
<1> USE DEF Counts
<1>0. /\ TypeOK /\ Queues /\ Counts /\ nextConnId_ \in Nat /\ backlog \in Nat /\ clients \in Nat
      /\ state_ \in [Conns -> {"kConnecting", "kConnected", "kDisconnected"}]
  BY DEF ServerInv, Sound, TypeOK
<1>1. CASE \/ EnterLoop \/ LeaveLoop \/ PollReturns \/ AcceptFails \/ AcceptFatal \/ AcceptEMFILE
           \/ ShedClose \/ Reopen \/ MessageReturns \/ EndDispatch \/ EndFunctors \/ RunListen
  BY <1>0, <1>1 DEF EnterLoop, LeaveLoop, PollReturns, AcceptFails,
              AcceptFatal, AcceptEMFILE, ShedClose,
              Reopen, MessageReturns, EndDispatch, EndFunctors, RunListen
<1>2. CASE NewConnection
  <2>1. /\ nextConnId_' = nextConnId_ + 1 /\ backlog' = backlog - 1 /\ clients' = clients
        /\ state_' = [state_ EXCEPT ![nextConnId_] = "kConnected"]
    BY <1>2 DEF NewConnection, ConnectEstablished
  <2> QED
    BY <1>0, <2>1 DEF Conns
<1>3. CASE Shed
  BY <1>0, <1>3 DEF Shed
<1>4. ASSUME NEW c \in Conns, Closes(c)
      PROVE  Counts'
  <2>1. state_[c] = "kConnected"
    BY <1>4 DEF Closes, HandleHup, HandleEnd, Dispatch, ServerInv, Phases, States
  <2>2. /\ state_' = [state_ EXCEPT ![c] = "kDisconnected"]
        /\ UNCHANGED <<nextConnId_, backlog, clients>>
    BY <1>4 DEF Closes, HandleHup, HandleEnd, HandleClose
  <2> QED
    BY <1>0, <2>1, <2>2
<1>5. ASSUME NEW c \in Conns, HandleMessage(c) \/ HandleReadError(c)
      PROVE  Counts'
  BY <1>0, <1>5 DEF HandleMessage, HandleReadError
<1>6. ASSUME NEW S, ConnectionsDestroyed(S), UNCHANGED <<nextConnId_, clients>>,
             backlog' \in {0, backlog}
      PROVE  Counts'
  <2>1. \A c \in Conns : state_'[c] = "kConnecting" <=> state_[c] = "kConnecting"
    BY <1>6 DEF ConnectionsDestroyed
  <2>2. nextConnId_' = nextConnId_ /\ clients' = clients /\ (backlog' = 0 \/ backlog' = backlog)
    BY <1>6
  <2>3. nextConnId_' + backlog' <= clients' + 1
    BY <1>0, <2>2
  <2> QED
    BY <1>0, <2>1, <2>2, <2>3
<1>7. CASE RunConnectDestroyed
  BY <1>6, <1>7 DEF RunConnectDestroyed
<1>8. CASE RunDestructor \/ DestroyOutside
  BY <1>6, <1>8 DEF RunDestructor, DestroyOutside, Destructor
<1>9. CASE \/ StartInLoop \/ QueueDestructor \/ OthersOpen \/ PeerConnects \/ PeerAborts
           \/ \E t \in Threads : ThreadStarts(t) \/ ThreadQueuesListen(t)
           \/ \E c \in Conns : ClientDrops(c) \/ PeerDoes(c)
           \/ \E d \in Fds : OthersClose(d)
  BY <1>0, <1>9 DEF StartInLoop, QueueDestructor, ThreadStarts, ThreadQueuesListen, ClientDrops,
              PeerDoes, OthersOpen, OthersClose, PeerConnects, PeerAborts
<1> QED
  BY <1>1, <1>2, <1>3, <1>4, <1>5, <1>7, <1>8, <1>9 DEF Step, LoopStep, Closes

(* What the steps do to the connections: other steps than those that begin *)
(* or end one may at most give up a descriptor.                            *)
LEMMA ConnSteps ==
    ASSUME Step
    PROVE  \/ /\ UNCHANGED <<state_, reading, channels_, told, connections_>>
              /\ fd' = fd \/ Release({})
              /\ ~RunConnectDestroyed /\ ~(\E c \in Conns : Closes(c))
           \/ NewConnection
           \/ \E c \in Conns : Closes(c)
           \/ RunConnectDestroyed
           \/ RunDestructor
           \/ DestroyOutside
<1>1. CASE \/ EnterLoop \/ LeaveLoop \/ PollReturns \/ AcceptFails \/ AcceptFatal \/ AcceptEMFILE
           \/ Shed \/ ShedClose \/ Reopen \/ MessageReturns \/ EndDispatch \/ EndFunctors
           \/ RunListen
  BY <1>1 DEF EnterLoop, LeaveLoop, PollReturns, AcceptFails,
              AcceptFatal, AcceptEMFILE, Shed, ShedClose,
              Reopen, MessageReturns, EndDispatch, EndFunctors, RunListen
<1>2. ASSUME NEW c \in Conns, HandleMessage(c) \/ HandleReadError(c)
      PROVE  UNCHANGED <<state_, reading, channels_, told, connections_, fd>>
  BY <1>2 DEF HandleMessage, HandleReadError
<1>3. CASE \/ StartInLoop \/ QueueDestructor \/ OthersOpen \/ PeerConnects \/ PeerAborts
           \/ \E t \in Threads : ThreadStarts(t) \/ ThreadQueuesListen(t)
           \/ \E c \in Conns : ClientDrops(c) \/ PeerDoes(c)
           \/ \E d \in Fds : OthersClose(d)
  BY <1>3 DEF StartInLoop, QueueDestructor, ThreadStarts, ThreadQueuesListen, ClientDrops,
              PeerDoes, OthersOpen, OthersClose, PeerConnects, PeerAborts
<1> QED
  BY <1>1, <1>2, <1>3 DEF Step, LoopStep, Closes

(* Whoever is in the map or waits for connectDestroyed is pointed to. *)
LEMMA HeldAfter ==
    ASSUME NEW c \in Conns, c \in connections_' \/ IsDue(c)'
    PROVE  c \in Held'
<1>1. ConnectDestroyed(c).conn = c /\ c # NoConn
  BY DEF ConnectDestroyed, Conns, NoConn
<1>2. CASE c \in connections_'
  BY <1>2 DEF Held
<1>3. CASE \E i \in DOMAIN pendingFunctors_' : pendingFunctors_'[i] = ConnectDestroyed(c)
  <2>1. c \in ConnsIn(pendingFunctors_)'
    BY <1>1, <1>3 DEF ConnsIn
  <2> QED
    BY <2>1 DEF Held
<1>4. CASE \E i \in DOMAIN functors' : functors'[i] = ConnectDestroyed(c)
  <2>1. c \in ConnsIn(functors)'
    BY <1>1, <1>4 DEF ConnsIn
  <2> QED
    BY <2>1 DEF Held
<1> QED
  BY <1>2, <1>3, <1>4 DEF IsDue

(* A step gives up descriptors of nobody else. *)
LEMMA ReleasedFds ==
    ASSUME NEW C, Release(C), NEW c \in Conns
    PROVE  /\ fd'[c] \in {fd[c], NoFd}
           /\ c \in connections_' \/ IsDue(c)' => fd'[c] = fd[c]
BY HeldAfter DEF Release

(* Each way to the end of a connection changes all of its state. *)
LEMMA StatesStep ==
    ASSUME ServerInv, Step
    PROVE  States'
<1>0. /\ TypeOK /\ Queues /\ Counts /\ States /\ Phases /\ Watches /\ connections_ \subseteq Conns
      /\ state_ \in [Conns -> {"kConnecting", "kConnected", "kDisconnected"}]
      /\ reading \in [Conns -> BOOLEAN] /\ told \in [Conns -> Nat]
      /\ fd \in [Conns -> Fds \cup {NoFd}]
  BY DEF ServerInv, Sound, TypeOK
<1>1. ASSUME UNCHANGED <<state_, reading, told, connections_>>, fd' = fd \/ Release({})
      PROVE  States'
  BY <1>0, <1>1, ReleasedFds DEF States
<1>2. CASE NewConnection
  <2>1. /\ state_' = [state_ EXCEPT ![nextConnId_] = "kConnected"]
        /\ reading' = [reading EXCEPT ![nextConnId_] = TRUE]
        /\ told' = [told EXCEPT ![nextConnId_] = @ + 1]
        /\ connections_' = connections_ \cup {nextConnId_}
        /\ \A c \in Conns : c # nextConnId_ => fd'[c] = fd[c]
        /\ backlog > 0
    BY <1>2 DEF NewConnection, ConnectEstablished
  <2>2. nextConnId_ \in Conns /\ state_[nextConnId_] = "kConnecting"
    BY <1>0, <2>1, NextIsConn DEF Counts, Conns
  <2> QED
    BY <1>0, <2>1, <2>2 DEF States
<1>3. ASSUME NEW c \in Conns, Closes(c)
      PROVE  States'
  <2>1. c \in connections_
    BY <1>0, <1>3 DEF Closes, HandleHup, HandleEnd, Dispatch, Phases
  <2>2. /\ state_' = [state_ EXCEPT ![c] = "kDisconnected"]
        /\ reading' = [reading EXCEPT ![c] = FALSE]
        /\ told' = [told EXCEPT ![c] = @ + 1]
        /\ connections_' = connections_ \ {c}
        /\ Release({})
    BY <1>3 DEF Closes, HandleHup, HandleEnd, HandleClose, RemoveConnection
  <2> QED
    BY <1>0, <2>1, <2>2, ReleasedFds DEF States
<1>4. ASSUME NEW S \in SUBSET Conns, ConnectionsDestroyed(S), connections_' = connections_ \ S,
             \A c \in Conns : fd'[c] \in {fd[c], NoFd}
      PROVE  States'
  <2>1. ASSUME NEW c \in Conns
        PROVE  /\ state_'[c] = IF c \in S /\ c \in connections_ THEN "kDisconnected" ELSE state_[c]
               /\ reading'[c] <=> reading[c] /\ ~(c \in S /\ c \in connections_)
               /\ told'[c] = IF c \in S /\ c \in connections_ THEN told[c] + 1 ELSE told[c]
    BY <1>0, <1>4 DEF ConnectionsDestroyed, States
  <2> QED
    BY <1>0, <1>4, <2>1 DEF States
<1>5. CASE RunConnectDestroyed
  <2>1. functors[ran + 1].conn \notin connections_ /\ functors[ran + 1].conn \in Conns
    BY <1>0, <1>5, NextDestroyed, RunsWhenDue DEF Watches
  <2> QED
    BY <1>0, <1>4, <1>5, <2>1 DEF RunConnectDestroyed
<1>6. CASE RunDestructor \/ DestroyOutside
  <2>1. ConnectionsDestroyed(connections_) /\ connections_' = {} /\ Release({idleFd_})
    BY <1>6 DEF RunDestructor, DestroyOutside, Destructor
  <2> QED
    BY <1>0, <1>4, <2>1, ReleasedFds
<1> QED
  BY <1>1, <1>2, <1>3, <1>5, <1>6, ConnSteps

(* A free descriptor is not in the poller's map. *)
LEMMA FreeNotWatched ==
    ASSUME TypeOK, Watches, DescriptorsOwned, NEW d \in FreeFds
    PROVE  channels_[d] = NoConn
<1>1. d \in Fds /\ d # NoFd /\ d \notin openFds
  BY DEF FreeFds, Fds, NoFd
<1>2. channels_[d] # NoConn => channels_[d] \in Live /\ fd[channels_[d]] = d
  BY <1>1 DEF TypeOK, Watches, Live
<1> QED
  BY <1>1, <1>2 DEF DescriptorsOwned

(* A channel leaves the poller by its connectDestroyed only. *)
LEMMA WatchesStep ==
    ASSUME ServerInv, Step
    PROVE  Watches'
<1>0. /\ TypeOK /\ Queues /\ Counts /\ States /\ Phases /\ Watches /\ connections_ \subseteq Conns
      /\ DescriptorsOwned
      /\ channels_ \in [Fds -> Conns \cup {NoConn}]
      /\ fd \in [Conns -> Fds \cup {NoFd}]
  BY DEF ServerInv, Sound, TypeOK
<1>1. ASSUME UNCHANGED <<channels_, connections_>>, fd' = fd \/ Release({}),
             \A c \in Conns : IsDue(c)' <=> IsDue(c)
      PROVE  Watches'
  <2>1. \A c \in Conns : Watched(c)' <=> Watched(c)
    BY <1>1 DEF Watched
  <2>2. \A d \in Fds : channels_[d] # NoConn => Watched(channels_[d])
    BY DEF Watched
  <2>3. \A d \in Fds : channels_[d] # NoConn => fd'[channels_[d]] = fd[channels_[d]]
    BY <1>0, <1>1, <2>2, ReleasedFds DEF Watches
  <2> QED
    BY <1>0, <1>1, <2>1, <2>3 DEF Watches
<1>2. CASE NewConnection
  <2> DEFINE c == nextConnId_
  <2> DEFINE d == Min(FreeFds)
  <2>1. /\ channels_' = [channels_ EXCEPT ![d] = c]
        /\ connections_' = connections_ \cup {c}
        /\ fd' = [fd EXCEPT ![c] = d]
        /\ backlog > 0 /\ d \in FreeFds
        /\ UNCHANGED <<pendingFunctors_, functors, ran>>
    BY <1>2, LowestFree DEF NewConnection, ConnectEstablished
  <2>2. c \in Conns /\ d \in Fds /\ channels_[d] = NoConn
    BY <1>0, <2>1, NextIsConn, FreeNotWatched DEF FreeFds
  <2>3. state_[c] = "kConnecting" /\ fd[c] = NoFd
    BY <1>0, <2>2 DEF Counts, States, Conns
  <2> HIDE DEF c, d
  <2>4. ~Watched(c)
    BY <1>0, <2>2, <2>3 DEF Watches, Watched, Fds, NoFd, Conns, NoConn
  <2>5. \A x \in Conns : IsDue(x)' <=> IsDue(x)
    BY <2>1 DEF IsDue
  <2>6. \A x \in Conns : Watched(x)' <=> Watched(x) \/ x = c
    BY <1>0, <2>1, <2>2 DEF Watched, Conns, NoConn
  <2>7. \A e \in Fds : channels_'[e] # NoConn => fd'[channels_'[e]] = e
    BY <1>0, <2>1, <2>2, <2>4 DEF Watches, Watched
  <2> QED
    BY <1>0, <2>1, <2>4, <2>5, <2>6, <2>7 DEF Watches
<1>3. ASSUME NEW c \in Conns, Closes(c)
      PROVE  Watches'
  <2>1. c \in connections_
    BY <1>0, <1>3 DEF Closes, HandleHup, HandleEnd, Dispatch, Phases
  <2>2. /\ channels_' = channels_ /\ connections_' = connections_ \ {c} /\ Release({})
        /\ Appended(ConnectDestroyed(c))
    BY <1>3 DEF Closes, HandleHup, HandleEnd, HandleClose, RemoveConnection, Appended
  <2>3. \A x \in Conns : IsDue(x)' <=> IsDue(x) \/ x = c
    BY <1>0, <2>2, BecomesDue
  <2>4. \A x \in Conns : Watched(x)' <=> Watched(x)
    BY <2>2 DEF Watched
  <2>5. \A d \in Fds : channels_[d] # NoConn => Watched(channels_[d])
    BY DEF Watched
  <2>6. \A d \in Fds : channels_[d] # NoConn => fd'[channels_[d]] = fd[channels_[d]]
    BY <1>0, <2>2, <2>3, <2>5, ReleasedFds DEF Watches
  <2> QED
    BY <1>0, <2>1, <2>2, <2>3, <2>4, <2>6 DEF Watches
<1>4. ASSUME NEW S \in SUBSET Conns, ConnectionsDestroyed(S), connections_' = connections_ \ S,
             \A x \in Conns : IsDue(x)' <=> IsDue(x) /\ x \notin S,
             fd' = fd \/ Release({idleFd_})
      PROVE  Watches'
  <2>1. channels_' = [d \in Fds |-> IF channels_[d] \in S THEN NoConn ELSE channels_[d]]
    BY <1>4 DEF ConnectionsDestroyed
  <2>2. \A x \in Conns : Watched(x)' <=> Watched(x) /\ x \notin S
    BY <2>1 DEF Watched, Conns, NoConn
  <2>3. ASSUME NEW d \in Fds, channels_'[d] # NoConn
        PROVE  fd'[channels_'[d]] = d
    <3>0. channels_[d] \in Conns /\ channels_'[d] = channels_[d] /\ channels_[d] \notin S
      BY <1>0, <2>1, <2>3
    <3>1. PICK x \in Conns : x = channels_[d] /\ x = channels_'[d] /\ x \notin S
      BY <3>0
    <3>2. x # NoConn
      BY DEF Conns, NoConn
    <3>3. Watched(x)
      BY <3>1 DEF Watched
    <3>4. fd[x] = d
      BY <1>0, <3>1, <3>2 DEF Watches
    <3>5. x \in connections_' \/ IsDue(x)'
      BY <1>0, <1>4, <3>1, <3>3 DEF Watches
    <3> QED
      BY <1>4, <3>1, <3>4, <3>5, ReleasedFds
  <2> QED
    BY <1>0, <1>4, <2>2, <2>3 DEF Watches
<1>5. CASE RunConnectDestroyed
  <2> DEFINE c == functors[ran + 1].conn
  <2>1. c \notin connections_ /\ c \in Conns /\ \A x \in Conns : IsDue(x)' <=> IsDue(x) /\ x # c
    BY <1>0, <1>5, NextDestroyed, RunsWhenDue DEF Watches
  <2>2. ConnectionsDestroyed({c}) /\ connections_' = connections_ /\ fd' = fd
    BY <1>5 DEF RunConnectDestroyed
  <2> HIDE DEF c
  <2> QED
    BY <1>4, <2>1, <2>2
<1>6. CASE RunDestructor \/ DestroyOutside
  <2>1. ConnectionsDestroyed(connections_) /\ connections_' = {} /\ Release({idleFd_})
    BY <1>6 DEF RunDestructor, DestroyOutside, Destructor
  <2>2. ~RunConnectDestroyed /\ ~\E c \in Conns : Closes(c)
    BY <1>6 DEF RunDestructor, DestroyOutside, NextFunctor, RunConnectDestroyed, Closes,
                HandleHup, HandleEnd, Dispatch
  <2>3. \A x \in Conns : IsDue(x)' <=> IsDue(x)
    BY <1>0, <2>2, DueKept
  <2> QED
    BY <1>0, <1>4, <2>1, <2>3 DEF Watches
<1> QED
  BY <1>0, <1>1, <1>2, <1>3, <1>5, <1>6, ConnSteps, DueKept

-----------------------------------------------------------------------------
(* The server. *)

(* What start() has queued runs before the server goes. *)
LEMMA LifetimeStep ==
    ASSUME ServerInv, Step
    PROVE  Lifetime'
<1>0. /\ TypeOK /\ Phases /\ Lifetime
      /\ pendingFunctors_ \in Seq(Functor) /\ functors \in Seq(Functor) /\ ran \in Nat
  BY DEF ServerInv, Sound, TypeOK
<1>1. CASE \/ EnterLoop \/ LeaveLoop \/ AcceptFails
           \/ AcceptFatal \/ AcceptEMFILE \/ Shed \/ ShedClose \/ Reopen
           \/ MessageReturns
  BY <1>0, <1>1 DEF EnterLoop, LeaveLoop, AcceptFails,
              AcceptFatal, AcceptEMFILE, Shed, ShedClose, Reopen,
                    MessageReturns, Dispatch, Lifetime
<1>2. CASE PollReturns
  <2>1. AcceptChannel \in todo' => accepting
    BY <1>2 DEF PollReturns, AcceptChannel, Conns
  <2> QED
    BY <1>0, <1>2, <2>1 DEF PollReturns, Lifetime
<1>3. CASE NewConnection
  <2>1. server
    BY <1>0, <1>3 DEF NewConnection, Dispatch, Lifetime
  <2> QED
    BY <1>0, <1>3, <2>1 DEF NewConnection, Lifetime
<1>4. ASSUME NEW c \in Conns, Closes(c), Appended(ConnectDestroyed(c))
      PROVE  Lifetime'
  <2>1. /\ c \in connections_ /\ server' = server /\ dying' = dying /\ starting' = starting
        /\ accepting' = accepting /\ listenning_' = listenning_
        /\ functors' = functors /\ ran' = ran /\ server
    BY <1>0, <1>4 DEF Closes, HandleHup, HandleEnd, HandleClose, Dispatch, Phases, Lifetime
  <2>2. /\ ConnectDestroyed(c) \in Functor
        /\ ConnectDestroyed(c) # Listen /\ ConnectDestroyed(c) # Destroy
    BY QueuedFunctors, FunctorsApart
  <2> QED
    BY <1>0, <1>4, <2>1, <2>2, AppendedElements DEF Lifetime
<1>5. ASSUME NEW c \in Conns, HandleMessage(c) \/ HandleReadError(c)
      PROVE  Lifetime'
  BY <1>0, <1>5 DEF HandleMessage, HandleReadError, Dispatch, Lifetime
<1>6. CASE EndDispatch
  <2>1. functors' = pendingFunctors_ /\ pendingFunctors_' = <<>> /\ ran' = 0
    BY <1>0, <1>6, BatchBegins
  <2> QED
    BY <1>0, <1>6, <2>1 DEF EndDispatch, Lifetime
<1>7. CASE EndFunctors
  BY <1>0, <1>7 DEF EndFunctors, Lifetime
<1>8. CASE RunListen
  <2>1. ran + 1 \in DOMAIN functors /\ functors[ran + 1].op = "listen"
    BY <1>0, <1>8 DEF RunListen, NextFunctor
  <2>2. functors[ran + 1] = Listen
    BY <2>1, FunctorsApart DEF ServerInv, Queues, Queued
  <2>3. server
    BY <1>0, <2>1, <2>2 DEF Lifetime
  <2> QED
    BY <1>0, <1>8, <2>3 DEF RunListen, NextFunctor, Lifetime
<1>9. CASE RunConnectDestroyed
  BY <1>0, <1>9 DEF RunConnectDestroyed, NextFunctor, Lifetime
<1>10. CASE RunDestructor
  <2>1. ran + 1 \in DOMAIN functors /\ functors[ran + 1].op = "~TcpServer" /\ todo = {}
    BY <1>0, <1>10 DEF RunDestructor, NextFunctor, Phases
  <2>2. functors[ran + 1] = Destroy
    BY <2>1, FunctorsApart DEF ServerInv, Queues, Queued
  <2>3. /\ ~server' /\ dying' /\ ~accepting' /\ connections_' = {} /\ todo' = {}
        /\ ran' = ran + 1
        /\ UNCHANGED <<pendingFunctors_, functors, starting>>
    BY <1>10, <2>1 DEF RunDestructor, NextFunctor, Destructor
  <2>4. dying
    BY <1>0, <2>1, <2>2 DEF Lifetime
  <2>5. \A i \in DOMAIN functors : i > ran + 1 => functors[i] # Listen
    BY <1>0, <2>1, <2>2 DEF Lifetime
  <2>6. \A i \in DOMAIN pendingFunctors_ : pendingFunctors_[i] # Listen
    BY <1>0, <2>1, <2>2 DEF Lifetime
  <2> QED
    BY <1>0, <2>3, <2>4, <2>5, <2>6 DEF Lifetime
<1>11. CASE DestroyOutside
  <2>1. /\ ~server' /\ dying' /\ ~accepting' /\ connections_' = {} /\ todo' = {}
        /\ starting' = {} /\ functors = <<>>
        /\ UNCHANGED <<pendingFunctors_, functors, ran>>
    BY <1>0, <1>11 DEF DestroyOutside, Destructor, Phases
  <2>2. \A i \in DOMAIN pendingFunctors_ : pendingFunctors_[i] # Listen
    BY <1>11, FunctorsApart DEF DestroyOutside
  <2> QED
    BY <1>0, <2>1, <2>2 DEF Lifetime
<1>12. CASE StartInLoop \/ \E t \in Threads : ThreadStarts(t)
  BY <1>0, <1>12 DEF StartInLoop, ThreadStarts, Lifetime
<1>13. ASSUME NEW t \in Threads, ThreadQueuesListen(t), Appended(Listen)
       PROVE  Lifetime'
  <2>1. /\ UNCHANGED <<server, accepting, listenning_, connections_, todo, dying, functors, ran>>
        /\ starting' \subseteq starting
        /\ ~dying /\ server
    BY <1>0, <1>13 DEF ThreadQueuesListen, Lifetime
  <2>2. Listen \in Functor /\ Listen # Destroy
    BY QueuedFunctors, FunctorsApart
  <2> QED
    BY <1>0, <1>13, <2>1, <2>2, AppendedElements DEF Lifetime
<1>14. ASSUME QueueDestructor, Appended(Destroy)
       PROVE  Lifetime'
  <2>1. /\ UNCHANGED <<server, accepting, listenning_, connections_, todo, functors, ran>>
        /\ starting' = {} /\ dying' /\ ~dying /\ server
    BY <1>0, <1>14 DEF QueueDestructor, Lifetime
  <2>2. Destroy \in Functor /\ Listen # Destroy
    BY QueuedFunctors, FunctorsApart
  <2> QED
    BY <1>0, <1>14, <2>1, <2>2, AppendedElements DEF Lifetime
<1>15. CASE \/ OthersOpen \/ PeerConnects \/ PeerAborts
            \/ \E c \in Conns : ClientDrops(c) \/ PeerDoes(c)
            \/ \E d \in Fds : OthersClose(d)
  BY <1>0, <1>15 DEF ClientDrops, PeerDoes, OthersOpen, OthersClose, PeerConnects, PeerAborts,
                     Lifetime
<1>16. \A c \in Conns : Closes(c) => Appended(ConnectDestroyed(c))
  BY DEF Closes, HandleHup, HandleEnd, HandleClose, RemoveConnection, Appended
<1>17. /\ \A t \in Threads : ThreadQueuesListen(t) => Appended(Listen)
       /\ QueueDestructor => Appended(Destroy)
  BY DEF ThreadQueuesListen, QueueDestructor, Appended
<1> QED
  BY <1>1, <1>2, <1>3, <1>4, <1>5, <1>6, <1>7, <1>8, <1>9, <1>10, <1>11, <1>12, <1>13, <1>14,
     <1>15, <1>16, <1>17 DEF Step, LoopStep, Closes

(* Where every assertion holds, none fails. *)
LEMMA AllHold ==
    ASSUME NEW r, Assert(r), \A f \in DOMAIN r : r[f]
    PROVE  failed' = failed
BY DEF Assert

(* A step that fails nothing, and leaves alone what AssertionsHold tells. *)
NoneFails ==
    failed' = failed /\ server' = server /\ (server \/ listenning_' = listenning_)

(* No assertion fails but "ignored", and nothing that is gone is used. *)
LEMMA SoundStep ==
    ASSUME ServerInv, Step
    PROVE  AssertionsHold'
<1>0. /\ TypeOK /\ Queues /\ Phases /\ Counts /\ States /\ Watches /\ Lifetime
      /\ DescriptorsOwned /\ AssertionsHold
      /\ connections_ \subseteq Conns
      /\ channels_ \in [Fds -> Conns \cup {NoConn}] /\ fd \in [Conns -> Fds \cup {NoFd}]
  BY DEF ServerInv, Sound, TypeOK
<1>1. ASSUME \/ EnterLoop \/ LeaveLoop \/ PollReturns \/ AcceptFails \/ AcceptFatal
             \/ AcceptEMFILE \/ Shed \/ ShedClose \/ Reopen \/ MessageReturns
             \/ EndDispatch \/ EndFunctors
      PROVE  NoneFails
  BY <1>1 DEF EnterLoop, LeaveLoop, PollReturns, AcceptFails, AcceptFatal, AcceptEMFILE, Shed,
              ShedClose, Reopen, MessageReturns, EndDispatch, EndFunctors, NoneFails
<1>2. ASSUME NewConnection
      PROVE  NoneFails
  <2>1. Assert([updateChannel |-> channels_[Min(FreeFds)] = NoConn])
    BY <1>2 DEF NewConnection, ConnectEstablished
  <2>2. channels_[Min(FreeFds)] = NoConn
    BY <1>0, <1>2, LowestFree, FreeNotWatched DEF NewConnection
  <2>3. Assert([updateChannel |-> TRUE])
    BY <2>1, <2>2, Zenon
  <2>4. failed' = failed
    BY <2>3, AllHold
  <2> QED
    BY <1>2, <2>4 DEF NewConnection, NoneFails
<1>3. ASSUME NEW c \in Conns, Closes(c)
      PROVE  NoneFails
  <2>1. Assert(CloseAssertions(c)) /\ c \in connections_
    BY <1>0, <1>3 DEF Closes, HandleHup, HandleEnd, HandleClose, Dispatch, Phases
  <2>2. state_[c] = "kConnected" /\ server
    BY <1>0, <2>1 DEF States, Lifetime
  <2>3. /\ DOMAIN CloseAssertions(c) = {"handleClose", "removeConnection", "server"}
        /\ CloseAssertions(c).handleClose /\ CloseAssertions(c).removeConnection
        /\ CloseAssertions(c).server
    BY <2>1, <2>2 DEF CloseAssertions
  <2>4. \A f \in DOMAIN CloseAssertions(c) : CloseAssertions(c)[f]
    BY <2>3
  <2> QED
    BY <1>3, <2>1, <2>4, AllHold DEF Closes, HandleHup, HandleEnd, NoneFails
<1>4. ASSUME NEW c \in Conns, HandleMessage(c) \/ HandleReadError(c)
      PROVE  NoneFails
  BY <1>4 DEF HandleMessage, HandleReadError, NoneFails
<1>5. ASSUME RunListen
      PROVE  NoneFails
  <2>1. ran + 1 \in DOMAIN functors /\ functors[ran + 1].op = "listen" /\ ran \in Nat
    BY <1>0, <1>5 DEF RunListen, NextFunctor, TypeOK
  <2>2. functors[ran + 1] = Listen
    BY <1>0, <2>1, FunctorsApart DEF Queues, Queued
  <2>3. server
    BY <1>0, <2>1, <2>2 DEF Lifetime
  <2> QED
    BY <1>5, <2>3 DEF RunListen, Assert, NoneFails
<1>6. ASSUME NEW c \in Conns, c \in connections_ \/ IsDue(c)
      PROVE  fd[c] \in Fds /\ channels_[fd[c]] = c /\ (reading[c] => state_[c] = "kConnected")
  <2>1. PICK d \in Fds : channels_[d] = c
    BY <1>0, <1>6 DEF Watches, Watched
  <2>2. fd[c] = d
    BY <1>0, <2>1 DEF Watches, Conns, NoConn
  <2> QED
    BY <1>0, <2>1, <2>2 DEF States
<1>7. ASSUME RunConnectDestroyed
      PROVE  NoneFails
  <2> DEFINE c == functors[ran + 1].conn
  <2>1. c \in Conns /\ IsDue(c)
    BY <1>0, <1>7, NextDestroyed, RunsWhenDue
  <2>2. Assert(RemovalAssertions({c})) /\ ~EventHandling
    BY <1>7 DEF RunConnectDestroyed, NextFunctor, EventHandling
  <2> HIDE DEF c
  <2>3. failed' = failed
    BY <1>6, <2>1, <2>2 DEF Assert, RemovalAssertions, MayRemove
  <2> QED
    BY <1>7, <2>3 DEF RunConnectDestroyed, NoneFails
<1>8. CASE RunDestructor \/ DestroyOutside
  <2> DEFINE removal == RemovalAssertions(connections_)
  <2> DEFINE r == [remove |-> removal.remove,
                   removeChannel |-> removal.removeChannel /\ MayRemove(AcceptChannel),
                   ignored |-> accepting]
  <2>1. /\ Assert(r) /\ ~EventHandling
        /\ server /\ ~server' /\ listenning_' = listenning_
    BY <1>8 DEF RunDestructor, DestroyOutside, Destructor, NextFunctor, EventHandling
  <2>2. \A c \in connections_ : /\ fd[c] \in Fds /\ channels_[fd[c]] = c
                                /\ reading[c] => state_[c] = "kConnected"
    BY <1>0, <1>6
  <2>3. removal.remove
    BY <2>2 DEF RemovalAssertions
  <2>4. removal.removeChannel /\ MayRemove(AcceptChannel)
    BY <2>1, <2>2 DEF RemovalAssertions, MayRemove
  <2> HIDE DEF removal
  <2>5. /\ DOMAIN r = {"remove", "removeChannel", "ignored"}
        /\ r.remove /\ r.removeChannel /\ (r.ignored <=> accepting)
    BY <2>3, <2>4
  <2> HIDE DEF r
  <2>6. {f \in DOMAIN r : ~r[f]} = IF accepting THEN {} ELSE {"ignored"}
    BY <2>5
  <2>7. failed = {} /\ (accepting <=> listenning_)
    BY <1>0, <2>1 DEF AssertionsHold, Lifetime
  <2>8. failed' = IF accepting THEN {} ELSE {"ignored"}
    BY <2>1, <2>6, <2>7 DEF Assert
  <2> QED
    BY <2>1, <2>7, <2>8 DEF AssertionsHold
<1>9. ASSUME \/ StartInLoop \/ QueueDestructor \/ OthersOpen \/ PeerConnects \/ PeerAborts
             \/ \E t \in Threads : ThreadStarts(t) \/ ThreadQueuesListen(t)
             \/ \E c \in Conns : ClientDrops(c) \/ PeerDoes(c)
             \/ \E d \in Fds : OthersClose(d)
      PROVE  NoneFails
  BY <1>9 DEF StartInLoop, QueueDestructor, ThreadStarts, ThreadQueuesListen, ClientDrops,
              PeerDoes, OthersOpen, OthersClose, PeerConnects, PeerAborts, NoneFails
<1>10. NoneFails => AssertionsHold'
  BY <1>0 DEF NoneFails, AssertionsHold
<1> QED
  BY <1>1, <1>2, <1>3, <1>4, <1>5, <1>7, <1>8, <1>9, <1>10 DEF Step, LoopStep, Closes

-----------------------------------------------------------------------------
(* Descriptors. *)

IdleFds == IF phase \in {"shed", "reopen"} THEN {} ELSE {idleFd_} \ {NoFd}
ConnFds == {fd[c] : c \in Live}

(* DescriptorsOwned, with names for its parts. *)
LEMMA OwnedParts ==
    DescriptorsOwned <=>
        /\ openFds = IdleFds \cup ConnFds \cup others
        /\ IdleFds \cap (ConnFds \cup others) = {}
        /\ ConnFds \cap others = {}
        /\ \A c1, c2 \in Live : fd[c1] = fd[c2] => c1 = c2
BY DEF DescriptorsOwned, IdleFds, ConnFds

(* The same after the step. *)
LEMMA OwnedPartsAfter ==
    DescriptorsOwned' <=>
        /\ openFds' = IdleFds' \cup ConnFds' \cup others'
        /\ IdleFds' \cap (ConnFds' \cup others') = {}
        /\ ConnFds' \cap others' = {}
        /\ \A c1, c2 \in Live' : fd'[c1] = fd'[c2] => c1 = c2
BY DEF DescriptorsOwned, IdleFds, ConnFds

(* The destructors close the sockets of what they destroy. *)
LEMMA ReleaseOwned ==
    ASSUME TypeOK, DescriptorsOwned, NEW C \in SUBSET IdleFds, Release(C),
           IdleFds' = IdleFds \ C, others' = others
    PROVE  DescriptorsOwned'
<1>1. /\ openFds = IdleFds \cup ConnFds \cup others
      /\ IdleFds \cap (ConnFds \cup others) = {}
      /\ ConnFds \cap others = {}
      /\ \A c1, c2 \in Live : fd[c1] = fd[c2] => c1 = c2
  BY OwnedParts
<1>2. Live' = Live \cap Held' /\ \A c \in Live' : fd'[c] = fd[c]
  BY DEF Live, Release
<1>3. ConnFds' = ConnFds \ {fd[c] : c \in Live \ Held'}
  BY <1>1, <1>2 DEF ConnFds
<1>4. openFds' = (openFds \ C) \ {fd[c] : c \in Live \ Held'}
  BY DEF Release
<1>5. {fd[c] : c \in Live \ Held'} \subseteq ConnFds
  BY DEF ConnFds
<1>6. openFds' = IdleFds' \cup ConnFds' \cup others'
  BY <1>1, <1>3, <1>4, <1>5
<1>7. \A c1, c2 \in Live' : fd'[c1] = fd'[c2] => c1 = c2
  BY <1>1, <1>2
<1>8. IdleFds' \cap (ConnFds' \cup others') = {} /\ ConnFds' \cap others' = {}
  BY <1>1, <1>3
<1> QED
  BY <1>6, <1>7, <1>8, OwnedPartsAfter

(* One step per way in which a descriptor changes hands. *)
LEMMA OwnedStep ==
    ASSUME ServerInv, Step
    PROVE  DescriptorsOwned'
<1>0. /\ TypeOK /\ DescriptorsOwned /\ States /\ Counts
      /\ fd \in [Conns -> Fds \cup {NoFd}] /\ others \subseteq Fds /\ openFds \subseteq Fds
      /\ idleFd_ \in Fds \cup {NoFd}
      /\ NoFd \notin Fds /\ NoFd \notin openFds
  <2>1. NoFd \notin Fds
    BY DEF NoFd, Fds
  <2> QED
    BY <2>1 DEF ServerInv, Sound, TypeOK
<1>1. /\ openFds = IdleFds \cup ConnFds \cup others
      /\ IdleFds \cap (ConnFds \cup others) = {}
      /\ ConnFds \cap others = {}
      /\ \A c1, c2 \in Live : fd[c1] = fd[c2] => c1 = c2
  BY <1>0, OwnedParts
(* Nothing changes hands. *)
<1>2. ASSUME UNCHANGED <<fd, others, openFds>>, IdleFds' = IdleFds
      PROVE  DescriptorsOwned'
  BY <1>1, <1>2, OwnedPartsAfter DEF ConnFds, Live
<1>3. CASE \/ EnterLoop \/ LeaveLoop \/ PollReturns \/ AcceptFails \/ AcceptFatal
           \/ EndDispatch \/ RunListen \/ RunConnectDestroyed
  BY <1>2, <1>3 DEF EnterLoop, LeaveLoop, PollReturns, AcceptFails, AcceptFatal, EndDispatch,
              RunListen, RunConnectDestroyed, Dispatch, IdleFds
<1>4. ASSUME NEW c \in Conns, HandleMessage(c) \/ HandleReadError(c)
      PROVE  DescriptorsOwned'
  BY <1>2, <1>4 DEF HandleMessage, HandleReadError, Dispatch, IdleFds
<1>5. CASE \/ StartInLoop \/ QueueDestructor \/ PeerConnects \/ PeerAborts
           \/ \E t \in Threads : ThreadStarts(t) \/ ThreadQueuesListen(t)
           \/ \E c \in Conns : PeerDoes(c)
  BY <1>2, <1>5 DEF StartInLoop, QueueDestructor, ThreadStarts, ThreadQueuesListen, PeerDoes,
              PeerConnects, PeerAborts, IdleFds
(* Connections that nobody points to close their sockets. *)
<1>6. CASE MessageReturns \/ EndFunctors \/ \E c \in Conns : ClientDrops(c)
  <2>1. Release({}) /\ others' = others /\ IdleFds' = IdleFds
    BY <1>6 DEF MessageReturns, EndFunctors, ClientDrops, IdleFds
  <2> QED
    BY <1>0, <2>1, ReleaseOwned
<1>7. ASSUME NEW c \in Conns, Closes(c)
      PROVE  DescriptorsOwned'
  <2>1. Release({}) /\ others' = others /\ IdleFds' = IdleFds
    BY <1>7 DEF Closes, HandleHup, HandleEnd, IdleFds
  <2> QED
    BY <1>0, <2>1, ReleaseOwned
<1>8. CASE RunDestructor \/ DestroyOutside
  <2>1. /\ Release({idleFd_}) /\ others' = others /\ IdleFds' = {}
        /\ IdleFds = {idleFd_} \ {NoFd}
    BY <1>8 DEF RunDestructor, DestroyOutside, Destructor, NextFunctor, IdleFds
  <2>2. Release({idleFd_} \ {NoFd})
    BY <1>0, <2>1 DEF Release
  <2> QED
    BY <1>0, <2>1, <2>2, ReleaseOwned
(* A descriptor is taken, or given back. *)
<1>9. CASE NewConnection
  <2> DEFINE c == nextConnId_
  <2> DEFINE d == Min(FreeFds)
  <2>1. /\ fd' = [fd EXCEPT ![c] = d] /\ openFds' = openFds \cup {d} /\ others' = others
        /\ backlog > 0 /\ d \in FreeFds /\ IdleFds' = IdleFds
    BY <1>9, LowestFree DEF NewConnection, IdleFds
  <2>2. c \in Conns /\ fd[c] = NoFd /\ d \in Fds /\ d \notin openFds /\ d # NoFd
    BY <1>0, <2>1, NextIsConn DEF Counts, States, FreeFds, Conns
  <2> HIDE DEF c, d
  <2>3. Live' = Live \cup {c} /\ c \notin Live
    BY <1>0, <2>1, <2>2 DEF Live
  <2>4. \A x \in Live : fd'[x] = fd[x]
    BY <1>0, <2>1, <2>3 DEF Live
  <2>5. fd'[c] = d
    BY <1>0, <2>1, <2>2
  <2>6. ConnFds' = ConnFds \cup {d}
    BY <2>3, <2>4, <2>5 DEF ConnFds
  <2>7. \A x \in Live : fd[x] # d
    BY <1>1, <2>2 DEF ConnFds
  <2>8. \A c1, c2 \in Live' : fd'[c1] = fd'[c2] => c1 = c2
    BY <1>1, <2>3, <2>4, <2>5, <2>7
  <2> QED
    BY <1>1, <2>1, <2>2, <2>6, <2>8, OwnedPartsAfter
<1>10. ASSUME fd' = fd, NEW I, NEW O, IdleFds' = I, others' = O,
              openFds' = I \cup ConnFds \cup O, I \cap (ConnFds \cup O) = {}, ConnFds \cap O = {}
       PROVE  DescriptorsOwned'
  BY <1>1, <1>10, OwnedPartsAfter DEF ConnFds, Live
<1>11. CASE AcceptEMFILE
  <2>1. /\ fd' = fd /\ others' = others /\ openFds' = openFds \ {idleFd_}
        /\ IdleFds' = {} /\ IdleFds = {idleFd_} \ {NoFd}
    BY <1>11 DEF AcceptEMFILE, Dispatch, IdleFds
  <2> QED
    BY <1>0, <1>1, <1>10, <2>1
<1>12. CASE Shed
  <2>1. /\ fd' = fd /\ others' = others /\ IdleFds = {} /\ IdleFds' = {idleFd_'} \ {NoFd}
        /\ \/ idleFd_' \in FreeFds /\ openFds' = openFds \cup {idleFd_'}
           \/ idleFd_' = NoFd /\ openFds' = openFds
    BY <1>12, LowestFree DEF Shed, IdleFds
  <2> QED
    BY <1>0, <1>1, <1>10, <2>1 DEF FreeFds
<1>13. CASE ShedClose
  <2>1. /\ fd' = fd /\ others' = others /\ openFds' = openFds \ {idleFd_}
        /\ IdleFds' = {} /\ IdleFds = {idleFd_} \ {NoFd}
    BY <1>13 DEF ShedClose, IdleFds
  <2> QED
    BY <1>0, <1>1, <1>10, <2>1
<1>14. CASE Reopen
  <2>1. /\ fd' = fd /\ others' = others /\ IdleFds = {} /\ IdleFds' = {idleFd_'} \ {NoFd}
        /\ idleFd_' \in FreeFds \cup {NoFd} /\ openFds' = openFds \cup ({idleFd_'} \ {NoFd})
    BY <1>14, LowestFree DEF Reopen, IdleFds
  <2> QED
    BY <1>0, <1>1, <1>10, <2>1 DEF FreeFds
<1>15. CASE OthersOpen
  <2>1. /\ fd' = fd /\ IdleFds' = IdleFds /\ Min(FreeFds) \in FreeFds
        /\ others' = others \cup {Min(FreeFds)} /\ openFds' = openFds \cup {Min(FreeFds)}
    BY <1>15, LowestFree DEF OthersOpen, IdleFds
  <2> QED
    BY <1>0, <1>1, <1>10, <2>1 DEF FreeFds
<1>16. ASSUME NEW d \in Fds, OthersClose(d)
       PROVE  DescriptorsOwned'
  <2>1. /\ fd' = fd /\ IdleFds' = IdleFds /\ d \in others
        /\ others' = others \ {d} /\ openFds' = openFds \ {d}
    BY <1>16 DEF OthersClose, IdleFds
  <2> QED
    BY <1>0, <1>1, <1>10, <2>1
<1> QED
  BY <1>3, <1>4, <1>5, <1>6, <1>7, <1>8, <1>9, <1>11, <1>12, <1>13, <1>14, <1>15, <1>16
     DEF Step, LoopStep, Closes

-----------------------------------------------------------------------------
(* The invariant. *)

(* A server that was just constructed. *)
LEMMA InvInit ==
    ASSUME Init
    PROVE  ServerInv
<1> USE DEF Init
<1>1. MaxConns \in Nat /\ MaxFds \in Nat \ {0} /\ MaxStarts \in Nat /\ 1 \in Fds
  BY ServerAssumption DEF Fds
<1>2. LoopTypes /\ FunctorTypes
  BY DEF LoopTypes, FunctorTypes, NoChannel
<1>3. ServerTypes
  <2>1. idleFd_ \in Fds /\ nextConnId_ \in 1..(MaxConns + 1)
    BY <1>1
  <2> QED
    BY <2>1 DEF ServerTypes
<1>4. ConnTypes
  BY DEF ConnTypes
<1>5. WorldTypes
  BY <1>1 DEF WorldTypes, Sockets, NewSocket
<1>6. Sound
  BY <1>2, <1>3, <1>4, <1>5, TypesApart DEF Sound, AssertionsHold
<1>7. Queues /\ Phases /\ Lifetime
  BY DEF Queues, Phases, Lifetime
<1>8. Counts /\ States
  BY DEF Counts, States, Conns
<1>9. Watches
  BY DEF Watches, Watched, IsDue, Conns, NoConn
<1>10. Live = {}
  BY DEF Live
<1>11. IdleFds = {1}
  BY DEF IdleFds, NoFd
<1>12. ConnFds = {}
  BY <1>10 DEF ConnFds
<1>13. DescriptorsOwned
  BY <1>10, <1>11, <1>12, OwnedParts
<1> QED
  BY <1>6, <1>7, <1>8, <1>9, <1>13 DEF ServerInv

(* Every step keeps the invariant. *)
LEMMA InvStep ==
    ASSUME ServerInv, [Next]_vars
    PROVE  ServerInv'
<1>1. CASE Step
  <2>0. AssertionsHold /\ AssertionsHold'
    BY <1>1, SoundStep DEF ServerInv, Sound
  <2>1. failed \subseteq {"ignored"} /\ failed' \subseteq {"ignored"}
    BY <2>0 DEF AssertionsHold
  <2>2. /\ TypeOK /\ Queues /\ Phases /\ Counts
        /\ LoopTypes /\ FunctorTypes /\ ServerTypes /\ ConnTypes /\ WorldTypes
    BY <2>1, TypesApart DEF ServerInv, Sound
  <2>3. LoopTypes' /\ FunctorTypes' /\ ServerTypes' /\ ConnTypes' /\ WorldTypes'
    BY <1>1, <2>2, LoopTypesStep, FunctorTypesStep, ServerTypesStep, ConnTypesStep, WorldTypesStep
  <2>4. TypeOK'
    BY <2>1, <2>3 DEF TypeOK, LoopTypes, FunctorTypes, ServerTypes, ConnTypes, WorldTypes
  <2> QED
    BY <1>1, <2>0, <2>4, QueuesStep, PhasesStep, CountsStep, StatesStep, WatchesStep, LifetimeStep,
       OwnedStep DEF ServerInv, Sound
<1>2. CASE UNCHANGED vars
  <2>1. Sound'
    BY <1>2 DEF ServerInv, Sound, TypeOK, AssertionsHold
  <2>2. Queues' /\ Phases' /\ Counts' /\ States' /\ Lifetime'
    BY <1>2 DEF ServerInv, Queues, Phases, Counts, States, Lifetime
  <2>3. Watches' /\ DescriptorsOwned'
    BY <1>2 DEF ServerInv, Watches, Watched, IsDue, DescriptorsOwned, Live
  <2> QED
    BY <2>1, <2>2, <2>3 DEF ServerInv
<1> QED
  BY <1>1, <1>2 DEF Next, Terminated

(***************************************************************************)
(* For any number of clients, descriptors and threads, no assertion of     *)
(* handleClose, removeConnection, Channel::remove, removeChannel and the   *)
(* poller fails, and no functor reaches a server that is gone, with one    *)
(* exception: PollPoller.cpp:118 fails when a server is destroyed that has *)
(* never listened, and only then.                                          *)
(***************************************************************************)
THEOREM AssertionsNeverFail == Spec => []Sound
<1>1. Init => ServerInv
  BY InvInit
<1>2. ServerInv /\ [Next]_vars => ServerInv'
  BY InvStep
<1>3. ServerInv => Sound
  BY DEF ServerInv
<1> QED
  BY <1>1, <1>2, <1>3, PTL DEF Spec

(***************************************************************************)
(* Whatever threads open, close and drop between the steps of the EMFILE   *)
(* branch of Acceptor::handleRead and of the loop, every open descriptor   *)
(* has one owner, and what the poller and the round point to is alive.     *)
(***************************************************************************)
THEOREM DescriptorsHaveOneOwner == Spec => []Ownership
<1>1. Init => ServerInv
  BY InvInit
<1>2. ServerInv /\ [Next]_vars => ServerInv'
  BY InvStep
<1>3. ASSUME ServerInv
      PROVE  Ownership
  <2>1. ASSUME NEW c \in Conns, c \in connections_
        PROVE  c \in Live
    <3>1. PICK d \in Fds : channels_[d] = c
      BY <1>3, <2>1 DEF ServerInv, Watches, Watched
    <3>2. c # NoConn /\ d # NoFd
      BY DEF Conns, NoConn, Fds, NoFd
    <3> QED
      BY <1>3, <3>1, <3>2 DEF ServerInv, Watches, Live
  <2>2. todo \cap Conns \subseteq Live
    BY <1>3, <2>1 DEF ServerInv, Phases
  <2> QED
    BY <1>3, <2>2 DEF ServerInv, Ownership, WatchedAreLive, Watches
<1> QED
  BY <1>1, <1>2, <1>3, PTL DEF Spec

(* A connectDestroyed is queued once, in the queue or in the batch. *)
LEMMA DueOnce ==
    ASSUME ServerInv, NEW c \in Conns
    PROVE  /\ IsDue(c) => Cardinality(Destructions(c)) = 1 /\ phase \notin {"out", "poll"}
           /\ ~IsDue(c) => Cardinality(Destructions(c)) = 0
<1> DEFINE P == {j \in DOMAIN pendingFunctors_ : pendingFunctors_[j] = ConnectDestroyed(c)}
<1> DEFINE B == {j \in DOMAIN functors : j > ran /\ functors[j] = ConnectDestroyed(c)}
<1>1. Destructions(c) = {<<"pending", i>> : i \in P} \cup {<<"batch", i>> : i \in B}
  BY DEF Destructions
<1>2. IsDue(c) <=> P # {} \/ B # {}
  BY DEF IsDue
<1>3. (\A i, j \in P : i = j) /\ (\A i, j \in B : i = j)
  BY DEF ServerInv, Queues
<1>4. P = {} \/ B = {}
  BY DEF ServerInv, Phases
<1>5. phase \in {"out", "poll"} => P = {} /\ B = {}
  BY DEF ServerInv, Phases
<1> HIDE DEF P, B
<1>6. CASE P = {} /\ B = {}
  <2>1. Destructions(c) = {}
    BY <1>1, <1>6
  <2> QED
    BY <1>2, <1>6, <2>1, FS_EmptySet
<1>7. CASE \E i \in P : TRUE
  <2>1. PICK i \in P : P = {i}
    BY <1>3, <1>7
  <2>2. Destructions(c) = {<<"pending", i>>}
    BY <1>1, <1>4, <2>1
  <2> QED
    BY <1>2, <1>5, <2>1, <2>2, FS_Singleton
<1>8. CASE \E i \in B : TRUE
  <2>1. PICK i \in B : B = {i}
    BY <1>3, <1>8
  <2>2. Destructions(c) = {<<"batch", i>>}
    BY <1>1, <1>4, <2>1
  <2> QED
    BY <1>2, <1>5, <2>1, <2>2, FS_Singleton
<1> QED
  BY <1>6, <1>7, <1>8

(***************************************************************************)
(* However a connection ends, by its peer, by an error or by ~TcpServer,   *)
(* it is reported up once and down once, and connectDestroyed is called    *)
(* once, before loop() returns.                                            *)
(***************************************************************************)
THEOREM ConnectionsEndOnce == Spec => []Lifecycle
<1>1. Init => ServerInv
  BY InvInit
<1>2. ServerInv /\ [Next]_vars => ServerInv'
  BY InvStep
<1>3. ASSUME ServerInv
      PROVE  Lifecycle
  <2>1. ASSUME NEW c \in Conns
        PROVE  \/ state_[c] = "kConnecting" /\ told[c] = 0
               \/ state_[c] = "kConnected" /\ told[c] = 1 /\ c \in Live
               \/ state_[c] = "kDisconnected" /\ told[c] = 2
    <3>1. state_[c] \in {"kConnecting", "kConnected", "kDisconnected"}
      BY <1>3 DEF ServerInv, Sound, TypeOK
    <3>2. ASSUME state_[c] = "kConnected"
          PROVE  c \in Live
      <4>1. PICK d \in Fds : channels_[d] = c
        BY <1>3, <3>2 DEF ServerInv, States, Watches, Watched
      <4>2. c # NoConn /\ d # NoFd
        BY DEF Conns, NoConn, Fds, NoFd
      <4> QED
        BY <1>3, <4>1, <4>2 DEF ServerInv, Watches, Live
    <3> QED
      BY <1>3, <3>1, <3>2 DEF ServerInv, States
  <2>2. ASSUME NEW c \in Conns
        PROVE  LET watched == \E d \in Fds : channels_[d] = c
                   due == Cardinality(Destructions(c))
               IN  /\ watched <=> (c \in connections_ \/ due > 0)
                   /\ due <= 1
                   /\ due = 1 => c \notin connections_ /\ ~reading[c]
                   /\ due = 1 => phase \notin {"out", "poll"}
    <3>1. Watched(c) <=> (c \in connections_ \/ IsDue(c))
      BY <1>3 DEF ServerInv, Watches
    <3>2. IsDue(c) => c \notin connections_ /\ ~reading[c]
      BY <1>3 DEF ServerInv, Watches, States
    <3> QED
      BY <1>3, <3>1, <3>2, DueOnce DEF Watched
  <2> QED
    BY <2>1, <2>2 DEF Lifecycle, UpThenDown, DestroyedOnce
<1> QED
  BY <1>1, <1>2, <1>3, PTL DEF Spec
=============================================================================

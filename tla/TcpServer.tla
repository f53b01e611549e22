------------------------------ MODULE TcpServer ------------------------------
(***************************************************************************)
(* net/TcpServer.cpp with the net/Acceptor.cpp and the                     *)
(* net/TcpConnection.cpp objects it owns, on one event loop: clients       *)
(* connect, send, close and reset; other threads call start(), open and    *)
(* close descriptors, and drop the TcpConnectionPtr they were given.       *)
(*                                                                         *)
(* The loop is the one EventLoop specifies, with its functors in a FIFO    *)
(* queue.  phase is where its thread is:                                   *)
(*   "out"       not inside loop()                                         *)
(*   "poll"      in the poller                                             *)
(*   "dispatch"  between two active channels                               *)
(*   "message"   inside messageCallback_                                   *)
(*   "shed", "shedclose", "reopen"                                         *)
(*               inside the EMFILE branch of Acceptor::handleRead          *)
(*   "functors"  between two pending functors                              *)
(*   "aborted"   the process has ended in LOG_FATAL                        *)
(*                                                                         *)
(* A connection is the number it gets from nextConnId_.  Its object lives  *)
(* as long as something holds a TcpConnectionPtr: connections_, a functor, *)
(* a client (kept), or the guard of Channel::handleEvent.                  *)
(***************************************************************************)
EXTENDS Integers, Sequences, FiniteSets, FiniteSetsExt

CONSTANTS
    MaxConns,       \* clients that ever connect
    MaxFds,         \* descriptors the process may still open
    MaxOthers,      \* descriptors the rest of the process opens, at most
    Threads,        \* threads that call start()
    MaxStarts       \* calls of start()

ASSUME ServerAssumption ==
    /\ MaxConns \in Nat
    /\ MaxFds \in Nat \ {0}
    /\ MaxOthers \in Nat
    /\ MaxStarts \in Nat

Conns == 1..MaxConns
AcceptChannel == 0
AllChannels == Conns \cup {AcceptChannel}
NoChannel == -1
Fds == 1..MaxFds
NoFd == 0                   \* the -1 of a failed open or accept
NoConn == 0

VARIABLES
    phase,
    activeChannels_,
    todo,                   \* active channels still to be dispatched
    currentActiveChannel_,
    revents_,               \* of the active connections
    pendingFunctors_,
    functors,               \* the batch of doPendingFunctors ...
    ran,                    \* ... and how many of it have run
    server,                 \* the TcpServer object exists
    listenning_,
    accepting,              \* acceptChannel_ is enabled for reading
    idleFd_,
    nextConnId_,
    connections_,
    state_,                 \* of each connection, "kConnecting" before its life
    fd,                     \* of each connection object, NoFd outside its life
    reading,                \* its channel is enabled for reading
    channels_,              \* the poller's map from descriptor to channel
    told,                   \* calls of connectionCallback_ for it
    kept,                   \* connections a client holds a pointer to
    backlog,                \* clients the kernel has connected
    clients,                \* clients that have come so far
    sock,                   \* what each connection's socket holds
    openFds,                \* descriptors open in the kernel
    others,                 \* descriptors that belong to the rest of the process
    starting,               \* threads between the two halves of start()
    starts,                 \* calls of start() made
    dying,                  \* the server's destruction has been queued
    failed                  \* assertions, or uses of a dead object, so far

roundVars == <<activeChannels_, todo, currentActiveChannel_, revents_>>
loopVars == <<phase, roundVars>>
functorVars == <<pendingFunctors_, functors, ran>>
acceptVars == <<server, listenning_, accepting>>
tableVars == <<nextConnId_, connections_>>
serverVars == <<acceptVars, idleFd_, tableVars>>
lifeVars == <<state_, reading, channels_, told>>
connVars == <<lifeVars, fd>>
objectVars == <<serverVars, connVars, kept>>
netVars == <<backlog, clients, sock>>
kernelVars == <<netVars, openFds>>
startVars == <<starting, starts, dying>>
clientVars == <<others, startVars>>
worldVars == <<kernelVars, clientVars, failed>>
vars == <<loopVars, functorVars, objectVars, worldVars>>

Functor == [op : {"listen", "connectDestroyed", "~TcpServer"},
            conn : Conns \cup {NoConn}]
Listen == [op |-> "listen", conn |-> NoConn]
Destroy == [op |-> "~TcpServer", conn |-> NoConn]
ConnectDestroyed(c) == [op |-> "connectDestroyed", conn |-> c]

(* A socket: unread bytes, and whether the peer has gone.  After a reset   *)
(* the error is reported once, by read() or by SO_ERROR.                   *)
Sockets == [data : BOOLEAN, peer : {"open", "fin", "rst", "dead"}]
NewSocket == [data |-> FALSE, peer |-> "open"]

TypeOK ==
    /\ phase \in {"out", "poll", "dispatch", "message", "shed", "shedclose",
                  "reopen", "functors", "aborted"}
    /\ activeChannels_ \subseteq AllChannels /\ todo \subseteq activeChannels_
    /\ currentActiveChannel_ \in AllChannels \cup {NoChannel}
    /\ revents_ \in [Conns -> SUBSET {"IN", "HUP", "ERR"}]
    /\ {pendingFunctors_, functors} \subseteq Seq(Functor)
    /\ ran \in 0..Len(functors)
    /\ {server, listenning_, accepting, dying} \subseteq BOOLEAN
    /\ idleFd_ \in Fds \cup {NoFd}
    /\ nextConnId_ \in 1..(MaxConns + 1)
    /\ connections_ \cup kept \subseteq Conns
    /\ state_ \in [Conns -> {"kConnecting", "kConnected", "kDisconnected"}]
    /\ fd \in [Conns -> Fds \cup {NoFd}]
    /\ reading \in [Conns -> BOOLEAN]
    /\ channels_ \in [Fds -> Conns \cup {NoConn}]
    /\ told \in [Conns -> Nat]
    /\ {backlog, clients} \subseteq 0..MaxConns
    /\ sock \in [Conns -> Sockets]
    /\ openFds \cup others \subseteq Fds
    /\ starting \subseteq Threads
    /\ starts \in 0..MaxStarts
    /\ failed \subseteq {"handleClose", "removeConnection", "remove",
                         "removeChannel", "updateChannel", "listen", "server",
                         "ignored"}

(* A TcpServer has been constructed, and with it the Acceptor and its      *)
(* spare descriptor; loop() has not been called.                           *)
Init ==
    /\ phase = "out"
    /\ activeChannels_ = {} /\ todo = {} /\ currentActiveChannel_ = NoChannel
    /\ revents_ = [c \in Conns |-> {}]
    /\ pendingFunctors_ = <<>> /\ functors = <<>> /\ ran = 0
    /\ server = TRUE /\ listenning_ = FALSE /\ accepting = FALSE
    /\ idleFd_ = 1
    /\ nextConnId_ = 1 /\ connections_ = {}
    /\ state_ = [c \in Conns |-> "kConnecting"]
    /\ fd = [c \in Conns |-> NoFd]
    /\ reading = [c \in Conns |-> FALSE]
    /\ channels_ = [d \in Fds |-> NoConn]
    /\ told = [c \in Conns |-> 0]
    /\ kept = {}
    /\ backlog = 0 /\ clients = 0
    /\ sock = [c \in Conns |-> NewSocket]
    /\ openFds = {1} /\ others = {}
    /\ starting = {} /\ starts = 0 /\ dying = FALSE
    /\ failed = {}

-----------------------------------------------------------------------------
(* Reference counts and descriptors. *)

ConnsIn(fs) == {f.conn : f \in {fs[i] : i \in DOMAIN fs}} \ {NoConn}

(* The connections something still points to. *)
Held ==
    connections_ \cup kept \cup ConnsIn(pendingFunctors_) \cup ConnsIn(functors)
        \cup (IF phase = "message" THEN {currentActiveChannel_} ELSE {})

Live == {c \in Conns : fd[c] # NoFd}

FreeFds == Fds \ openFds

(* The destructors of the connections that the step leaves unreferenced;   *)
(* each closes its socket, and the step itself the descriptors of closing. *)
Release(closing) ==
    /\ fd' = [c \in Conns |-> IF c \in Held' THEN fd[c] ELSE NoFd]
    /\ openFds' = (openFds \ closing) \ {fd[c] : c \in Live \ Held'}

(* A callback hands a TcpConnectionPtr to the client, who may copy it. *)
Handed(S) == \E k \in SUBSET S : kept' = kept \cup k

(* Record the assertions that a step fails. *)
Assert(failures) ==
    failed' = failed \cup {f \in DOMAIN failures : ~failures[f]}

EventHandling == phase \notin {"out", "poll", "functors"}

-----------------------------------------------------------------------------
(* The loop. *)

EnterLoop ==
    /\ phase = "out"
    /\ phase' = "poll"
    /\ UNCHANGED <<roundVars, functorVars, objectVars, worldVars>>

(* quit_ was found set at the test of the while. *)
LeaveLoop ==
    /\ phase = "poll"
    /\ phase' = "out"
    /\ UNCHANGED <<roundVars, functorVars, objectVars, worldVars>>

(* The events that poll can report for a socket; POLLRDHUP is not among    *)
(* them, since no channel asks for it.                                     *)
Reported(s) ==
    LET asked == IF s.data \/ s.peer = "fin" THEN {{"IN"}} ELSE {{"IN"}, {}}
        unasked == (IF s.peer \in {"rst", "dead"} THEN {"HUP"} ELSE {})
                       \cup (IF s.peer = "rst" THEN {"ERR"} ELSE {})
    IN  {e \cup unasked : e \in asked}

Interesting(c) == reading[c] /\ (sock[c].data \/ sock[c].peer # "open")

(* poll() returns, for events, a wakeup or its timeout. *)
PollReturns ==
    /\ phase = "poll"
    /\ LET conns == {c \in Conns : Interesting(c)}
           S == conns \cup (IF accepting /\ backlog > 0
                            THEN {AcceptChannel} ELSE {})
       IN  /\ activeChannels_' = S
           /\ todo' = S
           /\ revents_' \in {r \in [Conns -> SUBSET {"IN", "HUP", "ERR"}] :
                                \A c \in Conns :
                                    IF c \in conns THEN r[c] \in Reported(sock[c])
                                                   ELSE r[c] = {}}
    /\ phase' = "dispatch"
    /\ UNCHANGED <<currentActiveChannel_, functorVars, objectVars, worldVars>>

(* The next channel of the for. *)
Dispatch(c) ==
    /\ phase = "dispatch"
    /\ c \in todo
    /\ todo' = todo \ {c}
    /\ currentActiveChannel_' = c
    /\ UNCHANGED <<activeChannels_, revents_>>

(* The for is over; doPendingFunctors takes the queue. *)
EndDispatch ==
    /\ phase = "dispatch"
    /\ todo = {}
    /\ phase' = "functors"
    /\ currentActiveChannel_' = NoChannel
    /\ functors' = pendingFunctors_
    /\ pendingFunctors_' = <<>>
    /\ UNCHANGED <<activeChannels_, todo, revents_, ran, objectVars,
                   worldVars>>

(* doPendingFunctors returns and its vector dies, with the pointers in it. *)
EndFunctors ==
    /\ phase = "functors"
    /\ ran = Len(functors)
    /\ phase' = "poll"
    /\ functors' = <<>>
    /\ ran' = 0
    /\ UNCHANGED <<roundVars, pendingFunctors_, serverVars, lifeVars, kept,
                   netVars, clientVars, failed>>
    /\ Release({})

-----------------------------------------------------------------------------
(* Acceptor::handleRead *)

(* connectEstablished: up, tied, enabled, connectionCallback_. *)
ConnectEstablished(c, d) ==
    /\ Assert([updateChannel |-> channels_[d] = NoConn])
    /\ state_' = [state_ EXCEPT ![c] = "kConnected"]
    /\ reading' = [reading EXCEPT ![c] = TRUE]
    /\ channels_' = [channels_ EXCEPT ![d] = c]
    /\ told' = [told EXCEPT ![c] = @ + 1]
    /\ Handed({c})

(* accept() succeeds: TcpServer::newConnection. *)
NewConnection ==
    /\ Dispatch(AcceptChannel)
    /\ backlog > 0
    /\ FreeFds # {}
    /\ LET c == nextConnId_
           d == Min(FreeFds)
       IN  /\ nextConnId_' = c + 1
           /\ fd' = [fd EXCEPT ![c] = d]
           /\ openFds' = openFds \cup {d}
           /\ connections_' = connections_ \cup {c}
           /\ ConnectEstablished(c, d)
    /\ backlog' = backlog - 1
    /\ UNCHANGED <<phase, functorVars, acceptVars, idleFd_, clients, sock,
                   clientVars>>

(* accept() fails because the client has given up meanwhile. *)
AcceptFails ==
    /\ Dispatch(AcceptChannel)
    /\ backlog = 0
    /\ UNCHANGED <<phase, functorVars, objectVars, worldVars>>

(* accept() fails with an errno that it does not expect, such as ENFILE,   *)
(* ENOBUFS or ENOMEM: LOG_FATAL ends the process.                          *)
AcceptFatal ==
    /\ Dispatch(AcceptChannel)
    /\ phase' = "aborted"
    /\ UNCHANGED <<functorVars, objectVars, worldVars>>

(* Mutant: EMFILE is not handled. *)
AcceptEMFILEIgnored ==
    /\ Dispatch(AcceptChannel)
    /\ backlog > 0
    /\ FreeFds = {}
    /\ UNCHANGED <<phase, functorVars, objectVars, worldVars>>

(* accept() fails with EMFILE: the spare descriptor is closed ... *)
AcceptEMFILE ==
    /\ Dispatch(AcceptChannel)
    /\ backlog > 0
    /\ FreeFds = {}
    /\ phase' = "shed"
    /\ openFds' = openFds \ {idleFd_}
    /\ UNCHANGED <<functorVars, objectVars, netVars, clientVars, failed>>

(* Mutant: idleFd_ keeps its old value when accept() fails. *)
ShedKeepsStale ==
    /\ phase = "shed"
    /\ phase' = "shedclose"
    /\ IF backlog > 0 /\ FreeFds # {}
       THEN /\ idleFd_' = Min(FreeFds)
            /\ openFds' = openFds \cup {idleFd_'}
            /\ backlog' = backlog - 1
       ELSE UNCHANGED <<idleFd_, openFds, backlog>>
    /\ UNCHANGED <<roundVars, functorVars, acceptVars, tableVars, connVars,
                   kept, clients, sock, clientVars, failed>>

(* ... its place taken by the client, unless another thread is faster ... *)
Shed ==
    /\ phase = "shed"
    /\ phase' = "shedclose"
    /\ IF backlog > 0 /\ FreeFds # {}
       THEN /\ idleFd_' = Min(FreeFds)
            /\ openFds' = openFds \cup {idleFd_'}
            /\ backlog' = backlog - 1
       ELSE /\ idleFd_' = NoFd
            /\ UNCHANGED <<backlog, openFds>>
    /\ UNCHANGED <<roundVars, functorVars, acceptVars, tableVars, connVars,
                   kept, clients, sock, clientVars, failed>>

(* ... who is turned away ... *)
ShedClose ==
    /\ phase = "shedclose"
    /\ phase' = "reopen"
    /\ openFds' = openFds \ {idleFd_}
    /\ UNCHANGED <<roundVars, functorVars, objectVars, netVars, clientVars,
                   failed>>

(* ... and the spare descriptor opened again, if there is one. *)
Reopen ==
    /\ phase = "reopen"
    /\ phase' = "dispatch"
    /\ idleFd_' = IF FreeFds = {} THEN NoFd ELSE Min(FreeFds)
    /\ openFds' = openFds \cup ({idleFd_'} \ {NoFd})
    /\ UNCHANGED <<roundVars, functorVars, acceptVars, tableVars, connVars,
                   kept, netVars, clientVars, failed>>

-----------------------------------------------------------------------------
(* TcpConnection *)

(* connectDestroyed of the connections in S: a connection that is still up *)
(* goes down now; then its channel leaves the poller.                      *)
ConnectionsDestroyed(S) ==
    LET up == {c \in S : state_[c] = "kConnected"}
    IN  /\ state_' = [c \in Conns |-> IF c \in up THEN "kDisconnected"
                                                ELSE state_[c]]
        /\ reading' = [c \in Conns |-> reading[c] /\ c \notin up]
        /\ told' = [c \in Conns |-> IF c \in up THEN told[c] + 1 ELSE told[c]]
        /\ channels_' = [d \in Fds |-> IF channels_[d] \in S THEN NoConn
                                                         ELSE channels_[d]]
        /\ Handed(up)

(* What Channel::remove, EventLoop::removeChannel and the poller assert    *)
(* when the channels in S are removed.                                     *)
MayRemove(c) ==
    EventHandling => c = currentActiveChannel_ \/ c \notin activeChannels_

RemovalAssertions(S) ==
    [remove |-> \A c \in S : reading[c] => state_[c] = "kConnected",
     removeChannel |-> \A c \in S : /\ MayRemove(c)
                                    /\ fd[c] \in Fds
                                    /\ channels_[fd[c]] = c]

(* TcpServer::removeConnection leaves the rest to a functor, because the   *)
(* channel is still handling its event.                                    *)
RemoveConnection(c) ==
    /\ connections_' = connections_ \ {c}
    /\ pendingFunctors_' = Append(pendingFunctors_, ConnectDestroyed(c))

CloseAssertions(c) ==
    [handleClose |-> state_[c] = "kConnected",
     removeConnection |-> c \in connections_,
     server |-> server]

(* Mutant: the channel is not disabled. *)
HandleCloseEnabled(c) ==
    /\ Assert(CloseAssertions(c))
    /\ state_' = [state_ EXCEPT ![c] = "kDisconnected"]
    /\ told' = [told EXCEPT ![c] = @ + 1]
    /\ Handed({c})
    /\ RemoveConnection(c)
    /\ UNCHANGED <<reading, channels_>>

(* handleClose: down, disabled, connectionCallback_, closeCallback_. *)
HandleClose(c) ==
    /\ Assert(CloseAssertions(c))
    /\ state_' = [state_ EXCEPT ![c] = "kDisconnected"]
    /\ reading' = [reading EXCEPT ![c] = FALSE]
    /\ told' = [told EXCEPT ![c] = @ + 1]
    /\ Handed({c})
    /\ RemoveConnection(c)
    /\ UNCHANGED channels_

(* handleError, or a read() that fails, takes the error of the socket. *)
ErrorTaken(s) == [s EXCEPT !.peer = IF @ = "rst" THEN "dead" ELSE @]

(* handleEventWithGuard: POLLERR calls handleError before the read. *)
SocketAtRead(c) ==
    IF "ERR" \in revents_[c] THEN ErrorTaken(sock[c]) ELSE sock[c]

(* Mutant: POLLHUP with POLLIN closes too, and the read comes after. *)
HandleHupAndRead(c) ==
    /\ phase = "dispatch"
    /\ c \in todo
    /\ "HUP" \in revents_[c]
    /\ todo' = IF "IN" \in revents_[c] THEN todo ELSE todo \ {c}
    /\ revents_' = [revents_ EXCEPT ![c] = @ \ {"HUP"}]
    /\ currentActiveChannel_' = c
    /\ HandleClose(c)
    /\ UNCHANGED <<activeChannels_, phase, functors, ran, acceptVars, idleFd_,
                   nextConnId_, netVars, clientVars>>
    /\ Release({})

(* POLLHUP without POLLIN: closeCallback_, and errorCallback_ on POLLERR. *)
HandleHup(c) ==
    /\ Dispatch(c)
    /\ "IN" \notin revents_[c]
    /\ "HUP" \in revents_[c]
    /\ HandleClose(c)
    /\ sock' = [sock EXCEPT ![c] = SocketAtRead(c)]
    /\ UNCHANGED <<phase, functors, ran, acceptVars, idleFd_, nextConnId_,
                   backlog, clients, clientVars>>
    /\ Release({})

(* handleRead with n > 0: all there is goes to messageCallback_ ... *)
HandleMessage(c) ==
    /\ Dispatch(c)
    /\ "IN" \in revents_[c]
    /\ sock[c].data
    /\ sock' = [sock EXCEPT ![c] = [SocketAtRead(c) EXCEPT !.data = FALSE]]
    /\ Handed({c})
    /\ phase' = "message"
    /\ UNCHANGED <<functorVars, serverVars, connVars, backlog, clients,
                   openFds, clientVars, failed>>

(* ... which returns; the guard of handleEvent is given up. *)
MessageReturns ==
    /\ phase = "message"
    /\ phase' = "dispatch"
    /\ UNCHANGED <<roundVars, functorVars, serverVars, lifeVars, kept,
                   netVars, clientVars, failed>>
    /\ Release({})

(* Mutant: the end of the stream is ignored. *)
HandleEndIgnored(c) ==
    /\ Dispatch(c)
    /\ "IN" \in revents_[c]
    /\ ~sock[c].data
    /\ SocketAtRead(c).peer \in {"fin", "dead"}
    /\ sock' = [sock EXCEPT ![c] = SocketAtRead(c)]
    /\ UNCHANGED <<phase, functorVars, objectVars, backlog, clients, openFds,
                   clientVars, failed>>

(* handleRead with n = 0. *)
HandleEnd(c) ==
    /\ Dispatch(c)
    /\ "IN" \in revents_[c]
    /\ ~sock[c].data
    /\ SocketAtRead(c).peer \in {"fin", "dead"}
    /\ HandleClose(c)
    /\ sock' = [sock EXCEPT ![c] = SocketAtRead(c)]
    /\ UNCHANGED <<phase, functors, ran, acceptVars, idleFd_, nextConnId_,
                   backlog, clients, clientVars>>
    /\ Release({})

(* handleRead with n < 0, for a reset that came after the poll: handleError *)
(* only logs, and the next poll reports the hang-up.                        *)
HandleReadError(c) ==
    /\ Dispatch(c)
    /\ "IN" \in revents_[c]
    /\ ~sock[c].data
    /\ SocketAtRead(c).peer = "rst"
    /\ sock' = [sock EXCEPT ![c] = ErrorTaken(sock[c])]
    /\ UNCHANGED <<phase, functorVars, objectVars, backlog, clients, openFds,
                   clientVars, failed>>

-----------------------------------------------------------------------------
(* TcpServer: destruction, and the functors. *)

(* ~TcpServer, on the loop's thread: connectDestroyed of every connection, *)
(* then ~Acceptor, which removes its channel and closes its descriptors.   *)
(* "ignored" is an assertion of PollPoller alone: disableAll() has hidden  *)
(* the descriptor of the channel only if the poller knew it before.        *)
Destructor ==
    /\ server
    /\ server' = FALSE
    /\ dying' = TRUE
    /\ ConnectionsDestroyed(connections_)
    /\ LET removal == RemovalAssertions(connections_)
       IN  Assert([remove |-> removal.remove,
                   removeChannel |-> removal.removeChannel
                                         /\ MayRemove(AcceptChannel),
                   ignored |-> accepting])
    /\ connections_' = {}
    /\ accepting' = FALSE
    /\ backlog' = 0
    /\ idleFd_' = NoFd
    /\ UNCHANGED <<roundVars, listenning_, nextConnId_, clients, sock, others,
                   starting, starts>>

(* The next functor of the batch is a connection's connectDestroyed. *)
NextFunctor ==
    /\ phase = "functors"
    /\ ran < Len(functors)
    /\ ran' = ran + 1

RunConnectDestroyed ==
    /\ NextFunctor
    /\ functors[ran + 1].op = "connectDestroyed"
    /\ LET c == functors[ran + 1].conn
       IN  /\ ConnectionsDestroyed({c})
           /\ Assert(RemovalAssertions({c}))
    /\ UNCHANGED <<loopVars, pendingFunctors_, functors, serverVars, fd,
                   kernelVars, clientVars>>

(* Acceptor::listen, through the raw pointer that start() has bound. *)
RunListen ==
    /\ NextFunctor
    /\ functors[ran + 1].op = "listen"
    /\ Assert([listen |-> server])
    /\ listenning_' = TRUE
    /\ accepting' = server
    /\ UNCHANGED <<loopVars, pendingFunctors_, functors, server, idleFd_,
                   tableVars, connVars, kept, kernelVars, clientVars>>

(* A functor of the client's that destroys the server. *)
RunDestructor ==
    /\ NextFunctor
    /\ functors[ran + 1].op = "~TcpServer"
    /\ Destructor
    /\ UNCHANGED <<phase, pendingFunctors_, functors>>
    /\ Release({idleFd_})

-----------------------------------------------------------------------------
(* The program around the server. *)

(* start() on the loop's thread, before loop() or in a callback. *)
StartInLoop ==
    /\ phase \in {"out", "message"}
    /\ server
    /\ starts < MaxStarts
    /\ starts' = starts + 1
    /\ listenning_' = TRUE
    /\ accepting' = TRUE
    /\ UNCHANGED <<loopVars, functorVars, server, idleFd_, tableVars,
                   connVars, kept, kernelVars, others, starting, dying,
                   failed>>

(* start() on another thread: the test of listenning_ ... *)
ThreadStarts(t) ==
    /\ server
    /\ ~dying
    /\ t \notin starting
    /\ starts < MaxStarts
    /\ starts' = starts + 1
    /\ starting' = IF listenning_ THEN starting ELSE starting \cup {t}
    /\ UNCHANGED <<loopVars, functorVars, objectVars, kernelVars, others,
                   dying, failed>>

(* ... and the functor. *)
ThreadQueuesListen(t) ==
    /\ t \in starting
    /\ starting' = starting \ {t}
    /\ pendingFunctors_' = Append(pendingFunctors_, Listen)
    /\ UNCHANGED <<loopVars, functors, ran, objectVars, kernelVars, others,
                   starts, dying, failed>>

(* A functor that destroys the server is queued once no start() is under way. *)
QueueDestructor ==
    /\ server
    /\ ~dying
    /\ starting = {}
    /\ dying' = TRUE
    /\ pendingFunctors_' = Append(pendingFunctors_, Destroy)
    /\ UNCHANGED <<loopVars, functors, ran, objectVars, kernelVars, others,
                   starting, starts, failed>>

(* The server is destroyed while loop() does not run, once every functor   *)
(* that start() has queued has run.                                        *)
DestroyOutside ==
    /\ phase = "out"
    /\ ~dying
    /\ starting = {}
    /\ \A i \in DOMAIN pendingFunctors_ : pendingFunctors_[i].op # "listen"
    /\ Destructor
    /\ UNCHANGED <<phase, functorVars>>
    /\ Release({idleFd_})

(* A client gives up its pointer, on any thread. *)
ClientDrops(c) ==
    /\ c \in kept
    /\ kept' = kept \ {c}
    /\ UNCHANGED <<loopVars, functorVars, serverVars, lifeVars, netVars,
                   clientVars, failed>>
    /\ Release({})

(* The rest of the process opens and closes a descriptor. *)
OthersOpen ==
    /\ FreeFds # {}
    /\ Cardinality(others) < MaxOthers
    /\ others' = others \cup {Min(FreeFds)}
    /\ openFds' = openFds \cup {Min(FreeFds)}
    /\ UNCHANGED <<loopVars, functorVars, objectVars, netVars, startVars,
                   failed>>

OthersClose(d) ==
    /\ d \in others
    /\ others' = others \ {d}
    /\ openFds' = openFds \ {d}
    /\ UNCHANGED <<loopVars, functorVars, objectVars, netVars, startVars,
                   failed>>

-----------------------------------------------------------------------------
(* The network. *)

PeerConnects ==
    /\ accepting
    /\ clients < MaxConns
    /\ clients' = clients + 1
    /\ backlog' = backlog + 1
    /\ UNCHANGED <<loopVars, functorVars, objectVars, sock, openFds,
                   clientVars, failed>>

PeerAborts ==
    /\ backlog > 0
    /\ backlog' = backlog - 1
    /\ UNCHANGED <<loopVars, functorVars, objectVars, clients, sock, openFds,
                   clientVars, failed>>

PeerDoes(c) ==
    /\ c \in Live
    /\ \/ /\ sock[c].peer = "open"
          /\ \/ sock' = [sock EXCEPT ![c].data = TRUE]
             \/ sock' = [sock EXCEPT ![c].peer = "fin"]
       \/ /\ sock[c].peer \in {"open", "fin"}
          /\ sock' = [sock EXCEPT ![c].peer = "rst"]
    /\ UNCHANGED <<loopVars, functorVars, objectVars, backlog, clients,
                   openFds, clientVars, failed>>

-----------------------------------------------------------------------------
LoopStep ==
    \/ PollReturns
    \/ NewConnection
    \/ AcceptFails
    \/ AcceptFatal
    \/ AcceptEMFILE
    \/ Shed
    \/ ShedClose
    \/ Reopen
    \/ \E c \in Conns : \/ HandleHup(c)
                         \/ HandleMessage(c)
                         \/ HandleEnd(c)
                         \/ HandleReadError(c)
    \/ MessageReturns
    \/ EndDispatch
    \/ RunListen
    \/ RunConnectDestroyed
    \/ RunDestructor
    \/ EndFunctors

Step ==
    \/ EnterLoop
    \/ LeaveLoop
    \/ LoopStep
    \/ StartInLoop
    \/ \E t \in Threads : ThreadStarts(t) \/ ThreadQueuesListen(t)
    \/ QueueDestructor
    \/ DestroyOutside
    \/ \E c \in Conns : ClientDrops(c) \/ PeerDoes(c)
    \/ OthersOpen
    \/ \E d \in Fds : OthersClose(d)
    \/ PeerConnects
    \/ PeerAborts

Running == phase # "aborted"

Terminated == ~Running /\ UNCHANGED vars

Next ==
    \/ Running /\ Step
    \/ Terminated

Spec == Init /\ [][Next]_vars

(* The loop's thread, and one inside start(), are scheduled. *)
Fairness ==
    /\ WF_vars(LoopStep)
    /\ \A t \in Threads : WF_vars(Running /\ ThreadQueuesListen(t))

FairSpec == Spec /\ Fairness

-----------------------------------------------------------------------------
(* Properties. *)

(***************************************************************************)
(* No assertion of handleClose, removeConnection, Channel::remove,         *)
(* EventLoop::removeChannel and the poller fails but one, and neither      *)
(* Acceptor nor TcpServer is called after its destructor: whatever the     *)
(* order of events in a round, a connection is closed once, erased once    *)
(* and removed while it is in the poller.  The one is PollPoller.cpp:118:  *)
(* under RAWMD_USE_POLL it fails when, and only when, a server that has    *)
(* never listened is destroyed, for ~Acceptor calls disableAll() on a      *)
(* channel that the poller does not know.                                  *)
(***************************************************************************)
AssertionsHold ==
    failed = IF server \/ listenning_ THEN {} ELSE {"ignored"}

(***************************************************************************)
(* Every open descriptor has exactly one owner, and every owner's is open: *)
(* the EMFILE branch of Acceptor::handleRead never closes a descriptor     *)
(* that another thread has obtained meanwhile, and no connection's socket  *)
(* is leaked or closed twice.                                              *)
(***************************************************************************)
DescriptorsOwned ==
    LET idle == IF phase \in {"shed", "reopen"} THEN {} ELSE {idleFd_} \ {NoFd}
        conns == {fd[c] : c \in Live}
    IN  /\ openFds = idle \cup conns \cup others
        /\ idle \cap (conns \cup others) = {}
        /\ conns \cap others = {}
        /\ \A c1, c2 \in Live : fd[c1] = fd[c2] => c1 = c2

(***************************************************************************)
(* A TcpConnection, and the Channel in it, dies only after the poller has  *)
(* let go of the channel and when loop() will not dispatch it any more: so *)
(* no pointer of the poller dangles, and a reused descriptor is not in the *)
(* poller's map.                                                           *)
(***************************************************************************)
WatchedAreLive ==
    /\ \A d \in Fds : channels_[d] # NoConn => fd[channels_[d]] = d
    /\ todo \cap Conns \subseteq Live

(***************************************************************************)
(* The client is told of every connection twice, once up and once down,    *)
(* and before the object dies, also if ~TcpServer ends it.                 *)
(***************************************************************************)
UpThenDown ==
    \A c \in Conns :
        \/ state_[c] = "kConnecting" /\ told[c] = 0
        \/ state_[c] = "kConnected" /\ told[c] = 1 /\ c \in Live
        \/ state_[c] = "kDisconnected" /\ told[c] = 2

(***************************************************************************)
(* A connection is in connections_, or its connectDestroyed is queued      *)
(* once, or it is out of the poller: connectDestroyed "should be called    *)
(* only once", and it is called; none is left in the queue when loop()     *)
(* returns.                                                                *)
(***************************************************************************)
Destructions(c) ==
    {<<"pending", i>> : i \in {j \in DOMAIN pendingFunctors_ :
                                pendingFunctors_[j] = ConnectDestroyed(c)}}
    \cup {<<"batch", i>> : i \in {j \in DOMAIN functors :
                                j > ran /\ functors[j] = ConnectDestroyed(c)}}

DestroyedOnce ==
    \A c \in Conns :
        LET watched == \E d \in Fds : channels_[d] = c
            due == Cardinality(Destructions(c))
        IN  /\ watched <=> (c \in connections_ \/ due > 0)
            /\ due <= 1
            /\ due = 1 => c \notin connections_ /\ ~reading[c]
            /\ due = 1 => phase \notin {"out", "poll"}

(***************************************************************************)
(* However its end comes about, a connection is reported up once and down  *)
(* once while it exists, and its connectDestroyed is called once, after    *)
(* the event that ended it and before loop() returns.                      *)
(***************************************************************************)
Lifecycle ==
    /\ UpThenDown
    /\ DestroyedOnce

(***************************************************************************)
(* Between the loop, the clients that drop their pointers on any thread    *)
(* and the rest of the process, every descriptor has one owner, and what   *)
(* the poller and the round point to is alive.                             *)
(***************************************************************************)
Ownership ==
    /\ DescriptorsOwned
    /\ WatchedAreLive

(* loop() does not run: it has been left, or the process has ended. *)
Stopped == phase \in {"out", "aborted"}

(***************************************************************************)
(* A connection whose peer has closed or reset it goes down and leaves the *)
(* poller while loop() runs, also when the reset overtakes a reported      *)
(* event and handleRead meets only an error.                               *)
(***************************************************************************)
EndNoticed ==
    \A c \in Conns :
        (c \in Live /\ sock[c].peer # "open")
            ~> (Stopped \/ \A d \in Fds : channels_[d] # c)

(***************************************************************************)
(* Every client in the backlog is accepted or turned away while loop()     *)
(* runs, also when the descriptors have run out: without the spare         *)
(* descriptor the listening socket would stay readable for ever.  It is    *)
(* promised only if the rest of the process opens nothing, for whoever     *)
(* takes the descriptor while it is closed leaves idleFd_ at -1.           *)
(***************************************************************************)
ClientsAnswered ==
    [](others = {}) =>
        ((accepting /\ backlog > 0) ~> (Stopped \/ backlog = 0))

(***************************************************************************)
(* A start() from any thread makes the server listen, unless it is         *)
(* destroyed or loop() is not running.                                     *)
(***************************************************************************)
StartListens ==
    \A t \in Threads :
        (t \in starting) ~> (accepting \/ ~server \/ Stopped)

(***************************************************************************)
(* No sequence of events, calls and drops of pointers fails an assertion   *)
(* of the code, or leaves its types, with the exception of the destruction *)
(* of a server that has never listened, which fails one of PollPoller.     *)
(***************************************************************************)
Sound ==
    /\ TypeOK
    /\ AssertionsHold

(***************************************************************************)
(* start() makes the server listen, and a server that listens accepts or   *)
(* turns away every client, also when it is out of descriptors.            *)
(***************************************************************************)
ServerAnswers ==
    /\ StartListens
    /\ ClientsAnswered
=============================================================================

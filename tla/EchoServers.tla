---------------------------- MODULE EchoServers ----------------------------
(***************************************************************************)
(* net/preface: the echo servers over poll() and epoll, the latter also in *)
(* a form that sends lines back reversed, each against copies of the       *)
(* client echocli, which are killed at any time.  A behaviour has one of   *)
(* the servers.  Each system call that another process may come before is  *)
(* a step.  The client connects to 127.0.0.1, where a line arrives whole.  *)
(***************************************************************************)
EXTENDS Integers, Sequences, SequencesExt, FiniteSetsExt

CONSTANTS
    Clients,
    BufSize,            \* sizeof(buf), sizeof(sendbuf): 1024 in the code
    Lines,              \* what fgets() may leave in sendbuf
    MaxFds,             \* descriptors left for connections, besides idlefd
    EventsSize,         \* the first size of events: 16 in the code
    MaxLines            \* bound: lines each client sends

LF == "\n"

ASSUME EchoAssumption ==
    /\ BufSize \in Nat \ {0, 1} /\ EventsSize \in Nat \ {0}
    /\ MaxFds \in Nat \ {0} /\ MaxLines \in Nat
    /\ Lines \subseteq Seq(STRING)
    /\ \A l \in Lines : Len(l) \in 1..(BufSize - 1)

VARIABLES
    variant,            \* which of the programs
    client,             \* per client: where it is, sendbuf, lines sent
    conn,               \* per client: both ends of its connection in the kernel
    backlog,            \* connections accept() has not returned
    pc, why,            \* of the server: where it is, and the errno it exits with
    pollfds,            \* connections in pollfds or clients, in order
    revents, it, nready,    \* of the poll server
    interest, events, capacity,     \* of the epoll servers
    unserved            \* history: reported in this round, not served yet

pollVars == <<revents, it, nready>>
epollVars == <<interest, events, capacity>>
serverVars == <<pc, why, pollfds, pollVars, epollVars, unserved>>
vars == <<variant, client, conn, backlog, serverVars>>

Fds == 1..MaxFds
listenfd == 0           \* in events; elsewhere 0 is no descriptor
NoConn == [fd |-> 0, inbox |-> <<>>, end |-> "no", outbox |-> <<>>, shut |-> FALSE]

Init ==
    /\ variant \in {"poll", "epoll", "reverse"}
    /\ client = [c \in Clients |-> [pc |-> "new", sendbuf |-> <<>>, sent |-> 0]]
    /\ conn = [c \in Clients |-> NoConn]
    /\ backlog = <<>>
    /\ pc = "poll" /\ why = "none"
    /\ pollfds = <<>>
    /\ revents = {} /\ it = 1 /\ nready = 0
    /\ interest = {} /\ events = <<>> /\ capacity = EventsSize
    /\ unserved = {}

-----------------------------------------------------------------------------
(* echocli *)

Connect(c) ==
    /\ client[c].pc = "new" /\ pc # "exit"
    /\ client' = [client EXCEPT ![c].pc = "fgets"]
    /\ backlog' = Append(backlog, c)
    /\ UNCHANGED <<variant, conn, serverVars>>

(* fgets() and write() of the line without its NUL. *)
Send(c, line) ==
    /\ client[c].pc = "fgets" /\ client[c].sent < MaxLines
    /\ client' = [client EXCEPT ![c] = [pc |-> "read", sendbuf |-> line, sent |-> @.sent + 1]]
    /\ conn' = [conn EXCEPT ![c].inbox = @ \o line]
    /\ UNCHANGED <<variant, backlog, serverVars>>

(* read(), whose result nobody looks at: once the server has closed its    *)
(* end, nothing the client goes on to write is read.                       *)
Receive(c) ==
    /\ client[c].pc = "read"
    /\ \/ /\ conn[c].outbox # <<>>
          /\ conn' = [conn EXCEPT ![c].outbox = <<>>]
          /\ client' = [client EXCEPT ![c].pc = "fgets", ![c].sendbuf = <<>>]
       \/ /\ conn[c].outbox = <<>>
          /\ conn[c].shut \/ pc = "exit"
          /\ client' = [client EXCEPT ![c].pc = "over", ![c].sendbuf = <<>>]
          /\ UNCHANGED conn
    /\ UNCHANGED <<variant, backlog, serverVars>>

(* The end of stdin, or a signal: the kernel resets a connection that is   *)
(* closed with something unread.                                           *)
Close(c) ==
    /\ client[c].pc \in {"fgets", "read"}
    /\ client' = [client EXCEPT ![c].pc = "over", ![c].sendbuf = <<>>]
    /\ conn' = [conn EXCEPT ![c].outbox = <<>>,
                            ![c].end = IF conn[c].outbox # <<>> THEN "reset" ELSE "closed"]
    /\ UNCHANGED <<variant, backlog, serverVars>>

-----------------------------------------------------------------------------
(* What the servers share. *)

At(fd) == CHOOSE c \in Clients : conn[c].fd = fd
Open == {c \in Clients : conn[c].fd # 0}
FreeFds == Fds \ {conn[c].fd : c \in Clients}

(* poll() and epoll_wait() report what read() or accept() has an answer for. *)
Readable(c) == conn[c].inbox # <<>> \/ conn[c].end # "no"
Reportable == {conn[c].fd : c \in {d \in Open : Readable(d)}}
              \cup (IF backlog # <<>> THEN {listenfd} ELSE {})

Exit(errno) == pc' = "exit" /\ why' = errno

(* accept4() returns the first connection with the least descriptor. *)
accept4 ==
    /\ conn' = [conn EXCEPT ![Head(backlog)].fd = Min(FreeFds)]
    /\ backlog' = Tail(backlog)
    /\ pollfds' = Append(pollfds, Min(FreeFds))

(* What is written for the text that was read. *)
Reply(buf) ==
    LET ret == Len(buf)
    IN  IF variant = "reverse"
        THEN [j \in 1..ret |-> IF j < ret THEN buf[ret - j] ELSE buf[ret]]
        ELSE buf

(* read() returns text, which is sent back; a client that is gone throws   *)
(* it away.                                                                *)
Answer(c) ==
    LET buf == SubSeq(conn[c].inbox, 1, Min({BufSize, Len(conn[c].inbox)}))
    IN  /\ buf # <<>>
        /\ conn' = [conn EXCEPT ![c].inbox = SubSeq(@, Len(buf) + 1, Len(@)),
                       ![c].outbox = IF client[c].pc = "over" THEN @ ELSE @ \o Reply(buf)]

(* read() returns 0: the connection is closed. *)
Ended(c) ==
    /\ conn[c].inbox = <<>> /\ conn[c].end = "closed"
    /\ conn' = [conn EXCEPT ![c].fd = 0, ![c].shut = TRUE]

(* read() returns -1. *)
ReadFails(c) ==
    /\ conn[c].inbox = <<>> /\ conn[c].end # "closed"
    /\ Exit(IF conn[c].end = "reset" THEN "ECONNRESET" ELSE "EAGAIN")
    /\ UNCHANGED conn

Served(c) == unserved' = unserved \ {c}

-----------------------------------------------------------------------------
(* echosrv_poll *)

Poll ==
    /\ variant = "poll" /\ pc = "poll"
    /\ Reportable # {}
    /\ revents' = Reportable /\ nready' = Cardinality(Reportable)
    /\ unserved' = {c \in Open : Readable(c)}
    /\ pc' = "accept" /\ it' = 1
    /\ UNCHANGED <<variant, client, conn, backlog, why, pollfds, epollVars>>

(* The new entry of pollfds has no revents. *)
AcceptFirst ==
    /\ variant = "poll" /\ pc = "accept"
    /\ \/ /\ listenfd \in revents /\ FreeFds # {}
          /\ accept4
          /\ nready' = nready - 1
          /\ pc' = "scan"
          /\ UNCHANGED why
       \/ /\ listenfd \in revents /\ FreeFds = {}
          /\ Exit("EMFILE")
          /\ UNCHANGED <<conn, backlog, pollfds, nready>>
       \/ /\ listenfd \notin revents
          /\ pc' = "scan"
          /\ UNCHANGED <<conn, backlog, pollfds, nready, why>>
    /\ UNCHANGED <<variant, client, revents, it, epollVars, unserved>>

(* Mutant: erase() without --it. *)
EraseSkips == pollfds' = RemoveAt(pollfds, it) /\ it' = it + 1

(* erase() and --it, before ++it. *)
Erase == pollfds' = RemoveAt(pollfds, it) /\ it' = it

(* One turn of the for. *)
Scan ==
    /\ pc = "scan"
    /\ it <= Len(pollfds) /\ nready > 0
    /\ LET c == At(pollfds[it]) IN
       \/ /\ pollfds[it] \notin revents
          /\ it' = it + 1
          /\ UNCHANGED <<conn, pollfds, nready, unserved, pc, why>>
       \/ /\ pollfds[it] \in revents
          /\ nready' = nready - 1
          /\ Served(c)
          /\ \/ Answer(c) /\ it' = it + 1 /\ UNCHANGED <<pollfds, pc, why>>
             \/ Ended(c) /\ Erase /\ UNCHANGED <<pc, why>>
             \/ ReadFails(c) /\ UNCHANGED <<pollfds, it>>
    /\ UNCHANGED <<variant, client, backlog, revents, epollVars>>

ScanEnds ==
    /\ pc = "scan"
    /\ it > Len(pollfds) \/ nready = 0
    /\ pc' = "poll"
    /\ revents' = {} /\ it' = 1 /\ nready' = 0       \* the next poll() sets them all
    /\ UNCHANGED <<variant, client, conn, backlog, why, pollfds, epollVars, unserved>>

-----------------------------------------------------------------------------
(* echosrv_epoll and echorevsrv_epoll *)

(* As many events as there is room for, in any order; events grows when    *)
(* it was filled.                                                          *)
EpollWait ==
    LET n == Min({Cardinality(Reportable), capacity}) IN
    /\ variant # "poll" /\ pc = "poll"
    /\ n > 0
    /\ \E order \in SetToSeqs(Reportable) : events' = SubSeq(order, 1, n)
    /\ capacity' = IF n = capacity THEN 2 * capacity ELSE capacity
    /\ unserved' = {c \in Open : conn[c].fd \in ToSet(events')}
    /\ pc' = "events"
    /\ UNCHANGED <<variant, client, conn, backlog, why, pollfds, pollVars, interest>>

(* ++i: the next event, or the next round. *)
NextEvent ==
    /\ events' = Tail(events)
    /\ pc' = IF Len(events) = 1 THEN "poll" ELSE "events"

EventAccept ==
    /\ pc = "events" /\ Head(events) = listenfd
    /\ FreeFds # {}
    /\ accept4
    /\ interest' = interest \cup {Min(FreeFds)}
    /\ NextEvent
    /\ UNCHANGED <<variant, client, why, pollVars, capacity, unserved>>

(* Mutant: the error is ignored. *)
EventShedIgnored ==
    /\ pc = "events" /\ Head(events) = listenfd
    /\ FreeFds = {}
    /\ NextEvent
    /\ UNCHANGED <<variant, client, conn, backlog, why, pollfds, pollVars, interest, capacity,
                   unserved>>

(* EMFILE: idlefd makes room to accept the client and to turn it away, and *)
(* is opened again; nobody else takes descriptors of this process.         *)
EventShed ==
    /\ pc = "events" /\ Head(events) = listenfd
    /\ FreeFds = {}
    /\ conn' = [conn EXCEPT ![Head(backlog)].shut = TRUE]
    /\ backlog' = Tail(backlog)
    /\ NextEvent
    /\ UNCHANGED <<variant, client, why, pollfds, pollVars, interest, capacity, unserved>>

(* close() also takes the descriptor from the interest list, so that the   *)
(* EPOLL_CTL_DEL after it finds nothing.  clients holds a descriptor once  *)
(* (ListsMatch), so that std::remove() takes out one element.              *)
EventServe ==
    LET c == At(Head(events)) IN
    /\ pc = "events" /\ Head(events) # listenfd
    /\ Served(c)
    /\ \/ Answer(c) /\ NextEvent /\ UNCHANGED <<pollfds, interest, why>>
       \/ /\ Ended(c) /\ NextEvent
          /\ interest' = interest \ {Head(events)}
          /\ pollfds' = RemoveFirst(pollfds, Head(events))
          /\ UNCHANGED why
       \/ ReadFails(c) /\ UNCHANGED <<pollfds, interest, events>>
    /\ UNCHANGED <<variant, client, backlog, pollVars, capacity>>

Server ==
    \/ Poll \/ AcceptFirst \/ Scan \/ ScanEnds
    \/ EpollWait \/ EventAccept \/ EventShed \/ EventServe

Next ==
    \/ Server
    \/ \E c \in Clients : Connect(c) \/ Receive(c) \/ Close(c)
    \/ \E c \in Clients, line \in Lines : Send(c, line)

(* The server is one thread that never waits but for events. *)
Spec == Init /\ [][Next]_vars /\ WF_vars(Server)

-----------------------------------------------------------------------------
TypeOK ==
    /\ pc \in {"poll", "accept", "scan", "events", "exit"}
    /\ \A c \in Clients : conn[c].fd \in Fds \cup {0}
    /\ capacity \in Nat
    /\ ToSet(pollfds) \subseteq Fds /\ unserved \subseteq Clients

(***************************************************************************)
(* The lists a server keeps name exactly its open connections, each with a *)
(* descriptor of its own, although close() comes before the removal from   *)
(* the list and the number is given out again in the same round.           *)
(***************************************************************************)
ListsMatch ==
    /\ IsInjective(pollfds)
    /\ ToSet(pollfds) = {conn[c].fd : c \in Open}
    /\ \A c, d \in Open : conn[c].fd = conn[d].fd => c = d
    /\ variant # "poll" => interest = ToSet(pollfds)
    /\ \A i \in 1..Len(events) : events[i] \in {listenfd} \cup ToSet(pollfds)

(***************************************************************************)
(* A server ends only for want of a descriptor, which the epoll servers    *)
(* provide for, or by a reset: it never reads a connection that has        *)
(* nothing to read, where EAGAIN would end it.                             *)
(***************************************************************************)
EndsForCause == why \in {"none", "ECONNRESET"} \cup (IF variant = "poll" THEN {"EMFILE"} ELSE {})

(***************************************************************************)
(* In one round a server serves every connection that was reported, also   *)
(* when connections before it are erased from the vector it walks through. *)
(***************************************************************************)
RoundServesAll == pc = "poll" => unserved = {}

(***************************************************************************)
(* What a client finds to read is the answer to the line it sent last,     *)
(* whole and its own: the line, or all but its last character reversed.    *)
(* The line leaves room for the NUL that strlen(buf) needs.                *)
(***************************************************************************)
AnswersRight ==
    \A c \in Clients :
        /\ Len(conn[c].inbox) < BufSize
        /\ conn[c].outbox # <<>> =>
             LET l == client[c].sendbuf
             IN  conn[c].outbox = IF variant = "reverse"
                                  THEN Reverse(Front(l)) \o <<Last(l)>> ELSE l

(***************************************************************************)
(* Whatever clients come, send, close or are killed in whatever order: the *)
(* server's lists are those of its connections, a round serves all that    *)
(* was reported, every answer is right, and it ends only for a cause it    *)
(* tests for.                                                              *)
(***************************************************************************)
EchoSound ==
    /\ TypeOK
    /\ ListsMatch
    /\ EndsForCause
    /\ RoundServesAll
    /\ AnswersRight

(***************************************************************************)
(* While the server runs, every client is accepted or turned away and      *)
(* every line is answered, also when all descriptors are taken or more     *)
(* connections are ready than events has room for.                         *)
(***************************************************************************)
EchoProgress ==
    \A c \in Clients :
        LET queued == c \in ToSet(backlog)
            unanswered == client[c].pc = "read" /\ conn[c].outbox = <<>> /\ ~conn[c].shut
        IN  (pc # "exit" /\ (queued \/ unanswered))
                ~> (pc = "exit" \/ ~(queued \/ unanswered))
=============================================================================

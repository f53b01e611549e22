------------------------- MODULE EchoServersProofs -------------------------
(***************************************************************************)
(* Proofs about EchoServers for any clients, lines, buffer size, number of *)
(* descriptors and first size of events.                                   *)
(***************************************************************************)
EXTENDS EchoServers, FiniteSetTheorems, SequenceTheorems, WellFoundedInduction, TLAPS

Text == Seq(STRING)

Peers == [pc : {"new", "fgets", "read", "over"}, sendbuf : Text, sent : Nat]

Conns == [fd : Fds \cup {0}, inbox : Text, end : {"no", "closed", "reset"},
          outbox : Text, shut : BOOLEAN]

Types ==
    /\ variant \in {"poll", "epoll", "reverse"}
    /\ client \in [Clients -> Peers] /\ conn \in [Clients -> Conns]
    /\ backlog \in Seq(Clients)
    /\ pc \in {"poll", "accept", "scan", "events", "exit"}
    /\ pollfds \in Seq(Fds)
    /\ revents \in SUBSET (Fds \cup {listenfd})
    /\ it \in Nat \ {0} /\ nready \in Int
    /\ interest \in SUBSET Fds
    /\ events \in Seq(Fds \cup {listenfd})
    /\ capacity \in Nat \ {0}
    /\ unserved \in SUBSET Clients

(* A server walks through pollfds or through events, never through both. *)
Walks ==
    /\ variant = "poll" => pc # "events" /\ events = <<>>
    /\ variant # "poll" => pc \notin {"accept", "scan"} /\ revents = {}
    /\ pc = "events" => events # <<>>
    /\ pc = "poll" => events = <<>> /\ revents = {}

(* Connections that wait for accept() have no descriptor and wait once. *)
Waiting ==
    /\ IsInjective(backlog)
    /\ \A i \in 1..Len(backlog) :
          conn[backlog[i]].fd = 0 /\ client[backlog[i]].pc # "new"
    /\ \A c \in Clients : client[c].pc = "new" => conn[c] = NoConn

(* A line is on its way to the server or its answer is on its way back. *)
RightText(m, k) ==
    /\ m.pc = "fgets" => k.inbox = <<>> /\ k.outbox = <<>>
    /\ m.pc = "read" =>
          /\ m.sendbuf \in Lines
          /\ \/ k.inbox = m.sendbuf /\ k.outbox = <<>>
             \/ k.inbox = <<>> /\ k.outbox = Reply(m.sendbuf)
    /\ m.pc = "over" => k.outbox = <<>> /\ k.inbox \in Lines \cup {<<>>}
    /\ k.end # "no" => m.pc = "over"

Texts == \A c \in Clients : RightText(client[c], conn[c])

(* The lists match the open connections, and no event comes twice. *)
Lists == ListsMatch /\ IsInjective(events)

(* What was reported in r and is in the list s at n or behind it. *)
DueIn(r, s, n) == {f \in r : \E i \in 1..Len(s) : i >= n /\ s[i] = f}

(* The connections that were reported and the server has not come to yet. *)
Due == IF variant = "poll" THEN DueIn(revents, pollfds, it) ELSE ToSet(events) \ {listenfd}

(* The connections that are due are those not served in this round, each   *)
(* has something to read, and the poll server counts them in nready.       *)
Rounds ==
    /\ pc # "exit" => unserved = {c \in Clients : conn[c].fd \in Due}
    /\ pc # "exit" => \A c \in unserved : Readable(c)
    /\ pc = "accept" => /\ it = 1 /\ nready = Cardinality(revents)
                        /\ revents \ {listenfd} \subseteq ToSet(pollfds)
                        /\ listenfd \in revents => backlog # <<>>
    /\ pc = "scan" => nready = Cardinality(Due)
    /\ pc = "events" /\ listenfd \in ToSet(events) => backlog # <<>>

EchoInv ==
    /\ Types
    /\ Walks
    /\ Waiting
    /\ Texts
    /\ Lists
    /\ Rounds
    /\ EndsForCause
-----------------------------------------------------------------------------
(* Sequences and sets. *)

(* A nonempty set of natural numbers has a least element. *)
LEMMA LeastNat ==
    ASSUME NEW S \in SUBSET Nat, S # {}
    PROVE  Min(S) \in S /\ \A y \in S : Min(S) =< y
<1>1. PICK x \in S : \A y \in S : ~(<<y, x>> \in OpToRel(<, Nat))
  BY NatLessThanWellFounded, WFMin
<1>2. \A y \in S : ~(y < x)
  BY <1>1 DEF OpToRel
<1>3. \A y \in S : x =< y
  BY <1>2
<1> QED
  BY <1>3 DEF Min

(* A function on 1..n is a sequence of length n. *)
LEMMA FunctionIsSeq ==
    ASSUME NEW S, NEW n \in Nat, NEW f \in [1..n -> S]
    PROVE  f \in Seq(S) /\ Len(f) = n
  OBVIOUS

(* RemoveAt() as a function. *)
LEMMA RemoveAtIs ==
    ASSUME NEW S, NEW s \in Seq(S), NEW i \in 1..Len(s)
    PROVE  /\ RemoveAt(s, i) \in Seq(S)
           /\ Len(RemoveAt(s, i)) = Len(s) - 1
           /\ \A j \in 1..(Len(s) - 1) : RemoveAt(s, i)[j] = IF j < i THEN s[j] ELSE s[j + 1]
<1> DEFINE a == SubSeq(s, 1, i - 1)
           b == SubSeq(s, i + 1, Len(s))
<1>1. /\ a \in Seq(S) /\ Len(a) = i - 1
      /\ \A j \in 1..(i - 1) : a[j] = s[j]
  OBVIOUS
<1>2. /\ b \in Seq(S) /\ Len(b) = Len(s) - i
      /\ \A j \in 1..(Len(s) - i) : b[j] = s[i + j]
  OBVIOUS
<1> HIDE DEF a, b
<1>3. /\ a \o b \in Seq(S) /\ Len(a \o b) = Len(s) - 1
      /\ \A j \in 1..(Len(s) - 1) : (a \o b)[j] = IF j < i THEN a[j] ELSE b[j - (i - 1)]
  <2>1. /\ a \o b \in Seq(S) /\ Len(a \o b) = Len(a) + Len(b)
        /\ \A j \in 1..(Len(a) + Len(b)) :
              (a \o b)[j] = IF j <= Len(a) THEN a[j] ELSE b[j - Len(a)]
    BY <1>1, <1>2, ConcatProperties
  <2> QED
    BY <1>1, <1>2, <2>1
<1>4. \A j \in 1..(Len(s) - 1) : j >= i => b[j - (i - 1)] = s[j + 1]
  BY <1>2
<1>5. \A j \in 1..(Len(s) - 1) : j < i => a[j] = s[j]
  BY <1>1
<1>6. RemoveAt(s, i) = a \o b
  BY DEF RemoveAt, a, b
<1> QED
  BY <1>3, <1>4, <1>5, <1>6

(* An element taken out of a list without repetitions is gone from it. *)
LEMMA RemoveAtSet ==
    ASSUME NEW S, NEW s \in Seq(S), IsInjective(s), NEW i \in 1..Len(s)
    PROVE  IsInjective(RemoveAt(s, i)) /\ ToSet(RemoveAt(s, i)) = ToSet(s) \ {s[i]}
<1> DEFINE r == RemoveAt(s, i)
<1>1. /\ r \in Seq(S) /\ Len(r) = Len(s) - 1
      /\ \A j \in 1..(Len(s) - 1) : r[j] = IF j < i THEN s[j] ELSE s[j + 1]
  BY RemoveAtIs
<1> HIDE DEF r
<1>2. \A j, k \in 1..Len(s) : s[j] = s[k] => j = k
  BY DEF IsInjective
<1> DEFINE at(j) == IF j < i THEN j ELSE j + 1
<1>3. ASSUME NEW j \in 1..Len(r)
      PROVE  at(j) \in 1..Len(s) /\ at(j) # i /\ r[j] = s[at(j)]
  BY <1>1
<1>4. IsInjective(r)
  <2> SUFFICES ASSUME NEW j \in 1..Len(r), NEW k \in 1..Len(r), r[j] = r[k] PROVE j = k
    BY <1>1 DEF IsInjective
  <2>1. at(j) = at(k)
    BY <1>2, <1>3
  <2> QED
    BY <2>1
<1>5. \A e \in ToSet(r) : e \in ToSet(s) \ {s[i]}
  <2> SUFFICES ASSUME NEW j \in 1..Len(r) PROVE r[j] \in ToSet(s) \ {s[i]}
    BY <1>1 DEF ToSet
  <2> QED
    BY <1>2, <1>3 DEF ToSet
<1>6. ASSUME NEW j \in 1..Len(s), j # i PROVE s[j] \in ToSet(r)
  <2>1. CASE j < i
    BY <1>1, <1>6, <2>1 DEF ToSet
  <2>2. CASE j > i
    <3>1. j - 1 \in 1..Len(r) /\ r[j - 1] = s[j]
      BY <1>1, <1>6, <2>2
    <3> QED
      BY <1>1, <3>1 DEF ToSet
  <2> QED
    BY <1>6, <2>1, <2>2
<1>7. \A e \in ToSet(s) \ {s[i]} : e \in ToSet(r)
  BY <1>6 DEF ToSet
<1> QED
  BY <1>4, <1>5, <1>7 DEF r

(* RemoveFirst() of the element at i, when it is there once. *)
LEMMA RemoveFirstIs ==
    ASSUME NEW S, NEW s \in Seq(S), IsInjective(s), NEW i \in 1..Len(s)
    PROVE  RemoveFirst(s, s[i]) = RemoveAt(s, i)
<1> DEFINE I == {j \in 1..Len(s) : s[j] = s[i]}
<1>1. I = {i}
  BY DEF IsInjective
<1>2. {i} \in SUBSET Nat /\ {i} # {}
  OBVIOUS
<1>3. Min({i}) \in {i}
  BY <1>2, LeastNat
<1>4. SelectInSeq(s, LAMBDA v : v = s[i]) = i
  BY <1>1, <1>3 DEF SelectInSeq
<1> QED
  BY <1>4 DEF RemoveFirst

(* A new element at the end of a list without repetitions. *)
LEMMA AppendSet ==
    ASSUME NEW S, NEW s \in Seq(S), NEW e \in S
    PROVE  /\ ToSet(Append(s, e)) = ToSet(s) \cup {e}
           /\ IsInjective(s) /\ e \notin ToSet(s) => IsInjective(Append(s, e))
<1>1. /\ Append(s, e) \in Seq(S) /\ Len(Append(s, e)) = Len(s) + 1
      /\ Append(s, e)[Len(s) + 1] = e
      /\ \A j \in 1..Len(s) : Append(s, e)[j] = s[j]
  OBVIOUS
<1>2. \A x \in ToSet(Append(s, e)) : x \in ToSet(s) \cup {e}
  BY <1>1 DEF ToSet
<1>3. \A x \in ToSet(s) \cup {e} : x \in ToSet(Append(s, e))
  BY <1>1 DEF ToSet
<1>4. IsInjective(s) /\ e \notin ToSet(s) => IsInjective(Append(s, e))
  BY <1>1 DEF ToSet, IsInjective
<1> QED
  BY <1>2, <1>3, <1>4

(* The first element taken off a list without repetitions. *)
LEMMA TailSet ==
    ASSUME NEW S, NEW s \in Seq(S), s # <<>>, IsInjective(s)
    PROVE  /\ Tail(s) \in Seq(S) /\ IsInjective(Tail(s))
           /\ Head(s) \in ToSet(s)
           /\ ToSet(Tail(s)) = ToSet(s) \ {Head(s)}
           /\ Len(s) = 1 <=> Tail(s) = <<>>
<1> DEFINE t == Tail(s)
<1>1. /\ t \in Seq(S) /\ Len(t) = Len(s) - 1
      /\ \A j \in 1..(Len(s) - 1) : t[j] = s[j + 1]
      /\ Head(s) = s[1] /\ Len(s) >= 1
  OBVIOUS
<1> HIDE DEF t
<1>2. \A j, k \in 1..Len(s) : s[j] = s[k] => j = k
  BY DEF IsInjective
<1>3. IsInjective(t)
  BY <1>1, <1>2 DEF IsInjective
<1>4. \A e \in ToSet(t) : e \in ToSet(s) \ {Head(s)}
  BY <1>1, <1>2 DEF ToSet
<1>5. ASSUME NEW j \in 1..Len(s), j # 1 PROVE s[j] \in ToSet(t)
  <2>1. j - 1 \in 1..Len(t) /\ t[j - 1] = s[j]
    BY <1>1, <1>5
  <2> QED
    BY <1>1, <2>1 DEF ToSet
<1>6. \A e \in ToSet(s) \ {Head(s)} : e \in ToSet(t)
  BY <1>1, <1>5 DEF ToSet
<1>7. Head(s) \in ToSet(s)
  BY <1>1 DEF ToSet
<1> QED
  BY <1>1, <1>3, <1>4, <1>6, <1>7 DEF t
-----------------------------------------------------------------------------
(* What the servers share. *)

(* accept4() returns a descriptor that is not in use. *)
LEMMA NewFd ==
    ASSUME Types, FreeFds # {}
    PROVE  /\ Min(FreeFds) \in Fds /\ Min(FreeFds) # 0
           /\ \A c \in Clients : conn[c].fd # Min(FreeFds)
<1>1. FreeFds \in SUBSET Nat
  BY EchoAssumption DEF FreeFds, Fds, EchoAssumption
<1>2. Min(FreeFds) \in FreeFds
  BY <1>1, LeastNat
<1>3. Min(FreeFds) \in Fds /\ \A c \in Clients : conn[c].fd # Min(FreeFds)
  BY <1>2 DEF FreeFds
<1> QED
  BY <1>3, EchoAssumption DEF Fds, EchoAssumption

(* A descriptor of the list belongs to one open connection. *)
LEMMA AtOpen ==
    ASSUME Types, Lists, NEW f \in ToSet(pollfds)
    PROVE  /\ At(f) \in Clients /\ conn[At(f)].fd = f /\ f # 0
           /\ \A c \in Clients : conn[c].fd = f => c = At(f)
<1>1. PICK c \in Open : conn[c].fd = f
  BY DEF Lists, ListsMatch
<1>2. c \in Clients /\ f # 0
  BY <1>1 DEF Open
<1>3. At(f) \in Clients /\ conn[At(f)].fd = f
  BY <1>1, <1>2 DEF At
<1>4. ASSUME NEW d \in Clients, conn[d].fd = f PROVE d = At(f)
  BY <1>2, <1>3, <1>4 DEF Lists, ListsMatch, Open
<1> QED
  BY <1>2, <1>3, <1>4

(* Lines and what is written back for them are texts. *)
LEMMA ReplyText ==
    ASSUME NEW l \in Lines
    PROVE  /\ l \in Text /\ l # <<>> /\ Len(l) < BufSize
           /\ Reply(l) \in Text /\ Reply(l) # <<>>
<1>1. l \in Seq(STRING) /\ Len(l) \in 1..(BufSize - 1)
  BY EchoAssumption DEF EchoAssumption
<1>2. l # <<>>
  BY <1>1
<1>3. Len(l) \in Nat /\ Len(l) < BufSize
  BY <1>1, EchoAssumption DEF EchoAssumption
<1>4. Reply(l) \in Text /\ Reply(l) # <<>>
  <2>1. CASE variant = "reverse"
    <3> DEFINE r == [j \in 1..Len(l) |-> IF j < Len(l) THEN l[Len(l) - j] ELSE l[Len(l)]]
    <3>1. \A j \in 1..Len(l) : r[j] \in STRING
      BY <1>1
    <3>2. r \in [1..Len(l) -> STRING]
      BY <3>1
    <3>3. r \in Seq(STRING) /\ Len(r) = Len(l)
      BY <1>3, <3>2, FunctionIsSeq
    <3>4. r # <<>>
      BY <1>1, <3>3
    <3> QED
      BY <2>1, <3>3, <3>4 DEF Reply, Text
  <2>2. CASE variant # "reverse"
    BY <1>1, <1>2, <2>2 DEF Reply, Text
  <2> QED
    BY <2>1, <2>2
<1> QED
  BY <1>1, <1>2, <1>3, <1>4 DEF Text

(* The array of echorevsrv_epoll: all but the last character reversed. *)
LEMMA ReplyIs ==
    ASSUME NEW l \in Lines
    PROVE  Reply(l) = IF variant = "reverse" THEN Reverse(Front(l)) \o <<Last(l)>> ELSE l
<1>1. l \in Seq(STRING) /\ Len(l) \in Nat /\ Len(l) >= 1
  BY EchoAssumption DEF EchoAssumption
<1>2. CASE variant = "reverse"
  <2> DEFINE n == Len(l) - 1
             f == Front(l)
             g == Reverse(f)
  <2>n. n \in Nat
    BY <1>1
  <2>1. f \in Seq(STRING) /\ Len(f) = n /\ \A j \in 1..n : f[j] = l[j]
    <3>1. f = SubSeq(l, 1, n)
      BY DEF Front
    <3>2. n <= Len(l)
      BY <1>1
    <3> HIDE DEF n, f
    <3> QED
      BY <1>1, <2>n, <3>1, <3>2
  <2> HIDE DEF f
  <2>2. g = [j \in 1..n |-> f[(n - j) + 1]]
    BY <2>1 DEF Reverse
  <2> HIDE DEF g
  <2>3. g \in Seq(STRING) /\ Len(g) = n
    <3>1. \A j \in 1..n : f[(n - j) + 1] \in STRING
      BY <2>n, <2>1
    <3>2. g \in [1..n -> STRING]
      BY <2>2, <3>1
    <3> HIDE DEF n
    <3> QED
      BY <2>n, <3>2, FunctionIsSeq
  <2>4. ASSUME NEW j \in 1..n PROVE g[j] = l[Len(l) - j]
    <3>1. (n - j) + 1 \in 1..n /\ (n - j) + 1 = Len(l) - j
      BY <1>1, <2>n
    <3> QED
      BY <2>1, <2>2, <3>1
  <2>5. /\ <<Last(l)>> \in Seq(STRING) /\ Len(<<Last(l)>>) = 1 /\ <<Last(l)>>[1] = l[Len(l)]
    BY <1>1 DEF Last
  <2>6. /\ g \o <<Last(l)>> \in Seq(STRING) /\ Len(g \o <<Last(l)>>) = Len(l)
        /\ \A j \in 1..Len(l) :
              (g \o <<Last(l)>>)[j] = IF j <= Len(l) - 1 THEN g[j] ELSE <<Last(l)>>[j - (Len(l) - 1)]
    BY <1>1, <2>3, <2>5, ConcatProperties
  <2>7. ASSUME NEW j \in 1..Len(l) PROVE (g \o <<Last(l)>>)[j] = Reply(l)[j]
    <3>1. Reply(l)[j] = IF j < Len(l) THEN l[Len(l) - j] ELSE l[Len(l)]
      BY <1>2 DEF Reply
    <3>2. CASE j < Len(l)
      BY <1>1, <2>4, <2>6, <3>1, <3>2
    <3>3. CASE j = Len(l)
      <4>1. ~(j <= Len(l) - 1) /\ j - (Len(l) - 1) = 1
        BY <1>1, <3>3
      <4>2. (g \o <<Last(l)>>)[j] = <<Last(l)>>[1]
        BY <2>6, <4>1
      <4>3. ~(j < Len(l))
        BY <1>1, <3>3
      <4>4. Reply(l)[j] = l[Len(l)]
        BY <3>1, <4>3
      <4>5. <<Last(l)>>[1] = l[Len(l)]
        BY <2>5
      <4> QED
        BY <4>2, <4>4, <4>5, Zenon
    <3>4. j < Len(l) \/ j = Len(l)
      BY <1>1
    <3> QED
      BY <3>2, <3>3, <3>4
  <2>8. Reply(l) \in Seq(STRING) /\ Len(Reply(l)) = Len(l)
    <3>1. Reply(l) \in [1..Len(l) -> STRING]
      <4>1. \A j \in 1..Len(l) : (IF j < Len(l) THEN l[Len(l) - j] ELSE l[Len(l)]) \in STRING
        BY <1>1
      <4> QED
        BY <1>2, <4>1 DEF Reply
    <3> QED
      BY <1>1, <3>1, FunctionIsSeq
  <2>9. Reply(l) = g \o <<Last(l)>>
    BY <2>6, <2>7, <2>8, SeqEqual
  <2> QED
    BY <1>2, <2>9 DEF f, g
<1>3. CASE variant # "reverse"
  BY <1>3 DEF Reply
<1> QED
  BY <1>2, <1>3

(* The inductive invariant is enough. *)
LEMMA InvSound == EchoInv => EchoSound
<1> SUFFICES ASSUME EchoInv PROVE EchoSound
  OBVIOUS
<1>1. TypeOK
  <2>1. ToSet(pollfds) \subseteq Fds
    BY DEF EchoInv, Types, ToSet
  <2>2. \A c \in Clients : conn[c].fd \in Fds \cup {0}
    BY DEF EchoInv, Types, Conns
  <2> QED
    BY <2>1, <2>2 DEF EchoInv, Types, TypeOK
<1>2. ListsMatch
  BY DEF EchoInv, Lists
<1>3. RoundServesAll
  <2> SUFFICES ASSUME pc = "poll" PROVE unserved = {}
    BY DEF RoundServesAll
  <2>1. revents = {} /\ ToSet(events) = {}
    BY DEF EchoInv, Walks, ToSet
  <2>2. Due = {}
    BY <2>1 DEF Due, DueIn
  <2> QED
    BY <2>2 DEF EchoInv, Rounds
<1>4. AnswersRight
  <2> SUFFICES ASSUME NEW c \in Clients
               PROVE  /\ Len(conn[c].inbox) < BufSize
                      /\ conn[c].outbox # <<>> =>
                           conn[c].outbox = IF variant = "reverse"
                             THEN Reverse(Front(client[c].sendbuf)) \o <<Last(client[c].sendbuf)>>
                             ELSE client[c].sendbuf
    BY DEF AnswersRight
  <2>1. client[c].pc \in {"new", "fgets", "read", "over"}
    BY DEF EchoInv, Types, Peers
  <2>2. conn[c].inbox = <<>> \/ conn[c].inbox \in Lines
    BY <2>1 DEF EchoInv, Texts, RightText, Waiting, NoConn
  <2>3. Len(conn[c].inbox) < BufSize
    BY <2>2, ReplyText, EchoAssumption DEF EchoAssumption
  <2>4. conn[c].outbox # <<>> =>
           client[c].sendbuf \in Lines /\ conn[c].outbox = Reply(client[c].sendbuf)
    BY <2>1 DEF EchoInv, Texts, RightText, Waiting, NoConn
  <2> QED
    BY <2>3, <2>4, ReplyIs
<1> QED
  BY <1>1, <1>2, <1>3, <1>4 DEF EchoInv, EchoSound

(* At the start nobody is connected. *)
LEMMA InitInv == Init => EchoInv
<1> SUFFICES ASSUME Init PROVE EchoInv
  OBVIOUS
<1>1. Types
  <2>1. <<>> \in Text
    BY DEF Text
  <2>2. NoConn \in Conns
    BY <2>1 DEF NoConn, Conns
  <2>3. conn \in [Clients -> Conns]
    BY <2>2 DEF Init
  <2>4. client \in [Clients -> Peers]
    BY <2>1 DEF Init, Peers
  <2>5. capacity \in Nat \ {0}
    BY EchoAssumption DEF Init, EchoAssumption
  <2> QED
    BY <2>3, <2>4, <2>5 DEF Init, Types
<1>2. \A c \in Clients : conn[c] = NoConn /\ client[c].pc = "new"
  BY DEF Init
<1>3. Open = {} /\ ToSet(<<>>) = {} /\ IsInjective(<<>>)
  BY <1>2 DEF Open, NoConn, ToSet, IsInjective
<1>4. Walks
  BY DEF Init, Walks
<1>5. Waiting
  BY <1>2, <1>3 DEF Init, Waiting
<1>6. Texts
  BY <1>2 DEF Texts, RightText, NoConn
<1>7. Lists
  BY <1>3 DEF Init, Lists, ListsMatch
<1>8. Rounds
  <2>1. Due = {}
    BY <1>3 DEF Init, Due, DueIn
  <2> QED
    BY <2>1 DEF Init, Rounds
<1>9. EndsForCause
  BY DEF Init, EndsForCause
<1> QED
  BY <1>1, <1>4, <1>5, <1>6, <1>7, <1>8, <1>9 DEF EchoInv
-----------------------------------------------------------------------------
(* The clients. *)

USE DEF pollVars, epollVars, serverVars, vars

(***************************************************************************)
(* A client changes no descriptor, makes nothing unreadable and takes      *)
(* nothing from the backlog, so that the server's lists and round stand.   *)
(***************************************************************************)
LEMMA ClientKeeps ==
    ASSUME Types, Walks, Lists, Rounds, EndsForCause, UNCHANGED <<variant, serverVars>>,
           \A c \in Clients : conn'[c].fd = conn[c].fd,
           \A c \in Clients : Readable(c) => Readable(c)',
           backlog # <<>> => backlog' # <<>>
    PROVE  Walks' /\ Lists' /\ Rounds' /\ EndsForCause'
<1>1. Walks'
  BY DEF Walks
<1>2. Open' = Open /\ {conn'[c].fd : c \in Open} = {conn[c].fd : c \in Open}
  BY DEF Open
<1>3. Lists'
  <2>1. ToSet(pollfds)' = ToSet(pollfds) /\ {conn'[c].fd : c \in Open'} = {conn[c].fd : c \in Open}
    BY <1>2
  <2>2. IsInjective(pollfds)' /\ IsInjective(events)'
    BY DEF Lists, ListsMatch
  <2>3. \A c, d \in Open' : conn'[c].fd = conn'[d].fd => c = d
    BY <1>2 DEF Lists, ListsMatch, Open
  <2> QED
    BY <2>1, <2>2, <2>3 DEF Lists, ListsMatch
<1>4. Due' = Due /\ {c \in Clients : conn'[c].fd \in Due} = {c \in Clients : conn[c].fd \in Due}
  BY DEF Due, DueIn
<1>5. unserved \subseteq Clients
  BY DEF Types
<1>6. Rounds'
  BY <1>4, <1>5 DEF Rounds
<1>7. EndsForCause'
  BY DEF EndsForCause
<1> QED
  BY <1>1, <1>3, <1>6, <1>7

(***************************************************************************)
(* A connected client and its end of the connection change together.       *)
(***************************************************************************)
LEMMA ClientStep ==
    ASSUME EchoInv, NEW c \in Clients, NEW m \in Peers, NEW k \in Conns,
           client[c].pc # "new", m.pc # "new",
           client' = [client EXCEPT ![c] = m], conn' = [conn EXCEPT ![c] = k],
           k.fd = conn[c].fd,
           conn[c].inbox # <<>> => k.inbox # <<>>,
           conn[c].end # "no" => k.end # "no",
           RightText(m, k),
           UNCHANGED <<variant, backlog, serverVars>>
    PROVE  EchoInv'
<1>1. Types /\ Walks /\ Waiting /\ Texts /\ Lists /\ Rounds /\ EndsForCause
  BY DEF EchoInv
<1>2. client \in [Clients -> Peers] /\ conn \in [Clients -> Conns] /\ backlog \in Seq(Clients)
  BY <1>1 DEF Types
<1>3. client' \in [Clients -> Peers] /\ conn' \in [Clients -> Conns]
  BY <1>2
<1>4. /\ client'[c] = m /\ conn'[c] = k
      /\ \A d \in Clients \ {c} : client'[d] = client[d] /\ conn'[d] = conn[d]
  BY <1>2
<1>5. Types'
  BY <1>1, <1>3 DEF Types
<1>6. Walks' /\ Lists' /\ Rounds' /\ EndsForCause'
  <2>1. \A d \in Clients : conn'[d].fd = conn[d].fd
    BY <1>4
  <2>2. \A d \in Clients : Readable(d) => Readable(d)'
    BY <1>4 DEF Readable
  <2> QED
    BY <1>1, <2>1, <2>2, ClientKeeps
<1>7. Waiting'
  <2>1. ASSUME NEW i \in 1..Len(backlog)
        PROVE  conn'[backlog[i]].fd = 0 /\ client'[backlog[i]].pc # "new"
    <3>1. backlog[i] \in Clients
      BY <1>2
    <3> QED
      BY <1>1, <1>4, <3>1 DEF Waiting
  <2>2. \A d \in Clients : client'[d].pc = "new" => conn'[d] = NoConn
    BY <1>1, <1>4 DEF Waiting
  <2> QED
    BY <1>1, <2>1, <2>2 DEF Waiting
<1>8. Texts'
  <2>1. \A d \in Clients : RightText(client'[d], conn'[d])
    BY <1>1, <1>4 DEF Texts
  <2>2. ASSUME NEW d \in Clients PROVE RightText(client[d], conn[d])'
    <3>1. RightText(client'[d], conn'[d]) /\ variant' = variant
      BY <2>1
    <3> QED
      BY <3>1 DEF RightText, Reply
  <2> QED
    BY <2>2 DEF Texts
<1> QED
  BY <1>5, <1>6, <1>7, <1>8 DEF EchoInv

(* connect(), which the kernel answers before the server accepts. *)
LEMMA ConnectStep ==
    ASSUME EchoInv, NEW c \in Clients, Connect(c)
    PROVE  EchoInv'
<1>1. Types /\ Walks /\ Waiting /\ Texts /\ Lists /\ Rounds /\ EndsForCause
  BY DEF EchoInv
<1>2. /\ client' = [client EXCEPT ![c].pc = "fgets"] /\ client[c].pc = "new"
      /\ backlog' = Append(backlog, c) /\ UNCHANGED <<variant, conn, serverVars>>
  BY DEF Connect
<1>3. client \in [Clients -> Peers] /\ backlog \in Seq(Clients)
  BY <1>1 DEF Types
<1>4. /\ client' \in [Clients -> Peers] /\ client'[c].pc = "fgets"
      /\ \A d \in Clients \ {c} : client'[d] = client[d]
  <2>1. [client[c] EXCEPT !.pc = "fgets"] \in Peers /\ [client[c] EXCEPT !.pc = "fgets"].pc = "fgets"
    BY <1>3 DEF Peers
  <2>2. client' = [client EXCEPT ![c] = [client[c] EXCEPT !.pc = "fgets"]]
    BY <1>2
  <2> QED
    BY <1>3, <2>1, <2>2
<1>5. /\ backlog' \in Seq(Clients) /\ backlog' # <<>> /\ Len(backlog') = Len(backlog) + 1
      /\ backlog'[Len(backlog) + 1] = c
      /\ \A i \in 1..Len(backlog) : backlog'[i] = backlog[i] /\ backlog[i] \in Clients
  BY <1>2, <1>3
<1>6. Types'
  BY <1>1, <1>2, <1>4, <1>5 DEF Types
<1>7. Walks' /\ Lists' /\ Rounds' /\ EndsForCause'
  <2>1. \A d \in Clients : Readable(d) => Readable(d)'
    BY <1>2 DEF Readable
  <2> QED
    BY <1>1, <1>2, <1>5, <2>1, ClientKeeps
<1>8. conn[c] = NoConn /\ \A i \in 1..Len(backlog) : backlog[i] # c
  BY <1>1, <1>2, <1>5 DEF Waiting
<1>9. Waiting'
  <2>1. c \notin ToSet(backlog)
    BY <1>3, <1>8 DEF ToSet
  <2>2. IsInjective(backlog')
    BY <1>1, <1>2, <1>3, <2>1, AppendSet DEF Waiting
  <2>3. ASSUME NEW i \in 1..Len(backlog')
        PROVE  conn'[backlog'[i]].fd = 0 /\ client'[backlog'[i]].pc # "new"
    <3>1. CASE i = Len(backlog) + 1
      BY <1>2, <1>4, <1>5, <1>8, <3>1 DEF NoConn
    <3>2. CASE i \in 1..Len(backlog)
      BY <1>1, <1>2, <1>4, <1>5, <1>8, <3>2 DEF Waiting
    <3> QED
      BY <1>3, <1>5, <3>1, <3>2
  <2>4. \A d \in Clients : client'[d].pc = "new" => conn'[d] = NoConn
    BY <1>1, <1>2, <1>4 DEF Waiting
  <2> QED
    BY <2>2, <2>3, <2>4 DEF Waiting
<1>10. Texts'
  <2>1. RightText(client'[c], conn[c])
    BY <1>4, <1>8 DEF RightText, NoConn
  <2>2. \A d \in Clients : RightText(client'[d], conn[d])
    BY <1>1, <1>4, <2>1 DEF Texts
  <2> QED
    BY <1>2, <2>2 DEF Texts, RightText, Reply
<1> QED
  BY <1>6, <1>7, <1>9, <1>10 DEF EchoInv

(* fgets() and write(). *)
LEMMA SendStep ==
    ASSUME EchoInv, NEW c \in Clients, NEW line \in Lines, Send(c, line)
    PROVE  EchoInv'
<1> DEFINE m == [pc |-> "read", sendbuf |-> line, sent |-> client[c].sent + 1]
           k == [conn[c] EXCEPT !.inbox = conn[c].inbox \o line]
<1>1. conn[c] \in Conns /\ client[c] \in Peers /\ client[c].pc = "fgets" /\ RightText(client[c], conn[c])
  BY DEF EchoInv, Types, Texts, Send
<1>2. line \in Text /\ line # <<>>
  BY ReplyText
<1>3. conn[c].inbox = <<>> /\ conn[c].outbox = <<>> /\ conn[c].inbox \o line = line
  BY <1>1, <1>2 DEF RightText, Text
<1>4. m \in Peers /\ m.pc = "read" /\ m.sendbuf = line
  BY <1>1, <1>2 DEF Peers
<1>5. /\ k \in Conns /\ k.inbox = line /\ k.outbox = <<>>
      /\ k.fd = conn[c].fd /\ k.end = conn[c].end
  BY <1>1, <1>2, <1>3 DEF Conns
<1>6. RightText(m, k)
  BY <1>1, <1>4, <1>5 DEF RightText
<1>7. client' = [client EXCEPT ![c] = m] /\ conn' = [conn EXCEPT ![c] = k]
  BY DEF Send
<1>8. UNCHANGED <<variant, backlog, serverVars>>
  BY DEF Send
<1> HIDE DEF m, k
<1> QED
  BY <1>1, <1>2, <1>4, <1>5, <1>6, <1>7, <1>8, ClientStep

(* read(): the answer, or nothing once the server has closed its end. *)
LEMMA ReceiveStep ==
    ASSUME EchoInv, NEW c \in Clients, Receive(c)
    PROVE  EchoInv'
<1>1. conn[c] \in Conns /\ client[c] \in Peers /\ client[c].pc = "read" /\ RightText(client[c], conn[c])
  BY DEF EchoInv, Types, Texts, Receive
<1>2. UNCHANGED <<variant, backlog, serverVars>>
  BY DEF Receive
<1>3. <<>> \in Text
  BY DEF Text
<1>4. CASE conn[c].outbox # <<>>
  <2> DEFINE m == [client[c] EXCEPT !.pc = "fgets", !.sendbuf = <<>>]
             k == [conn[c] EXCEPT !.outbox = <<>>]
  <2>1. client' = [client EXCEPT ![c] = m] /\ conn' = [conn EXCEPT ![c] = k]
    BY <1>4 DEF Receive
  <2>2. m \in Peers /\ m.pc = "fgets"
    BY <1>1, <1>3 DEF Peers
  <2>3. /\ k \in Conns /\ k.inbox = conn[c].inbox /\ k.outbox = <<>>
        /\ k.fd = conn[c].fd /\ k.end = conn[c].end
    BY <1>1, <1>3 DEF Conns
  <2>4. RightText(m, k)
    BY <1>1, <1>4, <2>2, <2>3 DEF RightText
  <2> HIDE DEF m, k
  <2> QED
    BY <1>1, <1>2, <2>1, <2>2, <2>3, <2>4, ClientStep
<1>5. CASE conn[c].outbox = <<>>
  <2> DEFINE m == [client[c] EXCEPT !.pc = "over", !.sendbuf = <<>>]
  <2>1. client' = [client EXCEPT ![c] = m] /\ conn' = conn
    BY <1>5 DEF Receive
  <2>2. conn' = [conn EXCEPT ![c] = conn[c]]
    BY <2>1 DEF EchoInv, Types
  <2>3. m \in Peers /\ m.pc = "over"
    BY <1>1, <1>3 DEF Peers
  <2>4. RightText(m, conn[c])
    BY <1>1, <1>5, <2>3 DEF RightText
  <2> HIDE DEF m
  <2> QED
    BY <1>1, <1>2, <2>1, <2>2, <2>3, <2>4, ClientStep
<1> QED
  BY <1>4, <1>5

(* The end of a client, which leaves a line it sent to be read. *)
LEMMA CloseStep ==
    ASSUME EchoInv, NEW c \in Clients, Close(c)
    PROVE  EchoInv'
<1> DEFINE e == IF conn[c].outbox # <<>> THEN "reset" ELSE "closed"
           m == [client[c] EXCEPT !.pc = "over", !.sendbuf = <<>>]
           k == [conn[c] EXCEPT !.outbox = <<>>, !.end = e]
<1>1. /\ conn[c] \in Conns /\ client[c] \in Peers /\ client[c].pc \in {"fgets", "read"}
      /\ RightText(client[c], conn[c])
  BY DEF EchoInv, Types, Texts, Close
<1>2. UNCHANGED <<variant, backlog, serverVars>>
  BY DEF Close
<1>3. <<>> \in Text
  BY DEF Text
<1>4. client' = [client EXCEPT ![c] = m] /\ conn' = [conn EXCEPT ![c] = k]
  BY DEF Close
<1>5. m \in Peers /\ m.pc = "over"
  BY <1>1, <1>3 DEF Peers
<1>6. e \in {"closed", "reset"}
  OBVIOUS
<1> HIDE DEF e
<1>7. /\ k \in Conns /\ k.inbox = conn[c].inbox /\ k.outbox = <<>>
      /\ k.fd = conn[c].fd /\ k.end = e
  BY <1>1, <1>3, <1>6 DEF Conns
<1>8. RightText(m, k)
  BY <1>1, <1>5, <1>7 DEF RightText
<1> HIDE DEF m, k
<1> QED
  BY <1>1, <1>2, <1>4, <1>5, <1>6, <1>7, <1>8, ClientStep

-----------------------------------------------------------------------------
(* The parts of a server's step. *)

(* The poll server passes over an entry that was not reported. *)
LEMMA DueSkip ==
    ASSUME NEW r, NEW S, NEW s \in Seq(S), NEW n \in 1..Len(s), s[n] \notin r
    PROVE  DueIn(r, s, n + 1) = DueIn(r, s, n)
<1>1. \A f : f \in DueIn(r, s, n + 1) => f \in DueIn(r, s, n)
  BY DEF DueIn
<1>2. \A f : f \in DueIn(r, s, n) => f \in DueIn(r, s, n + 1)
  BY DEF DueIn
<1> QED
  BY <1>1, <1>2

(* The poll server serves an entry, and goes on behind it or erases it. *)
LEMMA DueServed ==
    ASSUME NEW r, NEW S, NEW s \in Seq(S), NEW n \in 1..Len(s), IsInjective(s), s[n] \in r
    PROVE  /\ s[n] \in DueIn(r, s, n)
           /\ \A f : f \in DueIn(r, s, n + 1) <=> f \in DueIn(r, s, n) /\ f # s[n]
           /\ \A f : f \in DueIn(r, RemoveAt(s, n), n) <=> f \in DueIn(r, s, n) /\ f # s[n]
<1>1. s[n] \in DueIn(r, s, n)
  BY DEF DueIn
<1>2. \A j \in 1..Len(s) : s[j] = s[n] => j = n
  BY DEF IsInjective
<1>3. DueIn(r, s, n + 1) = DueIn(r, s, n) \ {s[n]}
  <2>1. \A f : f \in DueIn(r, s, n + 1) => f \in DueIn(r, s, n) \ {s[n]}
    BY <1>2 DEF DueIn
  <2>2. \A f : f \in DueIn(r, s, n) \ {s[n]} => f \in DueIn(r, s, n + 1)
    BY DEF DueIn
  <2> QED
    BY <2>1, <2>2
<1> DEFINE t == RemoveAt(s, n)
<1>4. /\ t \in Seq(S) /\ Len(t) = Len(s) - 1
      /\ \A j \in 1..(Len(s) - 1) : t[j] = IF j < n THEN s[j] ELSE s[j + 1]
  BY RemoveAtIs
<1> HIDE DEF t
<1>5. DueIn(r, t, n) = DueIn(r, s, n + 1)
  <2>1. ASSUME NEW f \in DueIn(r, t, n) PROVE f \in DueIn(r, s, n + 1)
    <3>1. PICK j \in 1..Len(t) : f \in r /\ j >= n /\ t[j] = f
      BY DEF DueIn
    <3>2. j + 1 \in 1..Len(s) /\ j + 1 >= n + 1 /\ s[j + 1] = f
      BY <1>4, <3>1
    <3> QED
      BY <3>1, <3>2 DEF DueIn
  <2>2. ASSUME NEW f \in DueIn(r, s, n + 1) PROVE f \in DueIn(r, t, n)
    <3>1. PICK j \in 1..Len(s) : f \in r /\ j >= n + 1 /\ s[j] = f
      BY DEF DueIn
    <3>2. j - 1 \in 1..Len(t) /\ j - 1 >= n /\ t[j - 1] = f
      BY <1>4, <3>1
    <3> QED
      BY <3>1, <3>2 DEF DueIn
  <2> QED
    BY <2>1, <2>2
<1> QED
  BY <1>1, <1>3, <1>5 DEF t

(* From the first entry on, all that was reported and is listed is due. *)
LEMMA DueFirst ==
    ASSUME NEW r, NEW S, NEW s \in Seq(S)
    PROVE  DueIn(r, s, 1) = r \cap ToSet(s)
<1>1. \A f : f \in DueIn(r, s, 1) => f \in r \cap ToSet(s)
  BY DEF DueIn, ToSet
<1>2. \A f : f \in r \cap ToSet(s) => f \in DueIn(r, s, 1)
  BY DEF DueIn, ToSet
<1> QED
  BY <1>1, <1>2

(* Sets of descriptors are finite. *)
LEMMA FdsFinite ==
    ASSUME NEW F \in SUBSET (Fds \cup {listenfd})
    PROVE  IsFiniteSet(F)
<1>1. IsFiniteSet(0..MaxFds)
  BY EchoAssumption, FS_Interval DEF EchoAssumption
<1>2. F \subseteq 0..MaxFds
  BY EchoAssumption DEF EchoAssumption, Fds, listenfd
<1> QED
  BY <1>1, <1>2, FS_Subset

(***************************************************************************)
(* The server changes its end of one connection, and at most takes that    *)
(* one from the backlog.                                                   *)
(***************************************************************************)
LEMMA ConnStep ==
    ASSUME EchoInv, NEW c \in Clients, NEW k \in Conns,
           client[c].pc # "new", RightText(client[c], k),
           conn' = [conn EXCEPT ![c] = k], UNCHANGED <<variant, client>>,
           \/ backlog' = backlog /\ (k.fd = 0 \/ conn[c].fd # 0)
           \/ backlog # <<>> /\ c = Head(backlog) /\ backlog' = Tail(backlog)
    PROVE  /\ conn' \in [Clients -> Conns] /\ backlog' \in Seq(Clients)
           /\ conn'[c] = k /\ \A d \in Clients \ {c} : conn'[d] = conn[d]
           /\ Waiting' /\ Texts'
<1>1. /\ conn \in [Clients -> Conns] /\ backlog \in Seq(Clients) /\ Waiting /\ Texts
      /\ IsInjective(backlog)
  BY DEF EchoInv, Types, Waiting
<1>2. conn' \in [Clients -> Conns] /\ conn'[c] = k /\ \A d \in Clients \ {c} : conn'[d] = conn[d]
  BY <1>1
<1>3. /\ backlog' \in Seq(Clients) /\ IsInjective(backlog')
      /\ \A d \in ToSet(backlog') : d \in ToSet(backlog) /\ (d = c => k.fd = 0)
  <2>1. CASE backlog' = backlog /\ k.fd = 0
    BY <1>1, <2>1
  <2>2. CASE backlog' = backlog /\ conn[c].fd # 0
    <3>1. c \notin ToSet(backlog)
      BY <1>1, <2>2 DEF Waiting, ToSet
    <3> QED
      BY <1>1, <2>2, <3>1
  <2>3. CASE backlog # <<>> /\ c = Head(backlog) /\ backlog' = Tail(backlog)
    BY <1>1, <2>3, TailSet
  <2> QED
    BY <2>1, <2>2, <2>3
<1>4. Waiting'
  <2>1. \A d \in ToSet(backlog) : d \in Clients /\ conn[d].fd = 0 /\ client[d].pc # "new"
    BY <1>1 DEF Waiting, ToSet
  <2>2. \A d \in ToSet(backlog') : conn'[d].fd = 0 /\ client'[d].pc # "new"
    BY <1>2, <1>3, <2>1
  <2>3. \A i \in 1..Len(backlog') : backlog'[i] \in ToSet(backlog')
    BY <1>3 DEF ToSet
  <2>4. \A d \in Clients : client'[d].pc = "new" => conn'[d] = NoConn
    BY <1>1, <1>2 DEF Waiting
  <2> QED
    BY <1>3, <2>2, <2>3, <2>4 DEF Waiting
<1>5. Texts'
  <2>1. ASSUME NEW d \in Clients PROVE RightText(client[d], conn[d])'
    <3>1. RightText(client[d], conn'[d]) /\ variant' = variant /\ client' = client
      BY <1>1, <1>2 DEF Texts
    <3> QED
      BY <3>1 DEF RightText, Reply
  <2> QED
    BY <2>1 DEF Texts
<1> QED
  BY <1>2, <1>3, <1>4, <1>5

(***************************************************************************)
(* accept4(): the first connection of the backlog gets a descriptor that   *)
(* is in no list, so that nothing in the round is about it.                *)
(***************************************************************************)
LEMMA AcceptKeeps ==
    ASSUME EchoInv, backlog # <<>>, FreeFds # {}, accept4, UNCHANGED <<variant, client>>
    PROVE  /\ conn' \in [Clients -> Conns] /\ backlog' \in Seq(Clients) /\ pollfds' \in Seq(Fds)
           /\ Waiting' /\ Texts'
           /\ Min(FreeFds) \in Fds /\ Min(FreeFds) \notin ToSet(pollfds)
           /\ IsInjective(pollfds')
           /\ ToSet(pollfds') = ToSet(pollfds) \cup {Min(FreeFds)}
           /\ ToSet(pollfds') = {conn'[c].fd : c \in Open'}
           /\ \A c, d \in Open' : conn'[c].fd = conn'[d].fd => c = d
           /\ \A c \in Clients : Readable(c)' <=> Readable(c)
           /\ \A F \in SUBSET ToSet(pollfds) :
                 {c \in Clients : conn'[c].fd \in F} = {c \in Clients : conn[c].fd \in F}
<1> DEFINE b == Head(backlog)
           n == Min(FreeFds)
           k == [conn[b] EXCEPT !.fd = n]
<1>1. Types /\ Waiting /\ Texts /\ Lists
  BY DEF EchoInv
<1>2. b \in Clients /\ conn[b] \in Conns /\ conn[b].fd = 0 /\ client[b].pc # "new"
  <2>1. backlog \in Seq(Clients) /\ Len(backlog) >= 1
    BY <1>1 DEF Types
  <2>2. b = backlog[1] /\ b \in Clients
    BY <2>1
  <2> QED
    BY <1>1, <2>1, <2>2 DEF Types, Waiting
<1>3. n \in Fds /\ n # 0 /\ \A c \in Clients : conn[c].fd # n
  BY <1>1, NewFd
<1>4. conn' = [conn EXCEPT ![b] = k] /\ backlog' = Tail(backlog) /\ pollfds' = Append(pollfds, n)
  BY DEF accept4
<1>5. /\ k \in Conns /\ k.fd = n /\ k.inbox = conn[b].inbox /\ k.end = conn[b].end
      /\ k.outbox = conn[b].outbox
  BY <1>2, <1>3 DEF Conns
<1>6. RightText(client[b], k)
  BY <1>1, <1>2, <1>5 DEF Texts, RightText
<1>7. b = Head(backlog)
  OBVIOUS
<1> HIDE DEF b, n, k
<1>8. /\ conn' \in [Clients -> Conns] /\ backlog' \in Seq(Clients)
      /\ conn'[b] = k /\ \A d \in Clients \ {b} : conn'[d] = conn[d]
      /\ Waiting' /\ Texts'
  BY <1>2, <1>4, <1>5, <1>6, <1>7, ConnStep
<1>9. \A c \in Clients : Readable(c)' <=> Readable(c)
  BY <1>5, <1>8 DEF Readable
<1>10. Open' = Open \cup {b} /\ b \notin Open
  <2>1. \A c : c \in Open' <=> c \in Open \cup {b}
    BY <1>2, <1>3, <1>5, <1>8 DEF Open
  <2> QED
    BY <1>2, <2>1 DEF Open
<1>11. \A c, d \in Open' : conn'[c].fd = conn'[d].fd => c = d
  <2>1. \A c, d \in Open : conn[c].fd = conn[d].fd => c = d
    BY <1>1 DEF Lists, ListsMatch
  <2>2. \A c \in Open : c \in Clients /\ conn'[c].fd = conn[c].fd /\ conn[c].fd # n
    BY <1>3, <1>8, <1>10 DEF Open
  <2> QED
    BY <1>5, <1>8, <1>10, <2>1, <2>2
<1>12. ToSet(pollfds) = {conn[c].fd : c \in Open}
  BY <1>1 DEF Lists, ListsMatch
<1>13. n \notin ToSet(pollfds) /\ 0 \notin ToSet(pollfds)
  BY <1>3, <1>12 DEF Open
<1>14. IsInjective(pollfds') /\ ToSet(pollfds') = ToSet(pollfds) \cup {n} /\ pollfds' \in Seq(Fds)
  <2>1. pollfds \in Seq(Fds) /\ IsInjective(pollfds)
    BY <1>1 DEF Types, Lists, ListsMatch
  <2> QED
    BY <1>3, <1>4, <1>13, <2>1, AppendSet
<1>15. {conn'[c].fd : c \in Open'} = {conn[c].fd : c \in Open} \cup {n}
  <2>1. \A c \in Open : c # b /\ c \in Clients /\ conn'[c].fd = conn[c].fd
    BY <1>8, <1>10 DEF Open
  <2> QED
    BY <1>5, <1>8, <1>10, <2>1
<1>16. ASSUME NEW F \in SUBSET ToSet(pollfds)
       PROVE {c \in Clients : conn'[c].fd \in F} = {c \in Clients : conn[c].fd \in F}
  BY <1>2, <1>5, <1>8, <1>13
<1>17. ToSet(pollfds') = {conn'[c].fd : c \in Open'}
  BY <1>12, <1>14, <1>15
<1> QED
  BY <1>3, <1>8, <1>9, <1>11, <1>13, <1>14, <1>16, <1>17 DEF n

(* A line is read whole, and its answer written for who still reads it. *)
LEMMA AnswerKeeps ==
    ASSUME EchoInv, NEW c \in Clients, Answer(c), UNCHANGED <<variant, client, backlog>>,
           conn[c].fd # 0
    PROVE  /\ conn' \in [Clients -> Conns] /\ Waiting' /\ Texts'
           /\ \A d \in Clients : conn'[d].fd = conn[d].fd
           /\ \A d \in Clients \ {c} : conn'[d] = conn[d]
           /\ conn[c].inbox # <<>>
<1> DEFINE inb == conn[c].inbox
           buf == SubSeq(inb, 1, Min({BufSize, Len(inb)}))
           out == IF client[c].pc = "over" THEN conn[c].outbox ELSE conn[c].outbox \o Reply(buf)
           k == [conn[c] EXCEPT !.inbox = SubSeq(inb, Len(buf) + 1, Len(inb)), !.outbox = out]
<1>1. /\ conn[c] \in Conns /\ client[c] \in Peers /\ RightText(client[c], conn[c])
      /\ client[c].pc = "new" => conn[c] = NoConn
  BY DEF EchoInv, Types, Texts, Waiting
<1>2. buf # <<>> /\ conn' = [conn EXCEPT ![c] = k]
  BY DEF Answer
<1>3. inb \in Lines \cup {<<>>} /\ client[c].pc # "new"
  BY <1>1 DEF RightText, Peers, NoConn
<1>4. inb \in Text /\ Len(inb) \in Nat /\ Len(inb) < BufSize
  <2>1. inb \in Text
    BY <1>1 DEF Conns
  <2>2. Len(<<>>) = 0 /\ 0 < BufSize
    BY EchoAssumption DEF EchoAssumption
  <2> QED
    BY <1>3, <2>1, <2>2, ReplyText DEF Text
<1>5. Min({BufSize, Len(inb)}) = Len(inb)
  <2> DEFINE n == Len(inb)
  <2>1. n \in Nat /\ n < BufSize /\ BufSize \in Nat
    BY <1>4, EchoAssumption DEF EchoAssumption
  <2> HIDE DEF n
  <2>2. {BufSize, n} \in SUBSET Nat /\ {BufSize, n} # {}
    BY <2>1
  <2>3. Min({BufSize, n}) \in {BufSize, n} /\ Min({BufSize, n}) =< n
    BY <2>2, LeastNat
  <2>4. Min({BufSize, n}) = n
    BY <2>1, <2>3
  <2> QED
    BY <2>4 DEF n
<1>6. buf = inb /\ inb # <<>> /\ inb \in Lines
  <2>1. SubSeq(inb, 1, Len(inb)) = inb
    BY <1>4, SubSeqFull DEF Text
  <2> QED
    BY <1>2, <1>3, <1>5, <2>1
<1>7. SubSeq(inb, Len(buf) + 1, Len(inb)) = <<>>
  <2> DEFINE n == Len(inb)
  <2>1. n \in Int /\ n + 1 \in Int /\ n < n + 1
    BY <1>4
  <2> HIDE DEF n
  <2>2. SubSeq(inb, n + 1, n) = <<>>
    BY <2>1, SubSeqEmpty
  <2> QED
    BY <1>6, <2>2 DEF n
<1>8. /\ client[c].pc = "read" => inb = client[c].sendbuf /\ conn[c].outbox = <<>>
      /\ client[c].pc \in {"read", "over"}
  BY <1>1, <1>3, <1>6 DEF RightText, Peers
<1>9. /\ client[c].pc = "read" => out = Reply(client[c].sendbuf)
      /\ client[c].pc = "over" => out = conn[c].outbox
      /\ out \in Text
  <2>1. Reply(inb) \in Text /\ <<>> \o Reply(inb) = Reply(inb)
    BY <1>6, ReplyText DEF Text
  <2>2. CASE client[c].pc = "read"
    BY <1>6, <1>8, <2>1, <2>2
  <2>3. CASE client[c].pc = "over"
    BY <1>1, <2>3 DEF Conns
  <2> QED
    BY <1>8, <2>2, <2>3
<1> HIDE DEF buf, out
<1>10. k = [conn[c] EXCEPT !.inbox = <<>>, !.outbox = out]
  BY <1>7
<1>11. <<>> \in Text
  BY DEF Text
<1>12. /\ k \in Conns /\ k.inbox = <<>> /\ k.outbox = out
       /\ k.fd = conn[c].fd /\ k.end = conn[c].end
  BY <1>1, <1>9, <1>10, <1>11 DEF Conns
<1>13. RightText(client[c], k)
  BY <1>1, <1>8, <1>9, <1>12 DEF RightText
<1> HIDE DEF k
<1>14. /\ conn' \in [Clients -> Conns] /\ Waiting' /\ Texts'
       /\ conn'[c] = k /\ \A d \in Clients \ {c} : conn'[d] = conn[d]
  BY <1>2, <1>3, <1>12, <1>13, ConnStep
<1> QED
  BY <1>6, <1>12, <1>14

(* A connection that ends leaves the set of open ones. *)
LEMMA EndedKeeps ==
    ASSUME EchoInv, NEW c \in Clients, Ended(c), UNCHANGED <<variant, client, backlog>>,
           conn[c].fd # 0
    PROVE  /\ conn' \in [Clients -> Conns] /\ Waiting' /\ Texts'
           /\ conn'[c].fd = 0 /\ \A d \in Clients \ {c} : conn'[d] = conn[d]
           /\ {conn'[d].fd : d \in Open'} = ToSet(pollfds) \ {conn[c].fd}
           /\ \A d, e \in Open' : conn'[d].fd = conn'[e].fd => d = e
<1> DEFINE k == [conn[c] EXCEPT !.fd = 0, !.shut = TRUE]
<1>1. /\ conn[c] \in Conns /\ RightText(client[c], conn[c]) /\ Lists
      /\ client[c].pc = "new" => conn[c] = NoConn
  BY DEF EchoInv, Types, Texts, Waiting
<1>2. conn' = [conn EXCEPT ![c] = k]
  BY DEF Ended
<1>n. client[c].pc # "new"
  BY <1>1 DEF NoConn
<1>3. /\ k \in Conns /\ k.fd = 0 /\ k.inbox = conn[c].inbox
      /\ k.end = conn[c].end /\ k.outbox = conn[c].outbox
  BY <1>1 DEF Conns
<1>4. RightText(client[c], k)
  BY <1>1, <1>3 DEF RightText
<1> HIDE DEF k
<1>5. /\ conn' \in [Clients -> Conns] /\ Waiting' /\ Texts'
      /\ conn'[c] = k /\ \A d \in Clients \ {c} : conn'[d] = conn[d]
  BY <1>n, <1>2, <1>3, <1>4, ConnStep
<1>6. \A d : d \in Open' <=> d \in Open \ {c}
  BY <1>3, <1>5 DEF Open
<1>7. \A d \in Open \ {c} : d \in Clients /\ conn'[d].fd = conn[d].fd
  BY <1>5 DEF Open
<1>8. /\ c \in Open /\ ToSet(pollfds) = {conn[d].fd : d \in Open}
      /\ \A d, e \in Open : conn[d].fd = conn[e].fd => d = e
  BY <1>1 DEF Open, Lists, ListsMatch
<1>9. {conn'[d].fd : d \in Open'} = {conn[d].fd : d \in Open \ {c}}
  BY <1>6, <1>7
<1>10. {conn[d].fd : d \in Open \ {c}} = {conn[d].fd : d \in Open} \ {conn[c].fd}
  BY <1>8
<1> QED
  BY <1>3, <1>5, <1>6, <1>7, <1>8, <1>9, <1>10

-----------------------------------------------------------------------------
(* echosrv_poll *)

(* poll() reports what is readable: all of it is due. *)
LEMMA PollStep ==
    ASSUME EchoInv, Poll
    PROVE  EchoInv'
<1>1. Types /\ Walks /\ Waiting /\ Texts /\ Lists /\ Rounds /\ EndsForCause
  BY DEF EchoInv
<1>2. /\ variant = "poll" /\ revents' = Reportable /\ nready' = Cardinality(Reportable)
      /\ unserved' = {c \in Open : Readable(c)} /\ pc' = "accept" /\ it' = 1
      /\ UNCHANGED <<variant, client, conn, backlog, why, pollfds, epollVars>>
  BY DEF Poll
<1>3. ToSet(pollfds) = {conn[c].fd : c \in Open} /\ \A c \in Open : c \in Clients
  BY <1>1 DEF Lists, ListsMatch, Open
<1>4. /\ Reportable \ {listenfd} \subseteq ToSet(pollfds)
      /\ listenfd \in Reportable => backlog # <<>>
  BY <1>3 DEF Reportable, listenfd, Open
<1>5. Reportable \in SUBSET (Fds \cup {listenfd})
  <2>1. ToSet(pollfds) \subseteq Fds
    BY <1>1 DEF Types, ToSet
  <2> QED
    BY <1>4, <2>1
<1>6. Cardinality(Reportable) \in Int
  BY <1>5, FdsFinite, FS_CardinalityType
<1>7. Types'
  <2>1. unserved' \in SUBSET Clients
    BY <1>2, <1>3
  <2> QED
    BY <1>1, <1>2, <1>5, <1>6, <2>1 DEF Types
<1>8. Waiting' /\ Texts' /\ EndsForCause'
  BY <1>1, <1>2 DEF Waiting, Texts, RightText, Reply, EndsForCause
<1>9. Walks'
  BY <1>1, <1>2 DEF Walks
<1>10. Lists'
  <2>1. Open' = Open
    BY <1>2 DEF Open
  <2> QED
    BY <1>1, <1>2, <2>1 DEF Lists, ListsMatch
<1>11. Due' = Reportable \ {listenfd}
  <2>1. Due' = DueIn(Reportable, pollfds, 1)
    BY <1>2 DEF Due
  <2>2. DueIn(Reportable, pollfds, 1) = Reportable \cap ToSet(pollfds)
    BY <1>1, DueFirst DEF Types
  <2>3. listenfd \notin ToSet(pollfds)
    BY <1>3 DEF listenfd, Open
  <2> QED
    BY <1>4, <2>1, <2>2, <2>3
<1>12. unserved' = {c \in Clients : conn[c].fd \in Reportable \ {listenfd}}
  <2>1. ASSUME NEW c \in Open, Readable(c) PROVE c \in Clients /\ conn[c].fd \in Reportable \ {listenfd}
    BY <2>1 DEF Reportable, listenfd, Open
  <2>2. ASSUME NEW c \in Clients, conn[c].fd \in Reportable \ {listenfd} PROVE c \in Open /\ Readable(c)
    <3>1. PICK d \in Open : Readable(d) /\ conn[d].fd = conn[c].fd
      BY <2>2 DEF Reportable
    <3>2. c \in Open
      BY <2>2 DEF Open, listenfd
    <3>3. c = d
      BY <1>1, <3>1, <3>2 DEF Lists, ListsMatch
    <3> QED
      BY <3>1, <3>2, <3>3
  <2> QED
    BY <1>2, <2>1, <2>2
<1>13. Rounds'
  <2>1. \A c \in unserved' : Readable(c)'
    BY <1>2 DEF Readable
  <2> QED
    BY <1>2, <1>4, <1>11, <1>12, <2>1 DEF Rounds
<1> QED
  BY <1>7, <1>8, <1>9, <1>10, <1>13 DEF EchoInv

(* The listening socket comes before the scan. *)
LEMMA AcceptFirstStep ==
    ASSUME EchoInv, AcceptFirst
    PROVE  EchoInv'
<1>1. Types /\ Walks /\ Waiting /\ Texts /\ Lists /\ Rounds /\ EndsForCause
  BY DEF EchoInv
<1>2. /\ variant = "poll" /\ pc = "accept"
      /\ UNCHANGED <<variant, client, revents, it, epollVars, unserved>>
  BY DEF AcceptFirst
<1>3. /\ it = 1 /\ nready = Cardinality(revents) /\ events = <<>>
      /\ revents \ {listenfd} \subseteq ToSet(pollfds)
      /\ listenfd \in revents => backlog # <<>>
      /\ unserved = {c \in Clients : conn[c].fd \in Due}
      /\ \A c \in unserved : Readable(c)
  BY <1>1, <1>2 DEF Rounds, Walks
<1>4. Due = revents \ {listenfd}
  <2>1. Due = DueIn(revents, pollfds, 1)
    BY <1>2, <1>3 DEF Due
  <2>2. DueIn(revents, pollfds, 1) = revents \cap ToSet(pollfds)
    BY <1>1, DueFirst DEF Types
  <2>3. listenfd \notin ToSet(pollfds)
    BY <1>1 DEF listenfd, Open, Lists, ListsMatch
  <2> QED
    BY <1>3, <2>1, <2>2, <2>3
<1>5. IsFiniteSet(revents) /\ Cardinality(revents) \in Nat
  BY <1>1, FdsFinite, FS_CardinalityType DEF Types
<1>6. CASE listenfd \in revents /\ FreeFds # {}
  <2>1. accept4 /\ nready' = nready - 1 /\ pc' = "scan" /\ why' = why
    BY <1>2, <1>6 DEF AcceptFirst
  <2>2. /\ conn' \in [Clients -> Conns] /\ backlog' \in Seq(Clients) /\ pollfds' \in Seq(Fds)
        /\ Waiting' /\ Texts'
        /\ Min(FreeFds) \in Fds /\ Min(FreeFds) \notin ToSet(pollfds)
        /\ IsInjective(pollfds')
        /\ ToSet(pollfds') = ToSet(pollfds) \cup {Min(FreeFds)}
        /\ ToSet(pollfds') = {conn'[c].fd : c \in Open'}
        /\ \A c, d \in Open' : conn'[c].fd = conn'[d].fd => c = d
        /\ \A c \in Clients : Readable(c)' <=> Readable(c)
        /\ \A F \in SUBSET ToSet(pollfds) :
              {c \in Clients : conn'[c].fd \in F} = {c \in Clients : conn[c].fd \in F}
    BY <1>2, <1>3, <1>6, <2>1, AcceptKeeps
  <2>3. nready' = Cardinality(revents \ {listenfd})
    BY <1>3, <1>5, <1>6, <2>1, FS_RemoveElement
  <2>4. Types'
    BY <1>1, <1>2, <1>3, <1>5, <2>1, <2>2 DEF Types
  <2>5. Walks' /\ EndsForCause'
    BY <1>1, <1>2, <2>1 DEF Walks, EndsForCause
  <2>6. Lists'
    BY <1>1, <1>2, <1>3, <2>2 DEF Lists, ListsMatch
  <2>7. Due' = revents \ {listenfd}
    <3>1. Due' = DueIn(revents, pollfds', 1)
      BY <1>2, <1>3 DEF Due
    <3>2. DueIn(revents, pollfds', 1) = revents \cap ToSet(pollfds')
      BY <2>2, DueFirst
    <3>3. listenfd \notin ToSet(pollfds')
      BY <2>2 DEF listenfd, Open
    <3>4. Min(FreeFds) \notin revents
      BY <1>3, <2>2, EchoAssumption DEF Fds, listenfd, EchoAssumption
    <3> QED
      BY <1>3, <2>2, <3>1, <3>2, <3>3, <3>4
  <2>8. unserved' = {c \in Clients : conn'[c].fd \in Due'}
    BY <1>2, <1>3, <1>4, <2>2, <2>7
  <2>9. \A c \in unserved' : Readable(c)'
    BY <1>1, <1>2, <1>3, <2>2 DEF Types
  <2>10. Rounds'
    BY <2>1, <2>3, <2>7, <2>8, <2>9 DEF Rounds
  <2> QED
    BY <2>2, <2>4, <2>5, <2>6, <2>10 DEF EchoInv
<1>7. CASE ~(listenfd \in revents /\ FreeFds # {})
  <2>1. /\ UNCHANGED <<conn, backlog, pollfds, nready>>
        /\ \/ pc' = "scan" /\ why' = why /\ listenfd \notin revents
           \/ pc' = "exit" /\ why' = "EMFILE"
    BY <1>2, <1>7 DEF AcceptFirst, Exit
  <2>2. Types'
    BY <1>1, <1>2, <2>1 DEF Types
  <2>3. Walks'
    BY <1>1, <1>2, <2>1 DEF Walks
  <2>4. EndsForCause'
    BY <1>1, <1>2, <2>1 DEF EndsForCause
  <2>5. Waiting' /\ Texts'
    BY <1>1, <1>2, <2>1 DEF Waiting, Texts, RightText, Reply
  <2>6. Lists'
    <3>1. Open' = Open
      BY <2>1 DEF Open
    <3> QED
      BY <1>1, <1>2, <2>1, <3>1 DEF Lists, ListsMatch
  <2>7. Due' = Due
    BY <1>2, <2>1 DEF Due
  <2>8. \A c \in Clients : Readable(c)' <=> Readable(c)
    BY <2>1 DEF Readable
  <2>9. pc' = "scan" => nready' = Cardinality(Due')
    <3>1. ASSUME pc' = "scan" PROVE revents \ {listenfd} = revents
      BY <2>1, <3>1
    <3> QED
      BY <1>3, <1>4, <2>1, <2>7, <3>1
  <2>10. Rounds'
    BY <1>1, <1>2, <1>3, <2>1, <2>7, <2>8, <2>9 DEF Rounds, Types
  <2> QED
    BY <2>2, <2>3, <2>4, <2>5, <2>6, <2>10 DEF EchoInv
<1> QED
  BY <1>6, <1>7

(* The entry the scan is at, and the connection it belongs to. *)
LEMMA ScanAt ==
    ASSUME EchoInv, Scan
    PROVE  /\ variant = "poll" /\ pc = "scan" /\ it \in 1..Len(pollfds) /\ events = <<>>
           /\ pollfds \in Seq(Fds) /\ IsInjective(pollfds)
           /\ pollfds[it] \in ToSet(pollfds) /\ At(pollfds[it]) \in Clients
           /\ conn[At(pollfds[it])].fd = pollfds[it] /\ pollfds[it] # 0
           /\ \A c \in Clients : conn[c].fd = pollfds[it] => c = At(pollfds[it])
           /\ Due = DueIn(revents, pollfds, it) /\ nready = Cardinality(Due)
           /\ unserved = {c \in Clients : conn[c].fd \in Due}
           /\ \A c \in unserved : Readable(c)
           /\ UNCHANGED <<variant, client, backlog, revents, epollVars>>
<1>1. Types /\ Walks /\ Lists /\ Rounds
  BY DEF EchoInv
<1>2. /\ pc = "scan" /\ it <= Len(pollfds)
      /\ UNCHANGED <<variant, client, backlog, revents, epollVars>>
  BY DEF Scan
<1>3. variant = "poll"
  BY <1>1, <1>2 DEF Walks
<1>4. it \in 1..Len(pollfds) /\ pollfds \in Seq(Fds)
  BY <1>1, <1>2 DEF Types
<1>5. pollfds[it] \in ToSet(pollfds)
  BY <1>4 DEF ToSet
<1> QED
  BY <1>1, <1>2, <1>3, <1>4, <1>5, AtOpen DEF Walks, Rounds, Due, Lists, ListsMatch

(* An entry that was not reported. *)
LEMMA ScanSkips ==
    ASSUME EchoInv, Scan, pollfds[it] \notin revents
    PROVE  EchoInv'
<1>1. Types /\ Walks /\ Waiting /\ Texts /\ Lists /\ Rounds /\ EndsForCause
  BY DEF EchoInv
<1>2. /\ variant = "poll" /\ pc = "scan" /\ it \in 1..Len(pollfds)
      /\ pollfds \in Seq(Fds) /\ Due = DueIn(revents, pollfds, it)
      /\ UNCHANGED <<variant, client, backlog, revents, epollVars>>
  BY ScanAt
<1>3. it' = it + 1 /\ UNCHANGED <<conn, pollfds, nready, unserved, pc, why>>
  BY DEF Scan
<1>4. Types'
  BY <1>1, <1>2, <1>3 DEF Types
<1>5. Walks' /\ EndsForCause' /\ Waiting' /\ Texts'
  BY <1>1, <1>2, <1>3 DEF Walks, EndsForCause, Waiting, Texts, RightText, Reply
<1>6. Lists'
  <2>1. Open' = Open
    BY <1>3 DEF Open
  <2> QED
    BY <1>1, <1>2, <1>3, <2>1 DEF Lists, ListsMatch
<1>7. Due' = Due
  <2>1. Due' = DueIn(revents, pollfds, it + 1)
    BY <1>2, <1>3 DEF Due
  <2> QED
    BY <1>2, <2>1, DueSkip
<1>8. \A c \in Clients : Readable(c)' <=> Readable(c)
  BY <1>3 DEF Readable
<1>9. Rounds'
  BY <1>1, <1>2, <1>3, <1>7, <1>8 DEF Rounds, Types
<1> QED
  BY <1>4, <1>5, <1>6, <1>9 DEF EchoInv

(* The connection that was served is not due any more, and no other is     *)
(* served by it.                                                           *)
LEMMA ServedOne ==
    ASSUME Types, Lists, NEW f \in ToSet(pollfds), NEW D, 0 \notin D,
           unserved = {c \in Clients : conn[c].fd \in D}, Served(At(f)),
           \A c \in Clients : c # At(f) => conn'[c].fd = conn[c].fd,
           conn'[At(f)].fd \in {0, f}
    PROVE  unserved' = {c \in Clients : conn'[c].fd \in D \ {f}}
<1>1. /\ At(f) \in Clients /\ conn[At(f)].fd = f /\ f # 0
      /\ \A c \in Clients : conn[c].fd = f => c = At(f)
  BY AtOpen
<1>2. unserved' = unserved \ {At(f)}
  BY DEF Served
<1>3. \A c \in Clients : c \in unserved' <=> conn'[c].fd \in D \ {f}
  BY <1>1, <1>2
<1> QED
  BY <1>2, <1>3

(* A reported entry is due, and nready counts it. *)
LEMMA ScanCounts ==
    ASSUME EchoInv, Scan, pollfds[it] \in revents
    PROVE  /\ pollfds[it] \in Due /\ 0 \notin Due
           /\ DueIn(revents, pollfds, it + 1) = Due \ {pollfds[it]}
           /\ DueIn(revents, RemoveAt(pollfds, it), it) = Due \ {pollfds[it]}
           /\ nready - 1 = Cardinality(Due \ {pollfds[it]})
<1>1. Types /\ Lists
  BY DEF EchoInv
<1>2. /\ it \in 1..Len(pollfds) /\ pollfds \in Seq(Fds) /\ IsInjective(pollfds)
      /\ Due = DueIn(revents, pollfds, it) /\ nready = Cardinality(Due)
  BY ScanAt
<1>3. 0 \notin Due
  <2>1. Due \subseteq ToSet(pollfds)
    BY <1>2 DEF DueIn, ToSet
  <2>2. 0 \notin ToSet(pollfds)
    BY <1>1 DEF Lists, ListsMatch, Open
  <2> QED
    BY <2>1, <2>2
<1>4. /\ pollfds[it] \in Due
      /\ DueIn(revents, pollfds, it + 1) = Due \ {pollfds[it]}
      /\ DueIn(revents, RemoveAt(pollfds, it), it) = Due \ {pollfds[it]}
  <2> DEFINE D == DueIn(revents, pollfds, it)
  <2>1. /\ pollfds[it] \in D
        /\ DueIn(revents, pollfds, it + 1) = D \ {pollfds[it]}
        /\ DueIn(revents, RemoveAt(pollfds, it), it) = D \ {pollfds[it]}
    <3>1. it \in 1..Len(pollfds) /\ pollfds \in Seq(Fds) /\ IsInjective(pollfds)
      BY <1>2
    <3>2. pollfds[it] \in D
      BY <3>1, DueServed
    <3>3. DueIn(revents, pollfds, it + 1) = D \ {pollfds[it]}
      BY <3>1, DueServed
    <3>4. DueIn(revents, RemoveAt(pollfds, it), it) = D \ {pollfds[it]}
      BY <3>1, DueServed
    <3> QED
      BY <3>2, <3>3, <3>4
  <2> QED
    BY <1>2, <2>1
<1>5. IsFiniteSet(Due)
  <2>1. Due \in SUBSET (Fds \cup {listenfd})
    BY <1>1, <1>2 DEF DueIn, Types
  <2> QED
    BY <2>1, FdsFinite
<1>6. nready - 1 = Cardinality(Due \ {pollfds[it]})
  <2>1. Cardinality(Due \ {pollfds[it]}) = Cardinality(Due) - 1
    BY <1>4, <1>5, FS_RemoveElement
  <2> QED
    BY <1>2, <2>1
<1> QED
  BY <1>3, <1>4, <1>6

(* A reported entry with text. *)
LEMMA ScanAnswers ==
    ASSUME EchoInv, Scan, pollfds[it] \in revents, Answer(At(pollfds[it]))
    PROVE  EchoInv'
<1> DEFINE f == pollfds[it]
<1>1. Types /\ Walks /\ Waiting /\ Texts /\ Lists /\ Rounds /\ EndsForCause
  BY DEF EchoInv
<1>2. /\ variant = "poll" /\ pc = "scan" /\ it \in 1..Len(pollfds)
      /\ pollfds \in Seq(Fds) /\ IsInjective(pollfds)
      /\ f \in ToSet(pollfds) /\ At(f) \in Clients /\ conn[At(f)].fd = f /\ f # 0
      /\ Due = DueIn(revents, pollfds, it) /\ nready = Cardinality(Due)
      /\ unserved = {c \in Clients : conn[c].fd \in Due}
      /\ \A c \in unserved : Readable(c)
      /\ UNCHANGED <<variant, client, backlog, revents, epollVars>>
  BY ScanAt
<1>3. conn[At(f)].inbox # <<>>
  BY <1>2, AnswerKeeps
<1>4. /\ it' = it + 1 /\ nready' = nready - 1 /\ Served(At(f))
      /\ UNCHANGED <<pollfds, pc, why>>
  BY <1>3 DEF Scan, Ended, ReadFails
<1>5. /\ conn' \in [Clients -> Conns] /\ Waiting' /\ Texts'
      /\ \A d \in Clients : conn'[d].fd = conn[d].fd
      /\ \A d \in Clients \ {At(f)} : conn'[d] = conn[d]
  BY <1>2, AnswerKeeps
<1>6. /\ f \in Due /\ 0 \notin Due /\ nready - 1 = Cardinality(Due \ {f})
      /\ DueIn(revents, pollfds, it + 1) = Due \ {f}
  BY ScanCounts
<1>7. unserved' = {c \in Clients : conn'[c].fd \in Due \ {f}}
  BY <1>1, <1>2, <1>4, <1>5, <1>6, ServedOne, SMTT(30)
<1>8. nready' = Cardinality(Due \ {f}) /\ nready' \in Int
  BY <1>1, <1>4, <1>6 DEF Types
<1> HIDE DEF f
<1>9. Types'
  <2>1. unserved' \in SUBSET Clients
    BY <1>7
  <2> QED
    BY <1>1, <1>2, <1>4, <1>5, <1>8, <2>1 DEF Types
<1>10. Walks' /\ EndsForCause'
  BY <1>1, <1>2, <1>4 DEF Walks, EndsForCause
<1>11. Lists'
  <2>1. Open' = Open /\ \A c \in Open : c \in Clients
    BY <1>5 DEF Open
  <2>2. {conn'[c].fd : c \in Open} = {conn[c].fd : c \in Open}
    BY <1>5, <2>1
  <2> QED
    BY <1>1, <1>2, <1>4, <1>5, <2>1, <2>2 DEF Lists, ListsMatch
<1>12. Due' = Due \ {f}
  BY <1>2, <1>4, <1>6 DEF Due
<1>13. \A c \in unserved' : Readable(c)'
  <2>1. \A c \in unserved' : c \in unserved /\ c \in Clients /\ c # At(f)
    BY <1>2, <1>4, <1>7 DEF Served
  <2> QED
    BY <1>2, <1>5, <2>1 DEF Readable
<1>14. Rounds'
  BY <1>2, <1>4, <1>7, <1>8, <1>12, <1>13 DEF Rounds
<1> QED
  BY <1>5, <1>9, <1>10, <1>11, <1>14 DEF EchoInv

(* A reported entry whose connection has ended: erase() and --it. *)
LEMMA ScanErases ==
    ASSUME EchoInv, Scan, pollfds[it] \in revents, Ended(At(pollfds[it]))
    PROVE  EchoInv'
<1> DEFINE f == pollfds[it]
<1>1. Types /\ Walks /\ Waiting /\ Texts /\ Lists /\ Rounds /\ EndsForCause
  BY DEF EchoInv
<1>2. /\ variant = "poll" /\ pc = "scan" /\ it \in 1..Len(pollfds) /\ events = <<>>
      /\ pollfds \in Seq(Fds) /\ IsInjective(pollfds)
      /\ f \in ToSet(pollfds) /\ At(f) \in Clients /\ conn[At(f)].fd = f /\ f # 0
      /\ Due = DueIn(revents, pollfds, it) /\ nready = Cardinality(Due)
      /\ unserved = {c \in Clients : conn[c].fd \in Due}
      /\ \A c \in unserved : Readable(c)
      /\ UNCHANGED <<variant, client, backlog, revents, epollVars>>
  BY ScanAt
<1>3. ~Answer(At(f)) /\ ~ReadFails(At(f))
  <2>1. conn[At(f)].inbox = <<>> /\ conn[At(f)].end = "closed"
    BY DEF Ended
  <2>2. ASSUME Answer(At(f)) PROVE FALSE
    <3>1. conn[At(f)].inbox # <<>>
      BY <1>2, <2>2, AnswerKeeps
    <3> QED
      BY <2>1, <3>1
  <2> QED
    BY <2>1, <2>2 DEF ReadFails
<1>4. /\ it' = it /\ pollfds' = RemoveAt(pollfds, it) /\ nready' = nready - 1 /\ Served(At(f))
      /\ UNCHANGED <<pc, why>>
  BY <1>3 DEF Scan, Erase
<1>5. /\ conn' \in [Clients -> Conns] /\ Waiting' /\ Texts'
      /\ conn'[At(f)].fd = 0 /\ \A d \in Clients \ {At(f)} : conn'[d] = conn[d]
      /\ {conn'[d].fd : d \in Open'} = ToSet(pollfds) \ {f}
      /\ \A d, e \in Open' : conn'[d].fd = conn'[e].fd => d = e
  BY <1>2, EndedKeeps
<1>6. /\ f \in Due /\ 0 \notin Due /\ nready - 1 = Cardinality(Due \ {f})
      /\ DueIn(revents, RemoveAt(pollfds, it), it) = Due \ {f}
  BY ScanCounts
<1>7. unserved' = {c \in Clients : conn'[c].fd \in Due \ {f}}
  BY <1>1, <1>2, <1>4, <1>5, <1>6, ServedOne
<1>8. nready' = Cardinality(Due \ {f}) /\ nready' \in Int
  BY <1>1, <1>4, <1>6 DEF Types
<1>9. /\ pollfds' \in Seq(Fds) /\ IsInjective(pollfds') /\ ToSet(pollfds') = ToSet(pollfds) \ {f}
  BY <1>2, <1>4, RemoveAtIs, RemoveAtSet
<1> HIDE DEF f
<1>10. Types'
  <2>1. unserved' \in SUBSET Clients
    BY <1>7
  <2> QED
    BY <1>1, <1>2, <1>4, <1>5, <1>8, <1>9, <2>1 DEF Types
<1>11. Walks' /\ EndsForCause'
  BY <1>1, <1>2, <1>4 DEF Walks, EndsForCause
<1>12. Lists'
  <2>1. ToSet(pollfds)' = {conn'[d].fd : d \in Open'}
    BY <1>5, <1>9
  <2>2. events' = <<>> /\ IsInjective(events') /\ variant' = "poll"
    BY <1>1, <1>2 DEF Lists
  <2> QED
    BY <1>5, <1>9, <2>1, <2>2 DEF Lists, ListsMatch
<1>13. Due' = Due \ {f}
  BY <1>2, <1>4, <1>6 DEF Due
<1>14. \A c \in unserved' : Readable(c)'
  <2>1. \A c \in unserved' : c \in unserved /\ c \in Clients /\ c # At(f)
    BY <1>2, <1>4, <1>7 DEF Served
  <2> QED
    BY <1>2, <1>5, <2>1 DEF Readable
<1>15. Rounds'
  BY <1>2, <1>4, <1>7, <1>8, <1>13, <1>14 DEF Rounds
<1> QED
  BY <1>5, <1>10, <1>11, <1>12, <1>15 DEF EchoInv

(* read() fails on a connection that was reset, never on one without text. *)
LEMMA ReadFailsFor ==
    ASSUME EchoInv, NEW c \in Clients, Readable(c), ReadFails(c)
    PROVE  pc' = "exit" /\ why' = "ECONNRESET" /\ conn' = conn
<1>1. conn[c].inbox = <<>> /\ conn[c].end # "no" /\ conn[c].end # "closed"
  BY DEF Readable, ReadFails
<1>2. conn[c].end \in {"no", "closed", "reset"}
  BY DEF EchoInv, Types, Conns
<1> QED
  BY <1>1, <1>2 DEF ReadFails, Exit

(* A reported entry that was reset ends the server. *)
LEMMA ScanFails ==
    ASSUME EchoInv, Scan, pollfds[it] \in revents, ReadFails(At(pollfds[it]))
    PROVE  EchoInv'
<1> DEFINE f == pollfds[it]
<1>1. Types /\ Walks /\ Waiting /\ Texts /\ Lists /\ Rounds /\ EndsForCause
  BY DEF EchoInv
<1>2. /\ variant = "poll" /\ pc = "scan" /\ it \in 1..Len(pollfds)
      /\ pollfds \in Seq(Fds) /\ IsInjective(pollfds)
      /\ At(f) \in Clients /\ conn[At(f)].fd = f /\ f # 0
      /\ Due = DueIn(revents, pollfds, it)
      /\ unserved = {c \in Clients : conn[c].fd \in Due}
      /\ \A c \in unserved : Readable(c)
      /\ UNCHANGED <<variant, client, backlog, revents, epollVars>>
  BY ScanAt
<1>3. f \in Due
  BY <1>2, DueServed
<1>4. pc' = "exit" /\ why' = "ECONNRESET" /\ conn' = conn
  BY <1>2, <1>3, ReadFailsFor
<1>5. ~Answer(At(f)) /\ ~Ended(At(f))
  <2>1. ASSUME Answer(At(f)) PROVE FALSE
    <3>1. conn[At(f)].inbox # <<>>
      BY <1>2, <2>1, AnswerKeeps
    <3> QED
      BY <3>1 DEF ReadFails
  <2> QED
    BY <2>1 DEF ReadFails, Ended
<1>6. nready' = nready - 1 /\ Served(At(f)) /\ UNCHANGED <<pollfds, it>>
  BY <1>5 DEF Scan
<1>7. Types'
  BY <1>1, <1>2, <1>4, <1>6 DEF Types, Served
<1>8. Walks' /\ EndsForCause'
  BY <1>1, <1>2, <1>4 DEF Walks, EndsForCause
<1>9. Waiting' /\ Texts'
  BY <1>1, <1>2, <1>4 DEF Waiting, Texts, RightText, Reply
<1>10. Lists'
  <2>1. Open' = Open
    BY <1>4 DEF Open
  <2> QED
    BY <1>1, <1>2, <1>4, <1>6, <2>1 DEF Lists, ListsMatch
<1>11. Rounds'
  BY <1>4 DEF Rounds
<1> QED
  BY <1>7, <1>8, <1>9, <1>10, <1>11 DEF EchoInv

(***************************************************************************)
(* The scan ends at the end of the list or with nready at 0: in both cases *)
(* nothing is due any more.                                                *)
(***************************************************************************)
LEMMA ScanEndsStep ==
    ASSUME EchoInv, ScanEnds
    PROVE  EchoInv'
<1>1. Types /\ Walks /\ Waiting /\ Texts /\ Lists /\ Rounds /\ EndsForCause
  BY DEF EchoInv
<1>2. /\ pc = "scan" /\ (it > Len(pollfds) \/ nready = 0)
      /\ pc' = "poll" /\ revents' = {} /\ it' = 1 /\ nready' = 0
      /\ UNCHANGED <<variant, client, conn, backlog, why, pollfds, epollVars, unserved>>
  BY DEF ScanEnds
<1>3. variant = "poll" /\ events = <<>> /\ nready = Cardinality(Due)
  BY <1>1, <1>2 DEF Walks, Rounds
<1>4. Due = DueIn(revents, pollfds, it) /\ IsFiniteSet(Due)
  <2>1. Due = DueIn(revents, pollfds, it)
    BY <1>3 DEF Due
  <2>2. Due \subseteq Fds \cup {listenfd}
    BY <1>1, <2>1 DEF DueIn, Types
  <2> QED
    BY <2>1, <2>2, FdsFinite
<1>5. Due = {}
  <2>1. CASE it > Len(pollfds)
    BY <1>1, <1>4, <2>1 DEF DueIn, Types
  <2>2. CASE nready = 0
    BY <1>3, <1>4, <2>2, FS_EmptySet
  <2> QED
    BY <1>2, <2>1, <2>2
<1>6. unserved = {}
  BY <1>1, <1>2, <1>5 DEF Rounds
<1>7. Types'
  BY <1>1, <1>2 DEF Types
<1>8. Walks' /\ EndsForCause'
  BY <1>1, <1>2, <1>3 DEF Walks, EndsForCause
<1>9. Waiting' /\ Texts'
  BY <1>1, <1>2 DEF Waiting, Texts, RightText, Reply
<1>10. Lists'
  <2>1. Open' = Open
    BY <1>2 DEF Open
  <2> QED
    BY <1>1, <1>2, <2>1 DEF Lists, ListsMatch
<1>11. Due' = {}
  BY <1>2, <1>3 DEF Due, DueIn
<1>12. Rounds'
  BY <1>2, <1>6, <1>11 DEF Rounds
<1> QED
  BY <1>7, <1>8, <1>9, <1>10, <1>12 DEF EchoInv

(* One turn of the scan, whatever the entry. *)
LEMMA ScanStep ==
    ASSUME EchoInv, Scan
    PROVE  EchoInv'
<1>1. CASE pollfds[it] \notin revents
  BY <1>1, ScanSkips
<1>2. CASE pollfds[it] \in revents
  <2>1. \/ Answer(At(pollfds[it])) \/ Ended(At(pollfds[it])) \/ ReadFails(At(pollfds[it]))
    BY <1>2 DEF Scan
  <2> QED
    BY <1>2, <2>1, ScanAnswers, ScanErases, ScanFails
<1> QED
  BY <1>1, <1>2

-----------------------------------------------------------------------------
(* echosrv_epoll and echorevsrv_epoll *)

(* epoll_wait() reports some of what is readable, each once. *)
LEMMA EpollWaitStep ==
    ASSUME EchoInv, EpollWait
    PROVE  EchoInv'
<1> DEFINE n == Min({Cardinality(Reportable), capacity})
<1>1. Types /\ Walks /\ Waiting /\ Texts /\ Lists /\ Rounds /\ EndsForCause
  BY DEF EchoInv
<1>2. /\ variant # "poll" /\ pc = "poll" /\ n > 0
      /\ capacity' = IF n = capacity THEN 2 * capacity ELSE capacity
      /\ unserved' = {c \in Open : conn[c].fd \in ToSet(events')}
      /\ pc' = "events"
      /\ UNCHANGED <<variant, client, conn, backlog, why, pollfds, pollVars, interest>>
  BY DEF EpollWait
<1>3. PICK order \in SetToSeqs(Reportable) : events' = SubSeq(order, 1, n)
  BY DEF EpollWait
<1>4. ToSet(pollfds) = {conn[c].fd : c \in Open} /\ \A c \in Open : c \in Clients /\ conn[c].fd # 0
  BY <1>1 DEF Lists, ListsMatch, Open
<1>5. /\ Reportable \subseteq {listenfd} \cup ToSet(pollfds)
      /\ listenfd \in Reportable => backlog # <<>>
  BY <1>4 DEF Reportable, listenfd
<1>6. Reportable \in SUBSET (Fds \cup {listenfd})
  <2>1. ToSet(pollfds) \subseteq Fds
    BY <1>1 DEF Types, ToSet
  <2> QED
    BY <1>5, <2>1
<1>7. Cardinality(Reportable) \in Nat /\ capacity \in Nat
  BY <1>1, <1>6, FdsFinite, FS_CardinalityType DEF Types
<1>8. n \in Nat /\ n <= Cardinality(Reportable)
  <2> DEFINE r == Cardinality(Reportable)
  <2> HIDE DEF r
  <2>1. r \in Nat
    BY <1>7 DEF r
  <2>2. {r, capacity} \in SUBSET Nat /\ {r, capacity} # {}
    BY <1>7, <2>1
  <2>3. Min({r, capacity}) \in {r, capacity} /\ Min({r, capacity}) =< r
    BY <2>2, LeastNat
  <2> QED
    BY <1>7, <2>1, <2>3 DEF r
<1> HIDE DEF n
<1>9. /\ order \in [1..Cardinality(Reportable) -> Reportable]
      /\ \A i, j \in 1..Cardinality(Reportable) : i # j => order[i] # order[j]
  BY DEF SetToSeqs
<1>10. /\ events' \in Seq(Reportable) /\ Len(events') = n
       /\ \A i \in 1..n : events'[i] = order[i]
  <2>1. order \in Seq(Reportable) /\ Len(order) = Cardinality(Reportable)
    BY <1>7, <1>9, FunctionIsSeq
  <2> QED
    BY <1>3, <1>7, <1>8, <2>1
<1>11. IsInjective(events') /\ events' # <<>> /\ ToSet(events') \subseteq Reportable
  <2>1. IsInjective(events')
    BY <1>7, <1>8, <1>9, <1>10 DEF IsInjective
  <2>2. ToSet(events') \subseteq Reportable
    BY <1>10 DEF ToSet
  <2>3. events' # <<>>
    BY <1>2, <1>8, <1>10
  <2> QED
    BY <2>1, <2>2, <2>3
<1>12. Types'
  <2>1. events' \in Seq(Fds \cup {listenfd})
    BY <1>6, <1>10
  <2>2. capacity' \in Nat \ {0}
    BY <1>1, <1>2 DEF Types
  <2>3. unserved' \in SUBSET Clients
    BY <1>2, <1>4
  <2> QED
    BY <1>1, <1>2, <2>1, <2>2, <2>3 DEF Types
<1>13. Walks' /\ EndsForCause'
  BY <1>1, <1>2, <1>11 DEF Walks, EndsForCause
<1>14. Waiting' /\ Texts'
  BY <1>1, <1>2 DEF Waiting, Texts, RightText, Reply
<1>15. Lists'
  <2>1. Open' = Open
    BY <1>2 DEF Open
  <2>2. \A i \in 1..Len(events') : events'[i] \in {listenfd} \cup ToSet(pollfds)
    BY <1>5, <1>10, <1>11 DEF ToSet
  <2> QED
    BY <1>1, <1>2, <1>11, <2>1, <2>2 DEF Lists, ListsMatch
<1>16. Due' = ToSet(events') \ {listenfd}
  BY <1>2 DEF Due
<1>17. unserved' = {c \in Clients : conn'[c].fd \in Due'}
  BY <1>2, <1>4, <1>16 DEF Open, listenfd
<1>18. ASSUME NEW c \in unserved' PROVE Readable(c)'
  <2>1. c \in Open /\ conn[c].fd \in Reportable /\ conn[c].fd # 0
    BY <1>2, <1>4, <1>11
  <2>2. PICK d \in Open : Readable(d) /\ conn[d].fd = conn[c].fd
    BY <2>1 DEF Reportable, listenfd
  <2>3. c = d
    BY <1>1, <2>1, <2>2 DEF Lists, ListsMatch
  <2> QED
    BY <1>2, <2>2, <2>3 DEF Readable
<1>19. Rounds'
  BY <1>2, <1>5, <1>11, <1>17, <1>18 DEF Rounds
<1> QED
  BY <1>12, <1>13, <1>14, <1>15, <1>19 DEF EchoInv

(* The event the loop is at, and what ++i leaves. *)
LEMMA EventAt ==
    ASSUME EchoInv, pc = "events"
    PROVE  /\ variant # "poll" /\ events # <<>>
           /\ events \in Seq(Fds \cup {listenfd}) /\ IsInjective(events)
           /\ Head(events) \in ToSet(events)
           /\ Head(events) \in {listenfd} \cup ToSet(pollfds)
           /\ Due = ToSet(events) \ {listenfd} /\ Due \subseteq ToSet(pollfds)
           /\ interest = ToSet(pollfds) /\ listenfd \notin ToSet(pollfds)
           /\ unserved = {c \in Clients : conn[c].fd \in Due}
           /\ \A c \in unserved : Readable(c)
           /\ listenfd \in ToSet(events) => backlog # <<>>
           /\ NextEvent =>
                /\ events' \in Seq(Fds \cup {listenfd}) /\ IsInjective(events')
                /\ ToSet(events') = ToSet(events) \ {Head(events)}
                /\ pc' \in {"poll", "events"} /\ (pc' = "events" <=> events' # <<>>)
<1>1. Types /\ Walks /\ Lists /\ Rounds
  BY DEF EchoInv
<1>2. variant # "poll" /\ events # <<>> /\ events \in Seq(Fds \cup {listenfd}) /\ IsInjective(events)
  BY <1>1 DEF Walks, Types, Lists
<1>3. /\ Tail(events) \in Seq(Fds \cup {listenfd}) /\ IsInjective(Tail(events))
      /\ Head(events) \in ToSet(events)
      /\ ToSet(Tail(events)) = ToSet(events) \ {Head(events)}
      /\ Len(events) = 1 <=> Tail(events) = <<>>
  BY <1>2, TailSet
<1>4. ToSet(events) \subseteq {listenfd} \cup ToSet(pollfds)
  BY <1>1, <1>2 DEF Lists, ListsMatch, ToSet
<1>5. listenfd \notin ToSet(pollfds) /\ interest = ToSet(pollfds)
  BY <1>1, <1>2 DEF Lists, ListsMatch, Open, listenfd
<1>6. Due = ToSet(events) \ {listenfd}
  BY <1>2 DEF Due
<1>7. /\ unserved = {c \in Clients : conn[c].fd \in Due} /\ \A c \in unserved : Readable(c)
      /\ listenfd \in ToSet(events) => backlog # <<>>
  BY <1>1 DEF Rounds
<1> QED
  BY <1>2, <1>3, <1>4, <1>5, <1>6, <1>7 DEF NextEvent

(* A new connection joins both lists. *)
LEMMA EventAcceptStep ==
    ASSUME EchoInv, EventAccept
    PROVE  EchoInv'
<1>1. Types /\ Walks /\ Waiting /\ Texts /\ Lists /\ Rounds /\ EndsForCause
  BY DEF EchoInv
<1>2. /\ pc = "events" /\ Head(events) = listenfd /\ FreeFds # {} /\ accept4 /\ NextEvent
      /\ interest' = interest \cup {Min(FreeFds)}
      /\ UNCHANGED <<variant, client, why, pollVars, capacity, unserved>>
  BY DEF EventAccept
<1>3. /\ variant # "poll" /\ Head(events) \in ToSet(events)
      /\ Due = ToSet(events) \ {listenfd} /\ Due \subseteq ToSet(pollfds)
      /\ interest = ToSet(pollfds) /\ listenfd \notin ToSet(pollfds)
      /\ unserved = {c \in Clients : conn[c].fd \in Due}
      /\ \A c \in unserved : Readable(c)
      /\ listenfd \in ToSet(events) => backlog # <<>>
      /\ events' \in Seq(Fds \cup {listenfd}) /\ IsInjective(events')
      /\ ToSet(events') = ToSet(events) \ {Head(events)}
      /\ pc' \in {"poll", "events"} /\ (pc' = "events" <=> events' # <<>>)
  BY <1>2, EventAt
<1>4. /\ conn' \in [Clients -> Conns] /\ backlog' \in Seq(Clients) /\ pollfds' \in Seq(Fds)
      /\ Waiting' /\ Texts'
      /\ Min(FreeFds) \in Fds
      /\ IsInjective(pollfds')
      /\ ToSet(pollfds') = ToSet(pollfds) \cup {Min(FreeFds)}
      /\ ToSet(pollfds') = {conn'[c].fd : c \in Open'}
      /\ \A c, d \in Open' : conn'[c].fd = conn'[d].fd => c = d
      /\ \A c \in Clients : Readable(c)' <=> Readable(c)
      /\ \A F \in SUBSET ToSet(pollfds) :
            {c \in Clients : conn'[c].fd \in F} = {c \in Clients : conn[c].fd \in F}
  BY <1>2, <1>3, AcceptKeeps
<1>5. ToSet(events') = Due
  BY <1>2, <1>3
<1>6. Types'
  BY <1>1, <1>2, <1>3, <1>4 DEF Types
<1>7. EndsForCause'
  BY <1>1, <1>2 DEF EndsForCause
<1>8. Walks'
  BY <1>1, <1>2, <1>3 DEF Walks
<1>9. Lists'
  <2>1. interest' = ToSet(pollfds')
    BY <1>2, <1>3, <1>4
  <2>2. \A i \in 1..Len(events') : events'[i] \in ToSet(events')
    BY <1>3 DEF ToSet
  <2>3. \A i \in 1..Len(events') : events'[i] \in {listenfd} \cup ToSet(pollfds')
    BY <1>3, <1>4, <1>5, <2>2
  <2> QED
    BY <1>3, <1>4, <2>1, <2>3 DEF Lists, ListsMatch
<1>10. Due' = Due
  BY <1>2, <1>3, <1>5 DEF Due
<1>11. unserved' = {c \in Clients : conn'[c].fd \in Due'}
  BY <1>2, <1>3, <1>4, <1>10
<1>12. \A c \in unserved' : Readable(c)'
  BY <1>1, <1>2, <1>3, <1>4 DEF Types
<1>13. Rounds'
  BY <1>3, <1>5, <1>11, <1>12 DEF Rounds
<1> QED
  BY <1>4, <1>6, <1>7, <1>8, <1>9, <1>13 DEF EchoInv

(* A client that is turned away leaves the backlog and joins no list. *)
LEMMA EventShedStep ==
    ASSUME EchoInv, EventShed
    PROVE  EchoInv'
<1> DEFINE b == Head(backlog)
           k == [conn[b] EXCEPT !.shut = TRUE]
<1>1. Types /\ Walks /\ Waiting /\ Texts /\ Lists /\ Rounds /\ EndsForCause
  BY DEF EchoInv
<1>2. /\ pc = "events" /\ Head(events) = listenfd /\ NextEvent
      /\ conn' = [conn EXCEPT ![b] = k] /\ backlog' = Tail(backlog)
      /\ UNCHANGED <<variant, client, why, pollfds, pollVars, interest, capacity, unserved>>
  BY DEF EventShed
<1>3. /\ variant # "poll" /\ Head(events) \in ToSet(events)
      /\ Due = ToSet(events) \ {listenfd} /\ Due \subseteq ToSet(pollfds)
      /\ interest = ToSet(pollfds) /\ listenfd \notin ToSet(pollfds)
      /\ unserved = {c \in Clients : conn[c].fd \in Due}
      /\ \A c \in unserved : Readable(c)
      /\ listenfd \in ToSet(events) => backlog # <<>>
      /\ events' \in Seq(Fds \cup {listenfd}) /\ IsInjective(events')
      /\ ToSet(events') = ToSet(events) \ {Head(events)}
      /\ pc' \in {"poll", "events"} /\ (pc' = "events" <=> events' # <<>>)
  BY <1>2, EventAt
<1>4. backlog # <<>> /\ backlog \in Seq(Clients)
  BY <1>1, <1>2, <1>3 DEF Types
<1>5. b \in Clients /\ conn[b].fd = 0 /\ client[b].pc # "new"
  BY <1>1, <1>4 DEF Waiting
<1>6. conn[b] \in Conns /\ RightText(client[b], conn[b])
  BY <1>1, <1>5 DEF Types, Texts
<1>7. /\ k \in Conns /\ k.fd = 0 /\ k.inbox = conn[b].inbox
      /\ k.end = conn[b].end /\ k.outbox = conn[b].outbox
  BY <1>5, <1>6 DEF Conns
<1>8. RightText(client[b], k)
  BY <1>6, <1>7 DEF RightText
<1> HIDE DEF k, b
<1>9. /\ conn' \in [Clients -> Conns] /\ backlog' \in Seq(Clients) /\ Waiting' /\ Texts'
      /\ conn'[b] = k /\ \A d \in Clients \ {b} : conn'[d] = conn[d]
  BY <1>2, <1>4, <1>5, <1>7, <1>8, ConnStep DEF b
<1>10. \A c \in Clients : conn'[c].fd = conn[c].fd /\ (Readable(c)' <=> Readable(c))
  BY <1>5, <1>7, <1>9 DEF Readable
<1>11. Open' = Open
  BY <1>10 DEF Open
<1>12. ToSet(events') = Due /\ Due' = Due
  BY <1>2, <1>3 DEF Due
<1>13. Types'
  BY <1>1, <1>2, <1>3, <1>9 DEF Types
<1>14. EndsForCause'
  BY <1>1, <1>2 DEF EndsForCause
<1>15. Walks'
  BY <1>1, <1>2, <1>3 DEF Walks
<1>16. Lists'
  <2>1. \A i \in 1..Len(events') : events'[i] \in ToSet(events')
    BY <1>3 DEF ToSet
  <2>2. \A i \in 1..Len(events') : events'[i] \in {listenfd} \cup ToSet(pollfds')
    BY <1>2, <1>3, <1>12, <2>1
  <2>3. /\ IsInjective(pollfds) /\ ToSet(pollfds) = {conn[c].fd : c \in Open}
        /\ \A c, d \in Open : conn[c].fd = conn[d].fd => c = d
    BY <1>1 DEF Lists, ListsMatch
  <2>4. \A c \in Open : conn'[c].fd = conn[c].fd
    BY <1>10 DEF Open
  <2>5. /\ ToSet(pollfds') = {conn'[c].fd : c \in Open'}
        /\ \A c, d \in Open' : conn'[c].fd = conn'[d].fd => c = d
    BY <1>2, <1>11, <2>3, <2>4
  <2> QED
    BY <1>2, <1>3, <2>2, <2>3, <2>5 DEF Lists, ListsMatch
<1>17. unserved' = {c \in Clients : conn'[c].fd \in Due'}
  BY <1>2, <1>3, <1>10, <1>12
<1>18. \A c \in unserved' : Readable(c)'
  BY <1>2, <1>3, <1>10
<1>19. Rounds'
  BY <1>3, <1>12, <1>17, <1>18 DEF Rounds
<1> QED
  BY <1>9, <1>13, <1>14, <1>15, <1>16, <1>19 DEF EchoInv

(* An event of a connection is due, and the connection is the one reported. *)
LEMMA ServeAt ==
    ASSUME EchoInv, EventServe
    PROVE  /\ pc = "events" /\ Head(events) \in ToSet(pollfds) /\ Head(events) \in Due
           /\ At(Head(events)) \in Clients /\ conn[At(Head(events))].fd = Head(events)
           /\ Head(events) # 0 /\ 0 \notin Due
           /\ Readable(At(Head(events)))
           /\ Served(At(Head(events))) /\ unserved' \in SUBSET Clients
           /\ UNCHANGED <<variant, client, backlog, pollVars, capacity>>
<1>1. Types /\ Lists
  BY DEF EchoInv
<1>2. /\ pc = "events" /\ Head(events) # listenfd /\ Served(At(Head(events)))
      /\ UNCHANGED <<variant, client, backlog, pollVars, capacity>>
  BY DEF EventServe
<1>3. /\ Head(events) \in ToSet(events)
      /\ Head(events) \in {listenfd} \cup ToSet(pollfds)
      /\ Due = ToSet(events) \ {listenfd}
      /\ unserved = {c \in Clients : conn[c].fd \in Due}
      /\ \A c \in unserved : Readable(c)
  BY <1>2, EventAt
<1>4. /\ At(Head(events)) \in Clients /\ conn[At(Head(events))].fd = Head(events)
      /\ Head(events) # 0
  BY <1>1, <1>2, <1>3, AtOpen
<1>5. 0 \notin Due /\ Head(events) \in Due
  BY <1>2, <1>3 DEF listenfd
<1>6. unserved' \in SUBSET Clients
  BY <1>1, <1>2 DEF Types, Served
<1> QED
  BY <1>2, <1>3, <1>4, <1>5, <1>6

(* The text of a reported connection is answered. *)
LEMMA ServeAnswers ==
    ASSUME EchoInv, EventServe, Answer(At(Head(events)))
    PROVE  EchoInv'
<1> DEFINE f == Head(events)
           c == At(f)
<1>1. Types /\ Walks /\ Waiting /\ Texts /\ Lists /\ Rounds /\ EndsForCause
  BY DEF EchoInv
<1>2. /\ pc = "events" /\ f \in ToSet(pollfds) /\ f \in Due /\ c \in Clients /\ conn[c].fd = f
      /\ f # 0 /\ 0 \notin Due /\ Served(c) /\ unserved' \in SUBSET Clients
      /\ UNCHANGED <<variant, client, backlog, pollVars, capacity>>
  BY ServeAt
<1>3. /\ conn' \in [Clients -> Conns] /\ Waiting' /\ Texts'
      /\ \A d \in Clients : conn'[d].fd = conn[d].fd
      /\ \A d \in Clients \ {c} : conn'[d] = conn[d]
      /\ conn[c].inbox # <<>>
  BY <1>2, AnswerKeeps
<1>4. NextEvent /\ UNCHANGED <<pollfds, interest, why>>
  BY <1>3 DEF EventServe, Ended, ReadFails
<1>5. /\ variant # "poll" /\ f \in ToSet(events)
      /\ Due = ToSet(events) \ {listenfd} /\ Due \subseteq ToSet(pollfds)
      /\ interest = ToSet(pollfds)
      /\ unserved = {d \in Clients : conn[d].fd \in Due}
      /\ \A d \in unserved : Readable(d)
      /\ listenfd \in ToSet(events) => backlog # <<>>
      /\ events' \in Seq(Fds \cup {listenfd}) /\ IsInjective(events')
      /\ ToSet(events') = ToSet(events) \ {f}
      /\ pc' \in {"poll", "events"} /\ (pc' = "events" <=> events' # <<>>)
  BY <1>2, <1>4, EventAt
<1>6. unserved' = {d \in Clients : conn'[d].fd \in Due \ {f}}
  BY <1>1, <1>2, <1>3, <1>5, ServedOne
<1> HIDE DEF f, c
<1>7. Due' = Due \ {f}
  BY <1>2, <1>5 DEF Due
<1>8. Open' = Open
  BY <1>3 DEF Open
<1>9. Types'
  BY <1>1, <1>2, <1>3, <1>4, <1>5 DEF Types
<1>10. EndsForCause'
  BY <1>1, <1>2, <1>4 DEF EndsForCause
<1>11. Walks'
  BY <1>1, <1>2, <1>5 DEF Walks
<1>12. Lists'
  <2>1. \A i \in 1..Len(events') : events'[i] \in ToSet(events')
    BY <1>5 DEF ToSet
  <2>2. \A i \in 1..Len(events') : events'[i] \in {listenfd} \cup ToSet(pollfds')
    BY <1>4, <1>5, <2>1
  <2>3. /\ IsInjective(pollfds) /\ ToSet(pollfds) = {conn[d].fd : d \in Open}
        /\ \A d, e \in Open : conn[d].fd = conn[e].fd => d = e
    BY <1>1 DEF Lists, ListsMatch
  <2>4. \A d \in Open : conn'[d].fd = conn[d].fd
    BY <1>3 DEF Open
  <2>5. /\ ToSet(pollfds') = {conn'[d].fd : d \in Open'}
        /\ \A d, e \in Open' : conn'[d].fd = conn'[e].fd => d = e
    BY <1>4, <1>8, <2>3, <2>4
  <2> QED
    BY <1>4, <1>5, <2>2, <2>3, <2>5 DEF Lists, ListsMatch
<1>13. \A d \in unserved' : Readable(d)'
  <2>1. \A d \in unserved' : d \in Clients \ {c} /\ d \in unserved
    BY <1>2, <1>3, <1>5, <1>6
  <2>2. \A d \in unserved' : Readable(d) /\ conn'[d] = conn[d]
    BY <1>3, <1>5, <2>1
  <2> QED
    BY <2>2 DEF Readable
<1>14. listenfd \in ToSet(events') => backlog' # <<>>
  BY <1>2, <1>5
<1>15. Rounds'
  BY <1>5, <1>6, <1>7, <1>13, <1>14 DEF Rounds
<1> QED
  BY <1>3, <1>9, <1>10, <1>11, <1>12, <1>15 DEF EchoInv

(* A reported connection that was closed leaves both lists. *)
LEMMA ServeEnds ==
    ASSUME EchoInv, EventServe, Ended(At(Head(events)))
    PROVE  EchoInv'
<1> DEFINE f == Head(events)
           c == At(f)
<1>1. Types /\ Walks /\ Waiting /\ Texts /\ Lists /\ Rounds /\ EndsForCause
  BY DEF EchoInv
<1>2. /\ pc = "events" /\ f \in ToSet(pollfds) /\ f \in Due /\ c \in Clients /\ conn[c].fd = f
      /\ f # 0 /\ 0 \notin Due /\ Served(c) /\ unserved' \in SUBSET Clients
      /\ UNCHANGED <<variant, client, backlog, pollVars, capacity>>
  BY ServeAt
<1>3. /\ conn' \in [Clients -> Conns] /\ Waiting' /\ Texts'
      /\ conn'[c].fd = 0 /\ \A d \in Clients \ {c} : conn'[d] = conn[d]
      /\ {conn'[d].fd : d \in Open'} = ToSet(pollfds) \ {f}
      /\ \A d, e \in Open' : conn'[d].fd = conn'[e].fd => d = e
  BY <1>2, EndedKeeps
<1>4. /\ NextEvent /\ interest' = interest \ {f} /\ pollfds' = RemoveFirst(pollfds, f)
      /\ UNCHANGED why
  <2>1. ~Answer(c)
    <3>1. ASSUME Answer(c) PROVE FALSE
      <4>1. conn[c].inbox # <<>>
        BY <1>2, <3>1, AnswerKeeps
      <4> QED
        BY <4>1 DEF Ended
    <3> QED
      BY <3>1
  <2>2. ~ReadFails(c)
    BY DEF Ended, ReadFails
  <2> QED
    BY <2>1, <2>2 DEF EventServe
<1>5. /\ variant # "poll" /\ f \in ToSet(events)
      /\ Due = ToSet(events) \ {listenfd} /\ Due \subseteq ToSet(pollfds)
      /\ interest = ToSet(pollfds)
      /\ unserved = {d \in Clients : conn[d].fd \in Due}
      /\ \A d \in unserved : Readable(d)
      /\ listenfd \in ToSet(events) => backlog # <<>>
      /\ events' \in Seq(Fds \cup {listenfd}) /\ IsInjective(events')
      /\ ToSet(events') = ToSet(events) \ {f}
      /\ pc' \in {"poll", "events"} /\ (pc' = "events" <=> events' # <<>>)
  BY <1>2, <1>4, EventAt
<1>6. unserved' = {d \in Clients : conn'[d].fd \in Due \ {f}}
  BY <1>1, <1>2, <1>3, <1>5, ServedOne
<1> HIDE DEF f, c
<1>7. pollfds' \in Seq(Fds) /\ IsInjective(pollfds') /\ ToSet(pollfds') = ToSet(pollfds) \ {f}
  <2>1. pollfds \in Seq(Fds) /\ IsInjective(pollfds)
    BY <1>1 DEF Types, Lists, ListsMatch
  <2>2. PICK i \in 1..Len(pollfds) : pollfds[i] = f
    BY <1>2, <2>1 DEF ToSet
  <2>3. pollfds' = RemoveAt(pollfds, i)
    BY <1>4, <2>1, <2>2, RemoveFirstIs
  <2> QED
    BY <2>1, <2>2, <2>3, RemoveAtIs, RemoveAtSet
<1>8. Due' = Due \ {f}
  BY <1>2, <1>5 DEF Due
<1>9. Types'
  BY <1>1, <1>2, <1>3, <1>4, <1>5, <1>7 DEF Types
<1>10. EndsForCause'
  BY <1>1, <1>2, <1>4 DEF EndsForCause
<1>11. Walks'
  BY <1>1, <1>2, <1>5 DEF Walks
<1>12. Lists'
  <2>1. \A i \in 1..Len(events') : events'[i] \in ToSet(events')
    BY <1>5 DEF ToSet
  <2>2. \A i \in 1..Len(events') : events'[i] \in {listenfd} \cup ToSet(pollfds')
    BY <1>5, <1>7, <2>1
  <2>3. interest' = ToSet(pollfds')
    BY <1>4, <1>5, <1>7
  <2> QED
    BY <1>3, <1>5, <1>7, <2>2, <2>3 DEF Lists, ListsMatch
<1>13. \A d \in unserved' : Readable(d)'
  <2>1. \A d \in unserved' : d \in Clients \ {c}
    BY <1>2, <1>3, <1>6
  <2>2. \A d \in unserved' : Readable(d) /\ conn'[d] = conn[d]
    BY <1>3, <1>5, <1>6, <2>1
  <2> QED
    BY <2>2 DEF Readable
<1>14. listenfd \in ToSet(events') => backlog' # <<>>
  BY <1>2, <1>5
<1>15. Rounds'
  BY <1>5, <1>6, <1>8, <1>13, <1>14 DEF Rounds
<1> QED
  BY <1>3, <1>9, <1>10, <1>11, <1>12, <1>15 DEF EchoInv

(* A reported connection that was reset ends the server. *)
LEMMA ServeFails ==
    ASSUME EchoInv, EventServe, ReadFails(At(Head(events)))
    PROVE  EchoInv'
<1> DEFINE f == Head(events)
           c == At(f)
<1>1. Types /\ Walks /\ Waiting /\ Texts /\ Lists /\ Rounds /\ EndsForCause
  BY DEF EchoInv
<1>2. /\ pc = "events" /\ c \in Clients /\ conn[c].fd = f /\ f # 0 /\ Readable(c)
      /\ unserved' \in SUBSET Clients
      /\ UNCHANGED <<variant, client, backlog, pollVars, capacity>>
  BY ServeAt
<1>3. pc' = "exit" /\ why' = "ECONNRESET" /\ conn' = conn
  BY <1>2, ReadFailsFor
<1>4. UNCHANGED <<pollfds, interest, events>>
  <2>1. ~NextEvent
    BY <1>3 DEF NextEvent
  <2> QED
    BY <2>1 DEF EventServe
<1>5. Types'
  BY <1>1, <1>2, <1>3, <1>4 DEF Types
<1>6. Walks' /\ EndsForCause'
  BY <1>1, <1>2, <1>3, <1>4 DEF Walks, EndsForCause
<1>7. Waiting' /\ Texts'
  BY <1>1, <1>2, <1>3 DEF Waiting, Texts, RightText, Reply
<1>8. Lists'
  <2>1. Open' = Open
    BY <1>3 DEF Open
  <2> QED
    BY <1>1, <1>2, <1>3, <1>4, <2>1 DEF Lists, ListsMatch
<1>9. Rounds'
  BY <1>3 DEF Rounds
<1> QED
  BY <1>5, <1>6, <1>7, <1>8, <1>9 DEF EchoInv

(* An event of a connection, whatever read() returns. *)
LEMMA EventServeStep ==
    ASSUME EchoInv, EventServe
    PROVE  EchoInv'
<1>1. Answer(At(Head(events))) \/ Ended(At(Head(events))) \/ ReadFails(At(Head(events)))
  BY DEF EventServe
<1> QED
  BY <1>1, ServeAnswers, ServeEnds, ServeFails

-----------------------------------------------------------------------------
(* The invariant holds in every state. *)

(* A step of the server. *)
LEMMA ServerStep ==
    ASSUME EchoInv, Server
    PROVE  EchoInv'
  BY PollStep, AcceptFirstStep, ScanStep, ScanEndsStep,
     EpollWaitStep, EventAcceptStep, EventShedStep, EventServeStep DEF Server

(* Every step of the system keeps the invariant. *)
LEMMA NextInv == EchoInv /\ [Next]_vars => EchoInv'
<1> SUFFICES ASSUME EchoInv, [Next]_vars PROVE EchoInv'
  OBVIOUS
<1>1. CASE Server
  BY <1>1, ServerStep
<1>2. ASSUME NEW c \in Clients, Connect(c) \/ Receive(c) \/ Close(c)
      PROVE  EchoInv'
  BY <1>2, ConnectStep, ReceiveStep, CloseStep
<1>3. ASSUME NEW c \in Clients, NEW line \in Lines, Send(c, line)
      PROVE  EchoInv'
  BY <1>3, SendStep
<1>4. CASE UNCHANGED vars
  <2>1. Types /\ Walks /\ Waiting /\ Texts /\ Lists /\ Rounds /\ EndsForCause
    BY DEF EchoInv
  <2>2. UNCHANGED <<variant, client, conn, backlog, pc, why, pollfds, revents, it, nready,
                    interest, events, capacity, unserved>>
    BY <1>4 DEF vars, serverVars, pollVars, epollVars
  <2>3. Types' /\ Walks' /\ EndsForCause'
    BY <2>1, <2>2 DEF Types, Walks, EndsForCause
  <2>4. Waiting' /\ Texts'
    BY <2>1, <2>2 DEF Waiting, Texts, RightText, Reply
  <2>5. Lists'
    <3>1. Open' = Open
      BY <2>2 DEF Open
    <3> QED
      BY <2>1, <2>2, <3>1 DEF Lists, ListsMatch
  <2>6. Rounds'
    BY <2>1, <2>2 DEF Rounds, Due, DueIn, Readable
  <2> QED
    BY <2>3, <2>4, <2>5, <2>6 DEF EchoInv
<1> QED
  BY <1>1, <1>2, <1>3, <1>4 DEF Next

(***************************************************************************)
(* For any clients, lines, buffer, number of descriptors and first size of *)
(* events: the lists the poll, epoll and reversing echo servers keep are   *)
(* those of their open connections, a round serves all that was reported,  *)
(* every answer is right, and a server ends only for a cause it tests for. *)
(***************************************************************************)
THEOREM EchoServersSound == Spec => []EchoSound
<1>1. Init => EchoInv
  BY InitInv
<1>2. EchoInv /\ [Next]_vars => EchoInv'
  BY NextInv
<1>3. EchoInv => EchoSound
  BY InvSound
<1> QED
  BY <1>1, <1>2, <1>3, PTL DEF Spec
=============================================================================

---------------------------- MODULE ProcessProofs ----------------------------
(***************************************************************************)
(* Proofs about the programs of Process, for any finite number of threads  *)
(* and processes: Thread and CurrentThread with fork(), MutexLock and      *)
(* Condition, ThreadLocal, ProcessInfo and ReadSmallFile.                  *)
(***************************************************************************)
EXTENDS Process, FiniteSetTheorems, SequenceTheorems, TLAPS

-----------------------------------------------------------------------------
(* Thread and CurrentThread. *)

(* Threads that are there have a process that is there; what is not there  *)
(* has no state.                                                           *)
Born ==
    /\ pc[Main] # "unborn"
    /\ \A k \in Tids :
        /\ pc[k] = "unborn" => process[k] = 0 /\ runs[k] = "none" /\ t_cachedTid[k] = 0
        /\ pc[k] # "unborn" => process[k] \in Tids /\ pc[process[k]] # "unborn"
        /\ pc[k] = "static" => process[k] = k /\ t_cachedTid[k] = 0

(* From the first line of main() on every process has the handler. *)
Handlers == \A k \in Tids : pc[k] \notin {"unborn", "static"} => atfork[process[k]]

(* A new thread has nothing cached, and runs the object that knows it. *)
Starting ==
    \A k \in Tids : pc[k] = "startThread" =>
        /\ t_cachedTid[k] = 0
        /\ runs[k] \in Threads
        /\ objects[process[k]][runs[k]].pthreadId = k

(* What start() has left in the objects. *)
Started ==
    \A p \in Tids, o \in Threads :
        LET m == objects[p][o] IN
        /\ m.started => m.pthreadId \in Tids /\ pc[m.pthreadId] # "unborn"
        /\ ~m.started => ~m.joined
        /\ (m.started /\ process[m.pthreadId] = p) => runs[m.pthreadId] = o
        /\ \A k \in Tids : (process[k] = p /\ runs[k] = o) => m.started

(* No two threads of a process run the same object. *)
Alone ==
    \A i, k \in Tids :
        (process[i] = process[k] /\ runs[i] = runs[k] /\ runs[i] # "none") => i = k

(* A process that has not ended. *)
Lives(p) == \E k \in Tids : process[k] = p /\ pc[k] \notin {"unborn", "exited"}

(* In it a thread that got as far as func_ has written tid_. *)
Published ==
    \A p \in Tids, o \in Threads :
        LET m == objects[p][o] IN
        (Lives(p) /\ m.started /\ process[m.pthreadId] = p /\ pc[m.pthreadId] # "startThread")
            => m.tid = m.pthreadId

ThreadInv ==
    /\ TypeOK /\ OwnIdentity /\ TidAfterJoin
    /\ Born /\ Handlers /\ Starting /\ Started /\ Alone /\ Published

(* One Thread object of one process changes. *)
LEMMA OneObject ==
    ASSUME NEW f \in [Tids -> [Threads -> Members]], NEW p \in Tids, NEW o \in Threads,
           NEW m \in Members, NEW g, g = [f EXCEPT ![p][o] = m]
    PROVE  /\ g \in [Tids -> [Threads -> Members]]
           /\ g[p][o] = m
           /\ \A q \in Tids, n \in Threads : (q # p \/ n # o) => g[q][n] = f[q][n]
<1>1. g \in [Tids -> [Threads -> Members]]
  OBVIOUS
<1>2. g[p][o] = m
  OBVIOUS
<1>3. \A q \in Tids, n \in Threads : (q # p \/ n # o) => g[q][n] = f[q][n]
  OBVIOUS
<1> QED
  BY <1>1, <1>2, <1>3

LEMMA ThreadInit == Init => ThreadInv
<1> SUFFICES ASSUME Init PROVE ThreadInv
  OBVIOUS
<1>1. TypeOK
  <2>1. New \in Members
    BY DEF New, Members
  <2> QED
    BY <2>1, TidAssumption DEF Init, TypeOK, Names
<1>2. \A p \in Tids, o \in Threads : objects[p][o] = New
  BY DEF Init
<1>3. ~New.started /\ ~New.joined
  BY DEF New
<1>4. TidAfterJoin /\ Published
  BY <1>2, <1>3 DEF TidAfterJoin, Published
<1>5. Started
  BY <1>2, <1>3, TidAssumption DEF Init, Started
<1>6. Born /\ Handlers /\ Starting /\ Alone /\ OwnIdentity
  BY TidAssumption DEF Init, Born, Handlers, Starting, Alone, OwnIdentity, Running
<1> QED
  BY <1>1, <1>4, <1>5, <1>6 DEF ThreadInv

(* The static object's constructor. *)
LEMMA InitializerStep == ThreadInv /\ ThreadNameInitializer => ThreadInv'
<1> SUFFICES ASSUME ThreadInv, ThreadNameInitializer PROVE ThreadInv'
  OBVIOUS
<1> USE TidAssumption DEF ThreadInv
<1>1. t_cachedTid[Main] = 0 /\ process[Main] = Main
  BY DEF ThreadNameInitializer, Born
<1>2. /\ t_cachedTid' = [t_cachedTid EXCEPT ![Main] = Main]
      /\ t_tidString' = [t_tidString EXCEPT ![Main] = Main]
      /\ pc' = [pc EXCEPT ![Main] = "func"]
      /\ UNCHANGED <<process, runs, objects>>
  BY <1>1 DEF ThreadNameInitializer, cacheTid
<1>3. TypeOK'
  BY <1>2 DEF ThreadNameInitializer, TypeOK, Names
<1>4. OwnIdentity'
  BY <1>1, <1>2 DEF TypeOK, OwnIdentity, Running, isMainThread
<1>5. TidAfterJoin'
  BY <1>2 DEF TidAfterJoin
<1>6. Born'
  BY <1>1, <1>2 DEF TypeOK, Born
<1>7. Handlers'
  BY <1>1, <1>2 DEF ThreadNameInitializer, TypeOK, Handlers
<1>8. Starting' /\ Started' /\ Alone'
  BY <1>2 DEF TypeOK, Starting, Started, Alone
<1>9. Published'
  BY <1>1, <1>2 DEF ThreadNameInitializer, TypeOK, Published, Lives
<1> QED
  BY <1>3, <1>4, <1>5, <1>6, <1>7, <1>8, <1>9

(* start(): a thread that is new to everybody. *)
LEMMA StartStep ==
    ASSUME ThreadInv, NEW k \in Tids, NEW o \in Threads, NEW j \in Tids, Start(k, o, j)
    PROVE  ThreadInv'
<1> USE TidAssumption DEF ThreadInv
<1> DEFINE p == process[k]
<1>1. p \in Tids /\ pc[p] # "unborn" /\ j # k /\ j # p /\ Lives(p)
  BY DEF Start, Running, Born, Lives
<1>2. /\ pc' = [pc EXCEPT ![j] = "startThread"]
      /\ process' = [process EXCEPT ![j] = p]
      /\ runs' = [runs EXCEPT ![j] = o]
      /\ UNCHANGED <<localVars, atfork>>
      /\ pc[j] = "unborn" /\ pc[k] = "func"
  BY DEF Start, Running
<1>3. ~objects[p][o].started
  BY DEF Start
<1>4. /\ objects' \in [Tids -> [Threads -> Members]]
      /\ \A q \in Tids, n \in Threads : (q # p \/ n # o) => objects'[q][n] = objects[q][n]
      /\ objects'[p][o].started = TRUE /\ objects'[p][o].pthreadId = j
      /\ objects'[p][o].tid = objects[p][o].tid
      /\ objects'[p][o].joined = objects[p][o].joined
  <2>0. objects \in [Tids -> [Threads -> Members]]
    BY DEF TypeOK
  <2>1. PICK m \in Members : m = objects[p][o]
    BY <1>1, <2>0
  <2>2. PICK n : n = [m EXCEPT !.started = TRUE, !.pthreadId = j]
    OBVIOUS
  <2>3. objects' = [objects EXCEPT ![p][o] = n]
    BY <1>1, <2>0, <2>1, <2>2 DEF Start
  <2>4. n \in Members
    BY <2>2 DEF Members
  <2>5. n.started = TRUE /\ n.pthreadId = j /\ n.tid = m.tid
    BY <2>2 DEF Members
  <2>6. n.joined = m.joined
    BY <2>2 DEF Members
  <2> HIDE DEF p
  <2>7. /\ objects' \in [Tids -> [Threads -> Members]]
        /\ objects'[p][o] = n
        /\ \A q \in Tids, i \in Threads : (q # p \/ i # o) => objects'[q][i] = objects[q][i]
    BY <1>1, <2>0, <2>3, <2>4, OneObject
  <2> QED
    BY <1>1, <2>1, <2>5, <2>6, <2>7
<1>5. TypeOK'
  BY <1>1, <1>2, <1>4 DEF TypeOK, localVars
<1> HIDE DEF p
<1>6. OwnIdentity'
  BY <1>2 DEF TypeOK, OwnIdentity, Running, isMainThread, localVars
<1>7. TidAfterJoin'
  <2>1. ~objects[p][o].joined
    BY <1>1, <1>3 DEF Started
  <2> QED
    BY <1>4, <2>1 DEF TidAfterJoin
<1>8. Born'
  BY <1>1, <1>2 DEF TypeOK, Born, localVars
<1>9. Handlers'
  BY <1>1, <1>2 DEF p, TypeOK, Handlers
<1>10. Starting'
  <2> SUFFICES ASSUME NEW i \in Tids, pc'[i] = "startThread"
               PROVE  /\ t_cachedTid'[i] = 0
                      /\ runs'[i] \in Threads
                      /\ objects'[process'[i]][runs'[i]].pthreadId = i
    BY DEF Starting
  <2>1. CASE i = j
    BY <1>1, <1>2, <1>4, <2>1 DEF TypeOK, Born, localVars
  <2>2. CASE i # j
    <3>1. /\ pc[i] = "startThread" /\ process'[i] = process[i] /\ runs'[i] = runs[i]
          /\ process[i] \in Tids /\ runs[i] \in Threads
          /\ t_cachedTid'[i] = t_cachedTid[i]
      BY <1>2, <2>2 DEF TypeOK, Born, Starting, localVars
    <3>2. process[i] # p \/ runs[i] # o
      BY <1>3, <3>1 DEF Started
    <3> QED
      BY <1>4, <3>1, <3>2 DEF Starting
  <2> QED
    BY <2>1, <2>2
<1>11. Started'
  <2> SUFFICES ASSUME NEW p2 \in Tids, NEW o2 \in Threads
               PROVE  LET m == objects'[p2][o2] IN
                      /\ m.started => m.pthreadId \in Tids /\ pc'[m.pthreadId] # "unborn"
                      /\ ~m.started => ~m.joined
                      /\ (m.started /\ process'[m.pthreadId] = p2) => runs'[m.pthreadId] = o2
                      /\ \A i \in Tids : (process'[i] = p2 /\ runs'[i] = o2) => m.started
    BY DEF Started
  <2>1. CASE p2 = p /\ o2 = o
    BY <1>2, <1>4, <2>1 DEF TypeOK
  <2>2. CASE p2 # p \/ o2 # o
    BY <1>1, <1>2, <1>4, <2>2 DEF TypeOK, Started
  <2> QED
    BY <2>1, <2>2
<1>12. Alone'
  BY <1>1, <1>2, <1>3 DEF TypeOK, Started, Alone
<1>13. Published'
  <2> SUFFICES ASSUME NEW p2 \in Tids, NEW o2 \in Threads, Lives(p2)',
                      objects'[p2][o2].started,
                      process'[objects'[p2][o2].pthreadId] = p2,
                      pc'[objects'[p2][o2].pthreadId] # "startThread"
               PROVE  objects'[p2][o2].tid = objects'[p2][o2].pthreadId
    BY DEF Published
  <2>1. p2 # p \/ o2 # o
    BY <1>2, <1>4 DEF TypeOK
  <2>2. Lives(p2)
    BY <1>1, <1>2 DEF TypeOK, Lives
  <2> QED
    BY <1>2, <1>4, <2>1, <2>2 DEF TypeOK, Published, Started
<1> QED
  BY <1>5, <1>6, <1>7, <1>8, <1>9, <1>10, <1>11, <1>12, <1>13

(* runInThread() publishes the id of the thread it runs in. *)
LEMMA RunStep == ASSUME ThreadInv, NEW j \in Tids, RunInThread(j) PROVE ThreadInv'
<1> USE TidAssumption DEF ThreadInv
<1> DEFINE p == process[j]
           o == runs[j]
<1>1. /\ pc[j] = "startThread" /\ t_cachedTid[j] = 0
      /\ p \in Tids /\ o \in Threads
      /\ objects[p][o].pthreadId = j /\ objects[p][o].started
  BY DEF RunInThread, Born, Starting, Started
<1>2. /\ t_cachedTid' = [t_cachedTid EXCEPT ![j] = j]
      /\ t_tidString' = [t_tidString EXCEPT ![j] = j]
      /\ pc' = [pc EXCEPT ![j] = "func"]
      /\ UNCHANGED <<process, runs, atfork>>
  BY <1>1 DEF RunInThread, cacheTid
<1>3. objects' = [objects EXCEPT ![p][o].tid = j]
  BY <1>1, <1>2 DEF RunInThread, TypeOK
<1>4. /\ objects' \in [Tids -> [Threads -> Members]]
      /\ \A q \in Tids, n \in Threads : (q # p \/ n # o) => objects'[q][n] = objects[q][n]
      /\ objects'[p][o].started = objects[p][o].started
      /\ objects'[p][o].pthreadId = j /\ objects'[p][o].tid = j
      /\ objects'[p][o].joined = objects[p][o].joined
  <2>0. objects \in [Tids -> [Threads -> Members]]
    BY DEF TypeOK
  <2>1. PICK m \in Members : m = objects[p][o]
    BY <1>1, <2>0
  <2>2. PICK n : n = [m EXCEPT !.tid = j]
    OBVIOUS
  <2>3. objects' = [objects EXCEPT ![p][o] = n]
    BY <1>1, <1>3, <2>0, <2>1, <2>2
  <2>4. n \in Members
    BY <2>2 DEF Members
  <2>5. n.pthreadId = m.pthreadId /\ n.tid = j
    BY <2>2 DEF Members
  <2>6. n.started = m.started /\ n.joined = m.joined
    BY <2>2 DEF Members
  <2> HIDE DEF p, o
  <2>7. /\ objects' \in [Tids -> [Threads -> Members]]
        /\ objects'[p][o] = n
        /\ \A q \in Tids, i \in Threads : (q # p \/ i # o) => objects'[q][i] = objects[q][i]
    BY <1>1, <2>0, <2>3, <2>4, OneObject
  <2> QED
    BY <1>1, <2>1, <2>5, <2>6, <2>7
<1>5. TypeOK'
  <2>1. t_threadName' \in [Tids -> Names]
    BY DEF RunInThread, TypeOK, Names
  <2> QED
    BY <1>1, <1>2, <1>4, <2>1 DEF TypeOK
<1> HIDE DEF p, o
<1>6. OwnIdentity'
  BY <1>2 DEF TypeOK, OwnIdentity, Running, isMainThread
<1>7. TidAfterJoin'
  BY <1>4 DEF TidAfterJoin
<1>8. Born'
  BY <1>1, <1>2 DEF TypeOK, Born
<1>9. Handlers'
  BY <1>1, <1>2 DEF TypeOK, Handlers
<1>a. \A q \in Tids, n \in Threads :
        /\ objects'[q][n].started = objects[q][n].started
        /\ objects'[q][n].joined = objects[q][n].joined
        /\ objects'[q][n].pthreadId = objects[q][n].pthreadId
  <2> SUFFICES ASSUME NEW q \in Tids, NEW n \in Threads
               PROVE  /\ objects'[q][n].started = objects[q][n].started
                      /\ objects'[q][n].joined = objects[q][n].joined
                      /\ objects'[q][n].pthreadId = objects[q][n].pthreadId
    OBVIOUS
  <2>1. CASE q = p /\ n = o
    BY <1>1, <1>4, <2>1
  <2>2. CASE q # p \/ n # o
    <3>1. objects'[q][n] = objects[q][n]
      BY <1>4, <2>2
    <3> QED
      BY <3>1
  <2> QED
    BY <2>1, <2>2
<1>10. Starting'
  <2> SUFFICES ASSUME NEW i \in Tids, pc'[i] = "startThread"
               PROVE  /\ t_cachedTid'[i] = 0
                      /\ runs'[i] \in Threads
                      /\ objects'[process'[i]][runs'[i]].pthreadId = i
    BY DEF Starting
  <2>1. i # j /\ pc[i] = "startThread" /\ t_cachedTid'[i] = t_cachedTid[i]
    BY <1>2 DEF TypeOK
  <2>2. process[i] \in Tids /\ runs[i] \in Threads
    BY <2>1 DEF Born, Starting
  <2>3. t_cachedTid[i] = 0 /\ objects[process[i]][runs[i]].pthreadId = i
    BY <2>1, Zenon DEF Starting
  <2>4. objects'[process[i]][runs[i]].pthreadId = i
    BY <1>a, <2>2, <2>3
  <2> QED
    BY <1>2, <2>1, <2>2, <2>3, <2>4
<1>11. Started'
  <2> SUFFICES ASSUME NEW q \in Tids, NEW n \in Threads
               PROVE  LET m == objects'[q][n] IN
                      /\ m.started => m.pthreadId \in Tids /\ pc'[m.pthreadId] # "unborn"
                      /\ ~m.started => ~m.joined
                      /\ m.started /\ process[m.pthreadId] = q => runs[m.pthreadId] = n
                      /\ \A i \in Tids : process[i] = q /\ runs[i] = n => m.started
    BY <1>2 DEF Started
  <2>1. PICK a, b, c : a = objects[q][n].started /\ b = objects[q][n].joined
                       /\ c = objects[q][n].pthreadId
    OBVIOUS
  <2>2. objects'[q][n].started = a /\ objects'[q][n].joined = b /\ objects'[q][n].pthreadId = c
    BY <1>a, <2>1
  <2>3. /\ a => c \in Tids /\ pc[c] # "unborn"
        /\ ~a => ~b
        /\ a /\ process[c] = q => runs[c] = n
        /\ \A i \in Tids : process[i] = q /\ runs[i] = n => a
    BY <2>1, Zenon DEF Started
  <2>4. a => pc'[c] # "unborn"
    BY <1>2, <2>3 DEF TypeOK
  <2> QED
    BY <2>2, <2>3, <2>4, Zenon
<1>12. Alone'
  BY <1>2 DEF Alone
<1>13. Published'
  <2> SUFFICES ASSUME NEW p2 \in Tids, NEW o2 \in Threads, Lives(p2)',
                      objects'[p2][o2].started,
                      process'[objects'[p2][o2].pthreadId] = p2,
                      pc'[objects'[p2][o2].pthreadId] # "startThread"
               PROVE  objects'[p2][o2].tid = objects'[p2][o2].pthreadId
    BY DEF Published
  <2>1. CASE p2 = p /\ o2 = o
    BY <1>4, <2>1
  <2>2. CASE p2 # p \/ o2 # o
    <3>1. objects'[p2][o2] = objects[p2][o2]
      BY <1>4, <2>2
    <3>2. Lives(p2)
      BY <1>1, <1>2 DEF TypeOK, Lives
    <3>3. objects[p2][o2].pthreadId # j
      <4> SUFFICES ASSUME objects[p2][o2].pthreadId = j PROVE FALSE
        OBVIOUS
      <4>1. p2 = p
        BY <1>2, <3>1 DEF p
      <4>2. o2 = o
        BY <1>2, <3>1, <4>1 DEF p, o, Started
      <4> QED
        BY <2>2, <4>1, <4>2
    <3> QED
      BY <1>2, <3>1, <3>2, <3>3 DEF TypeOK, Published
  <2> QED
    BY <2>1, <2>2
<1> QED
  BY <1>5, <1>6, <1>7, <1>8, <1>9, <1>10, <1>11, <1>12, <1>13

(* func_() returns, or ends the process by an exception. *)
LEMMA ReturnStep == ASSUME ThreadInv, NEW j \in Tids, FuncReturns(j) PROVE ThreadInv'
<1> USE TidAssumption DEF ThreadInv
<1>1. /\ pc' = [pc EXCEPT ![j] = "exited"] /\ pc[j] = "func"
      /\ UNCHANGED <<process, runs, t_cachedTid, t_tidString, objects, atfork>>
  BY DEF FuncReturns, Running
<1>2. TypeOK'
  <2>1. t_threadName' \in [Tids -> Names]
    BY DEF FuncReturns, TypeOK, Names
  <2> QED
    BY <1>1, <2>1 DEF TypeOK
<1>3. OwnIdentity' /\ TidAfterJoin'
  BY <1>1 DEF TypeOK, OwnIdentity, TidAfterJoin, Running, isMainThread
<1>4. Born' /\ Handlers'
  BY <1>1 DEF TypeOK, Born, Handlers
<1>5. Starting' /\ Started' /\ Alone'
  BY <1>1 DEF TypeOK, Starting, Started, Alone
<1>6. Published'
  BY <1>1 DEF TypeOK, Published, Lives
<1> QED
  BY <1>2, <1>3, <1>4, <1>5, <1>6

LEMMA ThrowStep == ASSUME ThreadInv, NEW j \in Tids, FuncThrows(j) PROVE ThreadInv'
<1> USE TidAssumption DEF ThreadInv
<1>1. /\ pc' = [k \in Tids |-> IF process[k] = process[j] THEN "exited" ELSE pc[k]]
      /\ pc[j] = "func"
      /\ UNCHANGED <<process, runs, t_cachedTid, t_tidString, objects, atfork>>
  BY DEF FuncThrows, Running
<1>2. \A k \in Tids : process[k] = process[j] => pc[k] # "unborn"
  BY <1>1 DEF Born
<1>3. \A k \in Tids : pc'[k] = "unborn" <=> pc[k] = "unborn"
  BY <1>1, <1>2
<1>4. \A k \in Tids : pc'[k] # "exited" => pc'[k] = pc[k] /\ process[k] # process[j]
  BY <1>1
<1>5. TypeOK'
  <2>1. t_threadName' \in [Tids -> Names]
    BY DEF FuncThrows, TypeOK, Names
  <2> QED
    BY <1>1, <2>1 DEF TypeOK
<1>6. OwnIdentity' /\ TidAfterJoin'
  BY <1>1, <1>4 DEF TypeOK, OwnIdentity, TidAfterJoin, Running, isMainThread
<1>7. Born'
  BY <1>1, <1>3, <1>4 DEF TypeOK, Born
<1>8. Handlers'
  <2>1. \A k \in Tids : pc'[k] = "exited" => pc[k] = "exited" \/ process[k] = process[j]
    BY <1>1
  <2> QED
    BY <1>1, <1>4, <2>1 DEF Handlers
<1>9. Starting' /\ Started' /\ Alone'
  BY <1>1, <1>3, <1>4 DEF TypeOK, Starting, Started, Alone
<1>10. Published'
  <2> SUFFICES ASSUME NEW p \in Tids, NEW o \in Threads, Lives(p)',
                      objects[p][o].started,
                      process[objects[p][o].pthreadId] = p,
                      pc'[objects[p][o].pthreadId] # "startThread"
               PROVE  objects[p][o].tid = objects[p][o].pthreadId
    BY <1>1 DEF Published
  <2>1. p # process[j] /\ Lives(p)
    BY <1>1, <1>4 DEF Lives
  <2>2. objects[p][o].pthreadId \in Tids
    BY DEF Started
  <2>3. pc[objects[p][o].pthreadId] # "startThread"
    BY <1>1, <2>1, <2>2
  <2> QED
    BY <2>1, <2>3 DEF Published
<1> QED
  BY <1>5, <1>6, <1>7, <1>8, <1>9, <1>10

(* join() returns when the thread has written tid_, since its process is   *)
(* alive.                                                                  *)
LEMMA JoinStep == ASSUME ThreadInv, NEW k \in Tids, NEW o \in Threads, Join(k, o) PROVE ThreadInv'
<1> USE TidAssumption DEF ThreadInv
<1> DEFINE p == process[k]
<1>1. /\ p \in Tids /\ Lives(p)
      /\ objects[p][o].started
      /\ process[objects[p][o].pthreadId] = p /\ pc[objects[p][o].pthreadId] = "exited"
      /\ UNCHANGED <<pc, process, runs, localVars, atfork>>
  BY DEF Join, Running, Born, Lives
<1>2. objects[p][o].tid = objects[p][o].pthreadId
  BY <1>1 DEF Published
<1>3. /\ objects' \in [Tids -> [Threads -> Members]]
      /\ \A q \in Tids, n \in Threads : (q # p \/ n # o) => objects'[q][n] = objects[q][n]
      /\ objects'[p][o].started = objects[p][o].started
      /\ objects'[p][o].pthreadId = objects[p][o].pthreadId
      /\ objects'[p][o].tid = objects[p][o].tid
      /\ objects'[p][o].joined = TRUE
  <2>0. objects \in [Tids -> [Threads -> Members]]
    BY DEF TypeOK
  <2>1. PICK m \in Members : m = objects[p][o]
    BY <1>1, <2>0
  <2>2. PICK n : n = [m EXCEPT !.joined = TRUE]
    OBVIOUS
  <2>3. objects' = [objects EXCEPT ![p][o] = n]
    BY <1>1, <2>0, <2>1, <2>2 DEF Join
  <2>4. n \in Members
    BY <2>2 DEF Members
  <2>5. n.pthreadId = m.pthreadId /\ n.tid = m.tid /\ n.joined = TRUE
    BY <2>2 DEF Members
  <2>6. n.started = m.started
    BY <2>2 DEF Members
  <2> HIDE DEF p
  <2>7. /\ objects' \in [Tids -> [Threads -> Members]]
        /\ objects'[p][o] = n
        /\ \A q \in Tids, i \in Threads : (q # p \/ i # o) => objects'[q][i] = objects[q][i]
    BY <1>1, <2>0, <2>3, <2>4, OneObject
  <2> QED
    BY <1>1, <2>1, <2>5, <2>6, <2>7
<1>4. TypeOK'
  BY <1>1, <1>3 DEF TypeOK, localVars
<1> HIDE DEF p
<1>5. OwnIdentity' /\ Born' /\ Handlers' /\ Alone'
  BY <1>1 DEF OwnIdentity, Running, isMainThread, Born, Handlers, Alone, localVars
<1>6. TidAfterJoin'
  <2> SUFFICES ASSUME NEW q \in Tids, NEW n \in Threads, objects'[q][n].joined
               PROVE  objects'[q][n].tid = objects'[q][n].pthreadId
    BY DEF TidAfterJoin
  <2>1. CASE q = p /\ n = o
    BY <1>2, <1>3, <2>1
  <2>2. CASE q # p \/ n # o
    <3>1. objects'[q][n] = objects[q][n]
      BY <1>3, <2>2
    <3> QED
      BY <3>1 DEF TidAfterJoin
  <2> QED
    BY <2>1, <2>2
<1>a. \A q \in Tids, n \in Threads :
        /\ objects'[q][n].started = objects[q][n].started
        /\ objects'[q][n].pthreadId = objects[q][n].pthreadId
        /\ objects'[q][n].tid = objects[q][n].tid
        /\ objects'[q][n].joined => objects[q][n].joined \/ (q = p /\ n = o)
  BY <1>1, <1>3
<1>7. Starting'
  <2> SUFFICES ASSUME NEW i \in Tids, pc[i] = "startThread"
               PROVE  /\ t_cachedTid[i] = 0
                      /\ runs[i] \in Threads
                      /\ objects'[process[i]][runs[i]].pthreadId = i
    BY <1>1 DEF Starting, localVars
  <2>1. process[i] \in Tids /\ runs[i] \in Threads
    BY DEF Born, Starting
  <2> QED
    BY <1>a, <2>1 DEF Starting
<1>8. Started'
  BY <1>1, <1>a DEF Started
<1>9. Published'
  <2>1. \A q \in Tids : Lives(q)' <=> Lives(q)
    BY <1>1 DEF Lives
  <2> QED
    BY <1>1, <1>a, <2>1 DEF Published
<1> QED
  BY <1>4, <1>5, <1>6, <1>7, <1>8, <1>9

(* fork(): a process of one thread, which knows no thread of another.      *)
LEMMA ForkStep == ASSUME ThreadInv, NEW k \in Tids, NEW j \in Tids, Fork(k, j) PROVE ThreadInv'
<1> USE TidAssumption DEF ThreadInv
<1> DEFINE p == process[k]
<1>1. /\ p \in Tids /\ pc[p] # "unborn" /\ j # k /\ j # p /\ atfork[p]
      /\ process[j] = 0 /\ pc[j] = "unborn" /\ pc[k] = "func"
  BY DEF Fork, Running, Born, Handlers
<1>2. /\ pc' = [pc EXCEPT ![j] = "handlers"]
      /\ process' = [process EXCEPT ![j] = j]
      /\ runs' = [runs EXCEPT ![j] = runs[k]]
      /\ t_cachedTid' = [t_cachedTid EXCEPT ![j] = t_cachedTid[k]]
      /\ t_tidString' = [t_tidString EXCEPT ![j] = t_tidString[k]]
      /\ t_threadName' = [t_threadName EXCEPT ![j] = t_threadName[k]]
      /\ objects' = [objects EXCEPT ![j] = objects[p]]
      /\ atfork' = [atfork EXCEPT ![j] = atfork[p]]
  BY <1>1 DEF Fork
<1>3. TypeOK'
  BY <1>1, <1>2 DEF TypeOK
<1>4. /\ \A o \in Threads : objects'[j][o] = objects[p][o]
      /\ \A q \in Tids, o \in Threads : q # j => objects'[q][o] = objects[q][o]
  BY <1>2 DEF TypeOK
<1>5. \A i \in Tids : process[i] # j
  BY <1>1 DEF Born
<1> HIDE DEF p
<1>6. OwnIdentity'
  BY <1>2 DEF TypeOK, OwnIdentity, Running, isMainThread
<1>7. TidAfterJoin'
  BY <1>1, <1>4 DEF TidAfterJoin
<1>8. Born'
  BY <1>1, <1>2 DEF TypeOK, Born
<1>9. Handlers'
  <2> SUFFICES ASSUME NEW i \in Tids, pc'[i] \notin {"unborn", "static"}
               PROVE  atfork'[process'[i]]
    BY DEF Handlers
  <2>1. CASE i = j
    BY <1>1, <1>2, <2>1 DEF TypeOK
  <2>2. CASE i # j
    BY <1>2, <1>5, <2>2 DEF TypeOK, Handlers
  <2> QED
    BY <2>1, <2>2
<1>10. Starting'
  <2> SUFFICES ASSUME NEW i \in Tids, pc'[i] = "startThread"
               PROVE  /\ t_cachedTid'[i] = 0
                      /\ runs'[i] \in Threads
                      /\ objects'[process'[i]][runs'[i]].pthreadId = i
    BY DEF Starting
  <2>1. i # j /\ pc[i] = "startThread"
    BY <1>2 DEF TypeOK
  <2>2. /\ process'[i] = process[i] /\ runs'[i] = runs[i] /\ t_cachedTid'[i] = t_cachedTid[i]
        /\ process[i] \in Tids /\ process[i] # j /\ runs[i] \in Threads
    BY <1>2, <1>5, <2>1 DEF TypeOK, Born, Starting
  <2>3. objects'[process[i]][runs[i]] = objects[process[i]][runs[i]]
    BY <1>4, <2>2
  <2> QED
    BY <2>1, <2>2, <2>3 DEF Starting
<1>11. Started'
  <2> SUFFICES ASSUME NEW q \in Tids, NEW o \in Threads
               PROVE  LET m == objects'[q][o] IN
                      /\ m.started => m.pthreadId \in Tids /\ pc'[m.pthreadId] # "unborn"
                      /\ ~m.started => ~m.joined
                      /\ (m.started /\ process'[m.pthreadId] = q) => runs'[m.pthreadId] = o
                      /\ \A i \in Tids : (process'[i] = q /\ runs'[i] = o) => m.started
    BY DEF Started
  <2>1. CASE q = j
    <3>1. objects'[q][o] = objects[p][o]
      BY <1>4, <2>1
    <3>2. objects[p][o].started =>
            objects[p][o].pthreadId \in Tids /\ pc[objects[p][o].pthreadId] # "unborn"
      BY <1>1 DEF Started
    <3>3. objects[p][o].started => process'[objects[p][o].pthreadId] # q
      BY <1>1, <1>2, <1>5, <2>1, <3>2 DEF TypeOK
    <3>4. \A i \in Tids : (process'[i] = q /\ runs'[i] = o) => objects[p][o].started
      <4> SUFFICES ASSUME NEW i \in Tids, process'[i] = q, runs'[i] = o
                   PROVE  objects[p][o].started
        OBVIOUS
      <4>1. i = j /\ runs[k] = o
        BY <1>2, <1>5, <2>1 DEF TypeOK
      <4>2. process[k] = p
        BY DEF p
      <4> QED
        BY <1>1, <4>1, <4>2 DEF Started
    <3> QED
      BY <1>1, <1>2, <3>1, <3>2, <3>3, <3>4 DEF TypeOK, Started
  <2>2. CASE q # j
    <3>1. objects'[q][o] = objects[q][o]
      BY <1>4, <2>2
    <3> QED
      BY <1>1, <1>2, <2>2, <3>1 DEF TypeOK, Started
  <2> QED
    BY <2>1, <2>2
<1>12. Alone'
  BY <1>1, <1>2, <1>5 DEF TypeOK, Alone
<1>13. Published'
  <2> SUFFICES ASSUME NEW q \in Tids, NEW o \in Threads, Lives(q)',
                      objects'[q][o].started,
                      process'[objects'[q][o].pthreadId] = q,
                      pc'[objects'[q][o].pthreadId] # "startThread"
               PROVE  objects'[q][o].tid = objects'[q][o].pthreadId
    BY DEF Published
  <2>1. q # j
    <3> SUFFICES ASSUME q = j PROVE FALSE
      OBVIOUS
    <3>1. objects'[q][o] = objects[p][o]
      BY <1>4
    <3>2. objects[p][o].pthreadId \in Tids /\ objects[p][o].pthreadId # j
      BY <1>1, <3>1 DEF Started
    <3> QED
      BY <1>2, <1>5, <3>1, <3>2 DEF TypeOK
  <2>2. objects'[q][o] = objects[q][o] /\ objects[q][o].pthreadId \in Tids
        /\ objects[q][o].pthreadId # j
    BY <1>1, <1>4, <2>1 DEF Started
  <2>3. Lives(q)
    BY <1>1, <1>2, <2>1 DEF TypeOK, Lives
  <2> QED
    BY <1>2, <2>2, <2>3 DEF TypeOK, Published
<1> QED
  BY <1>3, <1>6, <1>7, <1>8, <1>9, <1>10, <1>11, <1>12, <1>13

LEMMA AfterForkStep == ASSUME ThreadInv, NEW j \in Tids, AfterFork(j) PROVE ThreadInv'
<1> USE TidAssumption DEF ThreadInv
<1>1. /\ t_cachedTid' = [t_cachedTid EXCEPT ![j] = j]
      /\ t_tidString' = [t_tidString EXCEPT ![j] = j]
      /\ pc' = [pc EXCEPT ![j] = "func"] /\ pc[j] = "handlers"
      /\ UNCHANGED <<process, runs, objects, atfork>>
  BY DEF AfterFork, cacheTid
<1>2. TypeOK'
  <2>1. t_threadName' \in [Tids -> Names]
    BY DEF AfterFork, TypeOK, Names
  <2> QED
    BY <1>1, <2>1 DEF TypeOK
<1>3. OwnIdentity' /\ TidAfterJoin'
  BY <1>1 DEF TypeOK, OwnIdentity, TidAfterJoin, Running, isMainThread
<1>4. Born' /\ Handlers'
  BY <1>1 DEF TypeOK, Born, Handlers
<1>5. Starting' /\ Started' /\ Alone'
  BY <1>1 DEF TypeOK, Starting, Started, Alone
<1>6. Published'
  BY <1>1 DEF TypeOK, Published, Lives
<1> QED
  BY <1>2, <1>3, <1>4, <1>5, <1>6

(* Every step of threads and processes keeps the invariant. *)
LEMMA ThreadStep == ThreadInv /\ [Next]_vars => ThreadInv'
<1> SUFFICES ASSUME ThreadInv, [Next]_vars PROVE ThreadInv'
  OBVIOUS
<1>1. CASE UNCHANGED vars
  BY <1>1 DEF vars, localVars, ThreadInv, TypeOK, OwnIdentity, Running, isMainThread,
              TidAfterJoin, Born, Handlers, Starting, Started, Alone, Published, Lives
<1> QED
  BY <1>1, InitializerStep, StartStep, RunStep, ReturnStep, ThrowStep, JoinStep, ForkStep,
     AfterForkStep DEF Next

(* The invariant is enough. *)
LEMMA ThreadInvIsEnough == ThreadInv => ThreadsSound
<1> SUFFICES ASSUME ThreadInv, NEW p \in Tids, NEW o \in Threads
             PROVE  Cardinality({k \in Tids : process[k] = p /\ runs[k] = o}) <= 1
  BY DEF ThreadInv, ThreadsSound, RunsOnce
<1> DEFINE S == {k \in Tids : process[k] = p /\ runs[k] = o}
<1>1. \A i, k \in S : i = k
  BY TidAssumption DEF ThreadInv, Alone
<1> HIDE DEF S
<1>2. CASE S = {}
  BY <1>2, FS_EmptySet DEF S
<1>3. CASE S # {}
  <2>1. PICK k : S = {k}
    BY <1>1, <1>3
  <2>2. Cardinality(S) = 1
    BY <2>1, FS_Singleton
  <2> QED
    BY <2>2 DEF S
<1> QED
  BY <1>2, <1>3

(* What the parts of Process do is for Thread a step of its own or none. *)
LEMMA ProcessUsesThread == [NextAll]_allVars => [Next]_vars
<1> SUFFICES ASSUME [NextAll]_allVars PROVE [Next]_vars
  OBVIOUS
<1>1. NewTids \subseteq Tids
  BY ProcessAssumption DEF NewTids
<1>2. CASE NextThread
  BY <1>1, <1>2 DEF NextThread, Next
<1>3. CASE NextMutex \/ NextLocal \/ NextInfo \/ NextRead
  BY <1>3 DEF NextMutex, NextLocal, NextInfo, NextRead
<1>4. CASE UNCHANGED allVars
  BY <1>4 DEF allVars
<1> QED
  BY <1>2, <1>3, <1>4 DEF NextAll

(* Whatever tree of processes and threads a program makes, of any size,    *)
(* code of the program's sees its own id, tid() is right after join() and  *)
(* nothing runs twice.                                                     *)
THEOREM IdsAreRight == SpecAll => []ThreadsSound
<1>1. InitAll => ThreadInv
  BY ThreadInit DEF InitAll
<1>2. ThreadInv /\ [NextAll]_allVars => ThreadInv'
  BY ThreadStep, ProcessUsesThread
<1> QED
  BY <1>1, <1>2, ThreadInvIsEnough, PTL DEF SpecAll

-----------------------------------------------------------------------------
(* MutexLock and Condition. *)

(* Whoever holder_ names is in its critical section or waits in it. *)
HolderInside ==
    /\ holder_ \in Tids \cup {0}
    /\ mpc \in [Tids -> {"out", "locking", "in", "unlocking", "wait", "woken"}]
    /\ holder_ # 0 => mpc[holder_] \in {"in", "wait", "woken"}

(* Both hold in every state; what one thread reads of another's id is      *)
(* right.                                                                  *)
LEMMA MutexStep == ThreadInv /\ HolderInside /\ [NextAll]_allVars => HolderInside'
<1> SUFFICES ASSUME ThreadInv, HolderInside, [NextAll]_allVars PROVE HolderInside'
  OBVIOUS
<1> USE TidAssumption
<1>1. ASSUME NEW k \in Tids, Running(k), M!Use(k) PROVE HolderInside'
  <2>1. t_cachedTid[k] = k
    BY <1>1 DEF ThreadInv, OwnIdentity
  <2>2. CASE M!Lock(k) \/ M!Wait(k) \/ M!Wake(k) \/ M!WaitReturns(k)
    BY <2>2 DEF HolderInside, M!Lock, M!Wait, M!Wake, M!WaitReturns, M!Goto
  <2>3. CASE M!SetHolder(k)
    BY <2>1, <2>3 DEF HolderInside, M!SetHolder, M!Goto
  <2>4. CASE M!ClearHolder(k) \/ M!Unlock(k)
    BY <2>4 DEF HolderInside, M!ClearHolder, M!Unlock, M!Goto
  <2> QED
    BY <1>1, <2>2, <2>3, <2>4 DEF M!Use
<1>2. ASSUME UNCHANGED mutexVars PROVE HolderInside'
  BY <1>2 DEF mutexVars, HolderInside
<1>3. NextThread => UNCHANGED mutexVars
  BY DEF NextThread, Rest, Ends, Dies, Forks
<1> QED
  BY <1>1, <1>2, <1>3 DEF NextAll, NextMutex, NextLocal, NextInfo, NextRead, allVars

(* For any number of threads that lock, unlock and wait in any order, none *)
(* that is outside is told by isLockedByThisThread() that it is inside.    *)
THEOREM NobodyMisled == SpecAll => []NoFalseClaim
<1> DEFINE Inv == ThreadInv /\ HolderInside
<1>1. InitAll => Inv
  <2>1. InitAll => HolderInside
    BY TidAssumption DEF InitAll, M!Init, HolderInside
  <2> QED
    BY <2>1, ThreadInit DEF InitAll
<1>2. Inv /\ [NextAll]_allVars => Inv'
  BY ThreadStep, ProcessUsesThread, MutexStep
<1>3. Inv => NoFalseClaim
  BY TidAssumption DEF NoFalseClaim, ThreadInv, OwnIdentity, HolderInside, M!isLockedByThisThread
<1> QED
  BY <1>1, <1>2, <1>3, PTL DEF SpecAll

-----------------------------------------------------------------------------
(* ThreadLocal. *)

(* Values are numbered as they are made, and a thread that is not there    *)
(* has none.                                                               *)
ValueTypes ==
    /\ made \in Nat
    /\ pkey \in [Tids -> BOOLEAN]
    /\ specific \in [Tids -> 0..made]
    /\ heap \in [Tids -> SUBSET (1..made)]
    /\ \A k \in Tids : pc[k] = "unborn" => specific[k] = 0

(* No two threads of a process have the same value. *)
ValuesApart ==
    \A i, k \in Tids :
        (process[i] = process[k] /\ specific[i] = specific[k] /\ specific[i] # 0) => i = k

(* Values are alive as long as the key is there. *)
ValuesAlive ==
    \A k \in Tids :
        (specific[k] # 0 /\ process[k] \in Tids /\ pkey[process[k]])
            => specific[k] \in heap[process[k]]

(* In a process that was not forked every object is some thread's. *)
NothingLeft ==
    pkey[Main] => \A x \in heap[Main] : \E k \in Tids : process[k] = Main /\ specific[k] = x

LocalInv == ValueTypes /\ ValuesApart /\ ValuesAlive /\ NothingLeft

LEMMA LocalInit == InitAll => LocalInv
<1> SUFFICES ASSUME InitAll PROVE LocalInv
  OBVIOUS
<1>1. ValueTypes
  <2>1. 0 \in 0..0 /\ {} \in SUBSET (1..0)
    OBVIOUS
  <2> QED
    BY <2>1 DEF InitAll, L!Init, ValueTypes
<1> QED
  BY <1>1, TidAssumption DEF InitAll, L!Init, LocalInv, ValuesApart, ValuesAlive, NothingLeft

(* A thread asks for its value. *)
LEMMA ValueStep ==
    ASSUME ThreadInv, LocalInv, NEW k \in Tids, Running(k), L!value(k), UNCHANGED vars
    PROVE  LocalInv'
<1> USE TidAssumption DEF LocalInv
<1> DEFINE p == process[k]
<1>1. p \in Tids /\ pc[k] # "unborn"
  BY DEF ThreadInv, Born, Running
<1>2. /\ made' = made + 1 /\ made \in Nat /\ specific[k] = 0 /\ pkey[p]
      /\ heap' = [heap EXCEPT ![p] = heap[p] \cup {made + 1}]
      /\ specific' = [specific EXCEPT ![k] = made + 1]
      /\ UNCHANGED <<pkey, pc, process>>
  BY DEF L!value, ValueTypes, vars
<1> HIDE DEF p
<1>3. \A i \in Tids : specific[i] # made + 1
  BY <1>2 DEF ValueTypes
<1>4. ValueTypes'
  <2>1. heap' \in [Tids -> SUBSET (1..made')]
    BY <1>1, <1>2 DEF ValueTypes
  <2>2. specific' \in [Tids -> 0..made']
    BY <1>1, <1>2 DEF ValueTypes
  <2> QED
    BY <1>1, <1>2, <2>1, <2>2 DEF ValueTypes
<1>5. ValuesApart'
  BY <1>2, <1>3 DEF ValueTypes, ValuesApart
<1>6. ValuesAlive'
  <2> SUFFICES ASSUME NEW i \in Tids, specific'[i] # 0, process[i] \in Tids, pkey[process[i]]
               PROVE  specific'[i] \in heap'[process[i]]
    BY <1>2 DEF ValuesAlive
  <2>1. CASE i = k
    BY <1>1, <1>2, <2>1 DEF ValueTypes, p
  <2>2. CASE i # k
    BY <1>1, <1>2, <2>2 DEF ValueTypes, ValuesAlive
  <2> QED
    BY <2>1, <2>2
<1>7. NothingLeft'
  <2> SUFFICES ASSUME pkey[Main], NEW x \in heap'[Main]
               PROVE  \E i \in Tids : process[i] = Main /\ specific'[i] = x
    BY <1>2 DEF NothingLeft
  <2>1. CASE x \in heap[Main]
    <3>1. PICK i \in Tids : process[i] = Main /\ specific[i] = x
      BY <2>1 DEF NothingLeft
    <3>2. x # 0
      BY <2>1 DEF ValueTypes
    <3>3. i # k
      BY <1>2, <3>1, <3>2
    <3> QED
      BY <1>2, <3>1, <3>3 DEF ValueTypes
  <2>2. CASE x \notin heap[Main]
    <3>1. p = Main /\ x = made + 1
      BY <1>1, <1>2, <2>2 DEF ValueTypes
    <3> QED
      BY <1>2, <3>1 DEF ValueTypes, p
  <2> QED
    BY <2>1, <2>2
<1> QED
  BY <1>4, <1>5, <1>6, <1>7

(* A thread ends, and its value with it. *)
LEMMA DestructorStep ==
    ASSUME ThreadInv, LocalInv, NEW k \in Tids, Running(k), L!destructor(k),
           FuncReturns(k)
    PROVE  LocalInv'
<1> USE TidAssumption DEF LocalInv
<1> DEFINE p == process[k]
<1>1. p \in Tids /\ pc[k] # "unborn"
  BY DEF ThreadInv, Born, Running
<1>2. /\ heap' = IF pkey[p] THEN [heap EXCEPT ![p] = heap[p] \ {specific[k]}] ELSE heap
      /\ specific' = [specific EXCEPT ![k] = 0]
      /\ UNCHANGED <<pkey, made, process>>
      /\ pc' = [pc EXCEPT ![k] = "exited"]
  BY DEF L!destructor, FuncReturns
<1> HIDE DEF p
<1>3. ValueTypes'
  <2>1. heap' \in [Tids -> SUBSET (1..made')]
    BY <1>1, <1>2 DEF ValueTypes
  <2>2. specific' \in [Tids -> 0..made']
    BY <1>2 DEF ValueTypes
  <2>3. \A i \in Tids : pc'[i] = "unborn" => specific'[i] = 0
    BY <1>2 DEF ValueTypes, ThreadInv, TypeOK
  <2> QED
    BY <1>2, <2>1, <2>2, <2>3 DEF ValueTypes
<1>4. ValuesApart'
  BY <1>2 DEF ValueTypes, ValuesApart
<1>5. ValuesAlive'
  <2> SUFFICES ASSUME NEW i \in Tids, specific'[i] # 0, process[i] \in Tids, pkey[process[i]]
               PROVE  specific'[i] \in heap'[process[i]]
    BY <1>2 DEF ValuesAlive
  <2>1. i # k /\ specific'[i] = specific[i] /\ specific[i] \in heap[process[i]]
    BY <1>2 DEF ValueTypes, ValuesAlive
  <2>2. CASE process[i] = p
    <3>1. specific[i] # specific[k]
      BY <2>1, <2>2 DEF ValuesApart, p
    <3> QED
      BY <1>1, <1>2, <2>1, <2>2, <3>1 DEF ValueTypes
  <2>3. CASE process[i] # p
    BY <1>1, <1>2, <2>1, <2>3 DEF ValueTypes
  <2> QED
    BY <2>2, <2>3
<1>6. NothingLeft'
  <2> SUFFICES ASSUME pkey[Main], NEW x \in heap'[Main]
               PROVE  \E i \in Tids : process[i] = Main /\ specific'[i] = x
    BY <1>2 DEF NothingLeft
  <2>1. x \in heap[Main] /\ (p = Main => x # specific[k])
    BY <1>1, <1>2 DEF ValueTypes
  <2>2. PICK i \in Tids : process[i] = Main /\ specific[i] = x
    BY <2>1 DEF NothingLeft
  <2>3. i # k
    BY <2>1, <2>2 DEF p
  <2> QED
    BY <1>2, <2>2, <2>3 DEF ValueTypes
<1> QED
  BY <1>3, <1>4, <1>5, <1>6

(* A child has copies of the values. *)
LEMMA ForkedValuesStep ==
    ASSUME ThreadInv, LocalInv, NEW k \in Tids, NEW j \in Tids, Fork(k, j), L!Fork(k, j)
    PROVE  LocalInv'
<1> USE TidAssumption DEF LocalInv
<1> DEFINE p == process[k]
<1>1. /\ p \in Tids /\ j # k /\ j # p /\ j # Main /\ process[j] = 0
      /\ \A i \in Tids : process[i] # j
  BY DEF ThreadInv, Born, Fork, Running
<1>2. /\ pkey' = [pkey EXCEPT ![j] = pkey[p]]
      /\ specific' = [specific EXCEPT ![j] = specific[k]]
      /\ heap' = [heap EXCEPT ![j] = heap[p]]
      /\ made' = made
      /\ process' = [process EXCEPT ![j] = j]
      /\ \A i \in Tids : pc'[i] = "unborn" => i # j /\ pc[i] = "unborn"
  BY DEF Fork, L!Fork, ThreadInv, TypeOK
<1> HIDE DEF p
<1>3. ValueTypes'
  <2>1. heap' \in [Tids -> SUBSET (1..made')]
    BY <1>1, <1>2 DEF ValueTypes
  <2>2. specific' \in [Tids -> 0..made']
    BY <1>2 DEF ValueTypes
  <2>3. pkey' \in [Tids -> BOOLEAN]
    BY <1>1, <1>2 DEF ValueTypes
  <2> QED
    BY <1>2, <2>1, <2>2, <2>3 DEF ValueTypes
<1>4. ValuesApart'
  BY <1>1, <1>2 DEF ValueTypes, ValuesApart, ThreadInv, TypeOK
<1>5. ValuesAlive'
  <2> SUFFICES ASSUME NEW i \in Tids, specific'[i] # 0, process'[i] \in Tids,
                      pkey'[process'[i]]
               PROVE  specific'[i] \in heap'[process'[i]]
    BY DEF ValuesAlive
  <2>1. CASE i = j
    <3>1. process'[i] = j /\ specific'[i] = specific[k] /\ heap'[j] = heap[p] /\ pkey'[j] = pkey[p]
      BY <1>2, <2>1 DEF ValueTypes, ThreadInv, TypeOK
    <3> QED
      BY <1>1, <3>1 DEF ValuesAlive, p
  <2>2. CASE i # j
    <3>1. /\ process'[i] = process[i] /\ specific'[i] = specific[i]
          /\ heap'[process[i]] = heap[process[i]] /\ pkey'[process[i]] = pkey[process[i]]
      BY <1>1, <1>2, <2>2 DEF ValueTypes, ThreadInv, TypeOK
    <3> QED
      BY <3>1 DEF ValuesAlive
  <2> QED
    BY <2>1, <2>2
<1>6. NothingLeft'
  <2> SUFFICES ASSUME pkey'[Main], NEW x \in heap'[Main]
               PROVE  \E i \in Tids : process'[i] = Main /\ specific'[i] = x
    BY DEF NothingLeft
  <2>1. pkey[Main] /\ x \in heap[Main]
    BY <1>1, <1>2 DEF ValueTypes
  <2>2. PICK i \in Tids : process[i] = Main /\ specific[i] = x
    BY <2>1 DEF NothingLeft
  <2> QED
    BY <1>1, <1>2, <2>2 DEF ValueTypes, ThreadInv, TypeOK
<1> QED
  BY <1>3, <1>4, <1>5, <1>6

(* Processes of threads that are there stay, and nobody is unborn again. *)
LEMMA ThreadsStay ==
    ASSUME ThreadInv, [Next]_vars, NEW k \in Tids
    PROVE  /\ pc[k] # "unborn" => process'[k] = process[k]
           /\ pc'[k] = "unborn" => pc[k] = "unborn"
<1> USE DEF ThreadInv
<1>1. CASE ThreadNameInitializer
  BY <1>1 DEF ThreadNameInitializer, TypeOK
<1>2. ASSUME NEW i \in Tids, NEW o \in Threads, NEW j \in Tids, Start(i, o, j)
      PROVE  /\ pc[k] # "unborn" => process'[k] = process[k]
             /\ pc'[k] = "unborn" => pc[k] = "unborn"
  BY <1>2 DEF Start, TypeOK
<1>3. ASSUME NEW j \in Tids, RunInThread(j) \/ FuncReturns(j) \/ AfterFork(j)
      PROVE  process' = process /\ (pc'[k] = "unborn" => pc[k] = "unborn")
  BY <1>3 DEF RunInThread, FuncReturns, AfterFork, TypeOK
<1>4. ASSUME NEW j \in Tids, FuncThrows(j)
      PROVE  process' = process /\ (pc'[k] = "unborn" => pc[k] = "unborn")
  BY <1>4 DEF FuncThrows
<1>5. ASSUME NEW i \in Tids, NEW o \in Threads, Join(i, o)
      PROVE  process' = process /\ pc' = pc
  BY <1>5 DEF Join
<1>6. ASSUME NEW i \in Tids, NEW j \in Tids, Fork(i, j)
      PROVE  /\ pc[k] # "unborn" => process'[k] = process[k]
             /\ pc'[k] = "unborn" => pc[k] = "unborn"
  BY <1>6 DEF Fork, TypeOK
<1>7. CASE UNCHANGED vars
  BY <1>7 DEF vars
<1> QED
  BY <1>1, <1>2, <1>3, <1>4, <1>5, <1>6, <1>7 DEF Next

LEMMA LocalStep == ThreadInv /\ LocalInv /\ [NextAll]_allVars => LocalInv'
<1> SUFFICES ASSUME ThreadInv, LocalInv, [NextAll]_allVars PROVE LocalInv'
  OBVIOUS
<1> USE TidAssumption
<1>0. /\ \A k \in Tids : specific[k] # 0 => process'[k] = process[k]
      /\ \A k \in Tids : pc'[k] = "unborn" => pc[k] = "unborn"
  BY ThreadsStay, ProcessUsesThread DEF LocalInv, ValueTypes
<1>1. ASSUME UNCHANGED localVars_ PROVE LocalInv'
  <2>1. ValueTypes'
    BY <1>0, <1>1 DEF LocalInv, ValueTypes, localVars_
  <2>2. ValuesApart' /\ ValuesAlive'
    BY <1>0, <1>1 DEF LocalInv, ValuesApart, ValuesAlive, localVars_
  <2>3. NothingLeft'
    <3> SUFFICES ASSUME pkey[Main], NEW x \in heap[Main]
                 PROVE  \E i \in Tids : process'[i] = Main /\ specific[i] = x
      BY <1>1 DEF NothingLeft, localVars_
    <3>1. PICK i \in Tids : process[i] = Main /\ specific[i] = x
      BY DEF LocalInv, NothingLeft
    <3>2. x # 0
      BY DEF LocalInv, ValueTypes
    <3> QED
      BY <1>0, <3>1, <3>2
  <2> QED
    BY <2>1, <2>2, <2>3 DEF LocalInv
<1>2. CASE NextThread
  <2>1. ASSUME NEW k \in Tids, NEW j \in NewTids, Fork(k, j), Forks(k, j) PROVE LocalInv'
    <3>1. j \in Tids
      BY ProcessAssumption DEF NewTids
    <3> QED
      BY <2>1, <3>1, ForkedValuesStep DEF Forks
  <2>2. ASSUME NEW j \in Tids, FuncReturns(j), Ends(j) PROVE LocalInv'
    BY <2>2, DestructorStep DEF Ends, FuncReturns
  <2>3. ASSUME Rest \/ \E j \in Tids : Dies(j) PROVE LocalInv'
    BY <1>1, <2>3 DEF Rest, Dies
  <2> QED
    BY <1>2, <2>1, <2>2, <2>3 DEF NextThread
<1>3. CASE NextLocal
  <2>1. PICK k \in Tids : Running(k) /\ L!Use(k)
    BY <1>3 DEF NextLocal
  <2>2. UNCHANGED vars
    BY <1>3 DEF NextLocal
  <2>3. CASE L!value(k)
    BY <2>1, <2>2, <2>3, ValueStep
  <2>4. CASE L!Destroy(k)
    <3>1. process[k] \in Tids
      BY <2>1 DEF ThreadInv, Born, Running
    <3>2. /\ pkey' = [pkey EXCEPT ![process[k]] = FALSE]
          /\ UNCHANGED <<specific, heap, made, pc, process>>
      BY <2>2, <2>4 DEF L!Destroy, vars
    <3>3. pkey' \in [Tids -> BOOLEAN] /\ \A p \in Tids : pkey'[p] => pkey[p]
      BY <3>1, <3>2 DEF LocalInv, ValueTypes
    <3> QED
      BY <3>2, <3>3 DEF LocalInv, ValueTypes, ValuesApart, ValuesAlive, NothingLeft
  <2> QED
    BY <2>1, <2>3, <2>4 DEF L!Use
<1> QED
  BY <1>1, <1>2, <1>3 DEF NextAll, NextMutex, NextInfo, NextRead, allVars

(* The threads of a process have as many values as there are threads that  *)
(* have one.                                                               *)
LEMMA ValuesCount ==
    ASSUME LocalInv, NEW p \in Tids
    PROVE  LET mine == {k \in Tids : process[k] = p /\ specific[k] # 0}
           IN  L!Cardinality({specific[k] : k \in mine}) = L!Cardinality(mine)
<1> DEFINE mine == {k \in Tids : process[k] = p /\ specific[k] # 0}
           values == {specific[k] : k \in mine}
           f == [k \in mine |-> specific[k]]
<1>1. IsFiniteSet(mine)
  BY TidAssumption, FS_Subset
<1>2. f \in [mine -> values] /\ \A v \in values : \E k \in mine : f[k] = v
  OBVIOUS
<1>3. \A i, k \in mine : f[i] = f[k] => i = k
  BY DEF LocalInv, ValuesApart
<1>4. f \in Surjection(mine, values) /\ f \in Injection(mine, values)
  <2> HIDE DEF mine, values, f
  <2> QED
    BY <1>2, <1>3 DEF Surjection, Injection, IsInjective
<1>5. Cardinality(values) = Cardinality(mine)
  <2> HIDE DEF mine, values, f
  <2> QED
    BY <1>1, <1>4, FS_Surjection
<1>6. \A S : L!Cardinality(S) = Cardinality(S)
  BY DEF L!Cardinality, Cardinality
<1> QED
  BY <1>5, <1>6

(* Whatever threads come, ask, fork and go, and whenever the ThreadLocal   *)
(* goes, no two threads of a process have the same value, none has a       *)
(* deleted one, and a thread that ends leaves none behind.                 *)
THEOREM EachItsOwnValue == SpecAll => []ValuesOwned
<1> DEFINE Inv == ThreadInv /\ LocalInv
<1>1. InitAll => Inv
  BY ThreadInit, LocalInit DEF InitAll
<1>2. Inv /\ [NextAll]_allVars => Inv'
  BY ThreadStep, ProcessUsesThread, LocalStep
<1>3. Inv => ValuesOwned
  <2> SUFFICES ASSUME Inv, NEW p \in Tids
               PROVE  LET mine == {k \in Tids : process[k] = p /\ specific[k] # 0}
                          values == {specific[k] : k \in mine}
                      IN  /\ L!Cardinality(values) = L!Cardinality(mine)
                          /\ pkey[p] => values \subseteq heap[p]
                          /\ (pkey[p] /\ p \notin Tids \ {Main}) => heap[p] = values
    BY DEF ValuesOwned, L!ValuesOwned
  <2> DEFINE mine == {k \in Tids : process[k] = p /\ specific[k] # 0}
             values == {specific[k] : k \in mine}
  <2>1. pkey[p] => values \subseteq heap[p]
    BY DEF LocalInv, ValuesAlive
  <2>2. ASSUME pkey[Main], p = Main PROVE heap[p] \subseteq values
    <3> SUFFICES ASSUME NEW x \in heap[p] PROVE x \in values
      OBVIOUS
    <3>1. PICK k \in Tids : process[k] = Main /\ specific[k] = x
      BY <2>2 DEF LocalInv, NothingLeft
    <3>2. x # 0
      BY DEF LocalInv, ValueTypes
    <3> QED
      BY <2>2, <3>1, <3>2
  <2>3. L!Cardinality(values) = L!Cardinality(mine)
    BY ValuesCount
  <2> HIDE DEF mine, values
  <2>4. (pkey[p] /\ p \notin Tids \ {Main}) => heap[p] = values
    BY <2>1, <2>2
  <2> QED
    BY <2>1, <2>3, <2>4 DEF mine, values
<1> QED
  BY <1>1, <1>2, <1>3, PTL DEF SpecAll

-----------------------------------------------------------------------------
(* ReadSmallFile. *)

(* The state of a reader, and what it keeps in every step of a call: what  *)
(* it has is what lies between the start of the call and the descriptor's  *)
(* position.                                                               *)
ReadTypes ==
    /\ kind \in {"missing", "regular", "directory"}
    /\ length \in Nat /\ offset \in 0..length
    /\ content \in Seq(Nat)
    /\ buf_ \in Seq(Nat) /\ Len(buf_) <= kBufferSize
    /\ nul \in Nat /\ nul < kBufferSize
    /\ rpc \in {"new", "done", "stat", "read"}
    /\ call \in [n : Nat, max : Nat, start : Nat, length : Nat]
    /\ call.start <= call.length /\ call.length <= length

Sofar ==
    /\ content = R!Bytes(call.start, call.start + Len(content))
    /\ Len(content) <= call.max
    /\ err_ # "none" => content = <<>>
    /\ rpc \in {"stat", "read"} => err_ = "none" /\ offset = call.start + Len(content)
    /\ (rpc = "done" /\ err_ = "none" /\ err = "none") =>
          Len(content) >= R!Smaller(call.max, call.length - call.start)
    /\ rpc = "new" => err_ = "none" /\ err = "none" /\ call.max = 0

ReadInv == ReadTypes /\ Sofar

(* What lies between two positions of the file, and how it is joined. *)
LEMMA BytesType ==
    ASSUME NEW a \in Nat, NEW b \in Nat, a <= b
    PROVE  R!Bytes(a, b) \in Seq(Nat) /\ Len(R!Bytes(a, b)) = b - a
<1>1. b - a \in Nat
  OBVIOUS
<1>2. \A i \in 1..(b - a) : a + i \in Nat
  OBVIOUS
<1> QED
  BY <1>1, <1>2 DEF R!Bytes

LEMMA BytesJoined ==
    ASSUME NEW a \in Nat, NEW b \in Nat, NEW c \in Nat, a <= b, b <= c
    PROVE  R!Bytes(a, b) \o R!Bytes(b, c) = R!Bytes(a, c)
<1> DEFINE s == R!Bytes(a, b)
           t == R!Bytes(b, c)
           u == R!Bytes(a, c)
<1>0. a <= c
  OBVIOUS
<1>1. /\ s \in Seq(Nat) /\ Len(s) = b - a
      /\ t \in Seq(Nat) /\ Len(t) = c - b
      /\ u \in Seq(Nat) /\ Len(u) = c - a
  <2>1. s \in Seq(Nat) /\ Len(s) = b - a
    BY BytesType
  <2>2. t \in Seq(Nat) /\ Len(t) = c - b
    BY BytesType
  <2>3. u \in Seq(Nat) /\ Len(u) = c - a
    BY <1>0, BytesType
  <2> QED
    BY <2>1, <2>2, <2>3
<1>2. /\ \A i \in 1..(b - a) : s[i] = a + i
      /\ \A i \in 1..(c - b) : t[i] = b + i
      /\ \A i \in 1..(c - a) : u[i] = a + i
  BY DEF R!Bytes
<1> HIDE DEF s, t, u
<1>3. s \o t \in Seq(Nat) /\ Len(s \o t) = c - a
  BY <1>1
<1>4. \A i \in 1..(c - a) : (s \o t)[i] = u[i]
  <2> SUFFICES ASSUME NEW i \in 1..(c - a) PROVE (s \o t)[i] = u[i]
    OBVIOUS
  <2>1. CASE i <= b - a
    BY <1>1, <1>2, <2>1
  <2>2. CASE i > b - a
    <3>0. i \in 1..(Len(s) + Len(t)) /\ ~(i <= Len(s))
      BY <1>1, <2>2
    <3>1. (s \o t)[i] = t[i - (b - a)]
      <4>1. (s \o t)[i] = t[i - Len(s)]
        BY <1>1, <3>0, ConcatProperties, Zenon
      <4> QED
        BY <1>1, <4>1
    <3>2. i - (b - a) \in 1..(c - b)
      BY <2>2
    <3>3. t[i - (b - a)] = b + (i - (b - a))
      BY <1>2, <3>2
    <3> QED
      BY <1>2, <3>1, <3>3
  <2>3. i <= b - a \/ i > b - a
    OBVIOUS
  <2> QED
    BY <2>1, <2>2, <2>3
<1>5. s \o t = u
  BY <1>1, <1>3, <1>4, SeqEqual
<1> QED
  BY <1>5 DEF s, t, u

LEMMA ReadInit == InitAll => ReadInv
<1> SUFFICES ASSUME InitAll PROVE ReadInv
  OBVIOUS
<1> USE ProcessAssumption
<1>1. call = [n |-> 0, max |-> 0, start |-> 0, length |-> 0]
  BY DEF InitAll, R!Init
<1>2. ReadTypes
  <2>1. /\ call \in [n : Nat, max : Nat, start : Nat, length : Nat]
        /\ call.start = 0 /\ call.length = 0
    BY <1>1
  <2>2. offset \in 0..length /\ length = 0 /\ nul = 0
    BY DEF InitAll, R!Init
  <2>3. /\ content = <<>> /\ buf_ = <<>> /\ rpc = "new"
        /\ kind \in {"missing", "regular", "directory"}
    BY DEF InitAll, R!Init
  <2> QED
    BY <2>1, <2>2, <2>3 DEF ReadTypes
<1>3. Sofar
  <2>1. call.start = 0 /\ call.max = 0 /\ call.length = 0
    BY <1>1
  <2>2. content = <<>> /\ Len(content) = 0 /\ rpc = "new" /\ err_ = "none" /\ err = "none"
    BY DEF InitAll, R!Init
  <2>3. R!Bytes(0, 0) = <<>>
    BY BytesType
  <2> QED
    BY <2>1, <2>2, <2>3 DEF Sofar
<1> QED
  BY <1>2, <1>3 DEF ReadInv

(* The calls, up to the first read. *)
LEMMA CallStep ==
    ASSUME ReadInv, NEW max \in MaxSizes, NEW wantSize \in BOOLEAN,
           R!readToString(max, wantSize)
    PROVE  ReadInv'
<1> USE ProcessAssumption DEF ReadInv
<1>1. call' = [n |-> call.n + 1, max |-> max, start |-> offset, length |-> length]
  BY DEF R!readToString
<1>2. /\ call'.n = call.n + 1 /\ call'.max = max /\ call'.start = offset
      /\ call'.length = length
      /\ UNCHANGED <<kind, length, offset, buf_, nul, err_>>
  BY <1>1 DEF R!readToString
<1>3. /\ content' = <<>> /\ Len(content') = 0
      /\ rpc' = IF err_ # "none" THEN "done" ELSE IF wantSize THEN "stat" ELSE "read"
  BY DEF R!readToString, R!opened, Sofar
<1>4. max \in Nat
  OBVIOUS
<1>5. ReadTypes'
  <2>1. call' \in [n : Nat, max : Nat, start : Nat, length : Nat]
    BY <1>1, <1>4 DEF ReadTypes
  <2>2. content' \in Seq(Nat) /\ rpc' \in {"new", "done", "stat", "read"}
    BY <1>3
  <2>3. call'.start <= call'.length /\ call'.length <= length'
    BY <1>2 DEF ReadTypes
  <2> QED
    BY <1>2, <2>1, <2>2, <2>3 DEF ReadTypes
<1>6. Sofar'
  <2>1. content' = R!Bytes(call'.start, call'.start + Len(content'))
    <3>1. offset \in Nat /\ offset + 0 = offset
      BY DEF ReadTypes
    <3>a. offset <= offset /\ offset - offset = 0
      BY <3>1
    <3>2. R!Bytes(offset, offset) \in Seq(Nat) /\ Len(R!Bytes(offset, offset)) = 0
      BY <3>1, <3>a, BytesType, Zenon
    <3>3. R!Bytes(offset, offset) = <<>>
      BY <3>2
    <3> QED
      BY <1>2, <1>3, <3>1, <3>3
  <2>2. Len(content') <= call'.max
    BY <1>2, <1>3, <1>4
  <2>3. rpc' \in {"stat", "read"} => err_' = "none" /\ offset' = call'.start + Len(content')
    BY <1>2, <1>3 DEF ReadTypes
  <2>4. rpc' # "new" /\ ~(rpc' = "done" /\ err_' = "none")
    BY <1>2, <1>3
  <2> QED
    BY <1>3, <2>1, <2>2, <2>3, <2>4 DEF Sofar, R!Bytes, R!Smaller
<1> QED
  BY <1>5, <1>6

(* A read is no longer than the buffer, what is left and what is wanted. *)
LEMMA ReadLength ==
    ASSUME NEW max \in Nat, NEW len \in Nat, NEW left \in Int, NEW n,
           n \in 1..R!Smaller(R!Smaller(max - len, kBufferSize), left)
    PROVE  n \in Nat /\ n <= kBufferSize /\ n <= max - len /\ n <= left
  BY ProcessAssumption DEF R!Smaller

(* A turn of the loop. *)
LEMMA TurnStep == ReadInv /\ R!Read => ReadInv'
<1> SUFFICES ASSUME ReadInv, R!Read PROVE ReadInv'
  OBVIOUS
<1> USE ProcessAssumption DEF ReadInv
<1> DEFINE st == call.start
<1>0. /\ offset \in Nat /\ length \in Nat /\ offset <= length /\ st \in Nat /\ call.max \in Nat
      /\ Len(content) \in Nat /\ content \in Seq(Nat)
      /\ offset = st + Len(content) /\ Len(content) <= call.max
  BY DEF R!Read, ReadTypes, Sofar
<1>a. rpc = "read" /\ err_ = "none" /\ content = R!Bytes(st, st + Len(content))
  BY DEF R!Read, Sofar
<1>1. PICK n : /\ n \in 1..R!Smaller(R!toRead, length - offset)
               /\ buf_' = R!Bytes(offset, offset + n) /\ offset' = offset + n
  BY DEF R!Read
<1>2. /\ content' = content \o buf_'
      /\ UNCHANGED <<kind, length, nul, rpc, fileSize, err_, err, call>>
  BY DEF R!Read
<1> HIDE DEF st
<1>3. /\ n \in Nat /\ n <= kBufferSize /\ n <= call.max - Len(content) /\ n <= length - offset
  <2>1. n \in 1..R!Smaller(R!Smaller(call.max - Len(content), kBufferSize), length - offset)
    BY <1>1 DEF R!toRead
  <2>a. length - offset \in Int
    BY <1>0
  <2>2. PICK left \in Int : left = length - offset
    BY <2>a, Zenon
  <2>3. PICK max \in Nat, len \in Nat : max = call.max /\ len = Len(content)
    BY <1>0
  <2>4. n \in 1..R!Smaller(R!Smaller(max - len, kBufferSize), left)
    BY <2>1, <2>2, <2>3
  <2>5. n \in Nat /\ n <= kBufferSize /\ n <= max - len /\ n <= left
    BY <2>4, ReadLength
  <2> QED
    BY <2>2, <2>3, <2>5
<1>4. buf_' \in Seq(Nat) /\ Len(buf_') = n
  <2>1. offset + n \in Nat /\ offset <= offset + n /\ (offset + n) - offset = n
    BY <1>0, <1>3
  <2> QED
    BY <1>0, <1>1, <2>1, BytesType
<1>5. content' \in Seq(Nat) /\ Len(content') = Len(content) + n
  BY <1>0, <1>2, <1>4, ConcatProperties
<1>6. content' = R!Bytes(st, st + Len(content'))
  <2>1. /\ offset + n \in Nat /\ offset <= offset + n /\ st <= offset
        /\ st + (Len(content) + n) = offset + n
    BY <1>0, <1>3
  <2>2. content = R!Bytes(st, offset)
    BY <1>0, <1>a
  <2>3. content' = R!Bytes(st, offset + n)
    <3>1. PICK e \in Nat : e = offset + n
      BY <2>1
    <3>2. R!Bytes(st, offset) \o R!Bytes(offset, e) = R!Bytes(st, e)
      <4>1. st \in Nat /\ offset \in Nat /\ st <= offset /\ offset <= e
        BY <1>0, <2>1, <3>1
      <4> QED
        BY <4>1, BytesJoined, Zenon
    <3> QED
      BY <1>1, <1>2, <2>2, <3>1, <3>2
  <2> QED
    BY <1>5, <2>1, <2>3
<1>7. ReadTypes'
  <2>1. offset' \in 0..length
    BY <1>0, <1>1, <1>3
  <2>2. Len(buf_') <= kBufferSize
    BY <1>3, <1>4
  <2> QED
    BY <1>2, <1>4, <1>5, <2>1, <2>2 DEF ReadTypes
<1>8. Sofar'
  <2>1. Len(content') <= call.max /\ offset' = st + Len(content')
    <3>1. PICK max \in Nat, len \in Nat : max = call.max /\ len = Len(content)
      BY <1>0
    <3>2. offset = st + len /\ n \in Nat /\ n <= max - len
      BY <1>0, <1>3, <3>1
    <3>3. offset + n = st + (len + n) /\ len + n <= max
      BY <1>0, <3>1, <3>2
    <3> QED
      BY <1>1, <1>5, <3>1, <3>3
  <2> QED
    BY <1>a, <1>2, <1>6, <2>1 DEF Sofar, st, R!Bytes
<1> QED
  BY <1>7, <1>8

(* The loop ends: with an error, at the end of the file, or with all that  *)
(* was wanted.                                                             *)
LEMMA EndStep == ReadInv /\ R!ReadEnds => ReadInv'
<1> SUFFICES ASSUME ReadInv, R!ReadEnds PROVE ReadInv'
  OBVIOUS
<1> USE ProcessAssumption DEF ReadInv
<1>1. /\ rpc = "read" /\ rpc' = "done"
      /\ UNCHANGED <<kind, length, offset, buf_, nul, content, fileSize, err_, call>>
  BY DEF R!ReadEnds
<1>2. ReadTypes'
  BY <1>1 DEF ReadTypes
<1>3. err' = "none" => offset = length \/ R!toRead = 0
  BY DEF R!ReadEnds
<1>4. \A a, b \in Int : R!Smaller(a, b) \in {a, b} /\ R!Smaller(a, b) <= a /\ R!Smaller(a, b) <= b
  BY DEF R!Smaller
<1>5. PICK max \in Nat, len \in Nat, st \in Nat, cl \in Nat :
        max = call.max /\ len = Len(content) /\ st = call.start /\ cl = call.length
  BY DEF ReadTypes
<1>6. offset = st + len /\ len <= max /\ cl <= length /\ length \in Nat
  BY <1>1, <1>5 DEF ReadTypes, Sofar
<1>7. err' = "none" => len >= R!Smaller(max, cl - st)
  <2>1. CASE offset = length
    BY <1>4, <1>6, <2>1
  <2>2. CASE R!toRead = 0
    <3>1. R!Smaller(max - len, kBufferSize) = 0
      BY <1>5, <2>2 DEF R!toRead
    <3>2. max - len = 0
      BY <1>4, <3>1
    <3> QED
      BY <1>4, <3>2
  <2> QED
    BY <1>3, <2>1, <2>2
<1>8. Sofar'
  BY <1>1, <1>5, <1>7 DEF Sofar, R!Bytes, R!Smaller
<1> QED
  BY <1>2, <1>8

LEMMA ReadStep == ReadInv /\ R!Next => ReadInv'
<1> SUFFICES ASSUME ReadInv, R!Next PROVE ReadInv'
  OBVIOUS
<1> USE ProcessAssumption DEF ReadInv
<1>1. CASE R!Grow
  <2>1. /\ length' = length + 1
        /\ UNCHANGED <<kind, offset, buf_, nul, rpc, content, fileSize, err_, err, call>>
    BY <1>1 DEF R!Grow
  <2>2. /\ length' \in Nat /\ offset' \in 0..length' /\ call.length <= length'
    BY <2>1 DEF ReadTypes
  <2>3. ReadTypes'
    BY <2>1, <2>2 DEF ReadTypes
  <2> QED
    BY <2>1, <2>3 DEF Sofar, R!Bytes, R!Smaller
<1>2. CASE R!Open
  <2>1. /\ rpc = "new" /\ rpc' = "done" /\ err_' \in {"none", "ENOENT"}
        /\ UNCHANGED <<kind, length, offset, buf_, nul, content, fileSize, err, call>>
    BY <1>2 DEF R!Open
  <2>2. ReadTypes'
    BY <2>1 DEF ReadTypes
  <2>3. Len(content) = 0 /\ content = <<>> /\ call.max = 0 /\ call.length - call.start \in Nat
    <3>1. Len(content) = 0 /\ call.max = 0
      BY <2>1 DEF Sofar, ReadTypes
    <3>2. content = <<>>
      BY <3>1 DEF ReadTypes
    <3> QED
      BY <3>1, <3>2 DEF ReadTypes
  <2>4. Len(content) >= R!Smaller(call.max, call.length - call.start)
    BY <2>3 DEF R!Smaller
  <2> QED
    BY <2>1, <2>2, <2>3, <2>4 DEF Sofar, R!Bytes, R!Smaller
<1>3. ASSUME NEW max \in MaxSizes, NEW wantSize \in BOOLEAN, R!readToString(max, wantSize)
      PROVE  ReadInv'
  BY <1>3, CallStep
<1>4. ASSUME NEW ok \in BOOLEAN, R!Stat(ok) PROVE ReadInv'
  <2>1. /\ rpc = "stat" /\ rpc' = "read"
        /\ UNCHANGED <<kind, length, offset, buf_, nul, content, err_, call>>
    BY <1>4 DEF R!Stat
  <2> QED
    BY <2>1 DEF ReadTypes, Sofar, R!Bytes, R!Smaller
<1>5. CASE R!Read
  BY <1>5, TurnStep
<1>6. CASE R!ReadEnds
  BY <1>6, EndStep
<1>7. CASE R!readToBuffer
  <2>1. /\ call' = [call EXCEPT !.n = @ + 1] /\ rpc = "done"
        /\ UNCHANGED <<kind, length, offset, rpc, content, fileSize, err_, err>>
    BY <1>7 DEF R!readToBuffer, R!MayCall
  <2>2. /\ call' \in [n : Nat, max : Nat, start : Nat, length : Nat]
        /\ call'.max = call.max /\ call'.start = call.start /\ call'.length = call.length
    <3>1. PICK c \in [n : Nat, max : Nat, start : Nat, length : Nat] : c = call
      BY DEF ReadTypes
    <3>2. PICK d : d = [c EXCEPT !.n = c.n + 1]
      OBVIOUS
    <3>3. d = call'
      BY <2>1, <3>1, <3>2
    <3>4. d \in [n : Nat, max : Nat, start : Nat, length : Nat]
      BY <3>2
    <3>5. d.max = c.max /\ d.start = c.start /\ d.length = c.length
      BY <3>2
    <3> QED
      BY <3>1, <3>3, <3>4, <3>5
  <2>3. /\ buf_' \in Seq(Nat) /\ Len(buf_') <= kBufferSize
        /\ nul' \in Nat /\ nul' < kBufferSize
    <3>1. CASE UNCHANGED <<buf_, nul>>
      BY <3>1 DEF ReadTypes
    <3>2. ASSUME NEW n, n \in 0..R!Smaller(kBufferSize - 1, length), buf_' = R!Bytes(0, n), nul' = n
          PROVE  /\ buf_' \in Seq(Nat) /\ Len(buf_') <= kBufferSize
                 /\ nul' \in Nat /\ nul' < kBufferSize
      <4>1. n \in Nat /\ n < kBufferSize
        <5>1. length \in Nat
          BY DEF ReadTypes
        <5> QED
          BY <3>2, <5>1 DEF R!Smaller
      <4>2. 0 <= n /\ n - 0 = n /\ 0 \in Nat
        BY <4>1
      <4>3. R!Bytes(0, n) \in Seq(Nat) /\ Len(R!Bytes(0, n)) = n
        BY <4>1, <4>2, BytesType, Zenon
      <4> QED
        BY <3>2, <4>1, <4>3
    <3> QED
      BY <1>7, <3>1, <3>2 DEF R!readToBuffer
  <2>4. ReadTypes'
    BY <2>1, <2>2, <2>3 DEF ReadTypes
  <2> QED
    BY <2>1, <2>2, <2>4 DEF Sofar, R!Bytes, R!Smaller
<1> QED
  BY <1>1, <1>2, <1>3, <1>4, <1>5, <1>6, <1>7 DEF R!Next

(* For any sizes of buffer and file and any lengths of reads, ReadSmallFile *)
(* returns what the file had, without a gap, and within its bounds.        *)
THEOREM FilesReadWhole == SpecAll => []ReadsWhole
<1>1. ReadInv /\ [NextAll]_allVars => ReadInv'
  <2> SUFFICES ASSUME ReadInv, [NextAll]_allVars PROVE ReadInv'
    OBVIOUS
  <2>1. ASSUME UNCHANGED readVars PROVE ReadInv'
    BY <2>1 DEF readVars, ReadInv, ReadTypes, Sofar, R!Bytes, R!Smaller
  <2> QED
    BY <2>1, ReadStep DEF NextAll, NextThread, NextMutex, NextLocal, NextInfo, NextRead, allVars
<1>2. ReadInv => ReadsWhole
  BY DEF ReadInv, ReadTypes, Sofar, ReadsWhole, R!ReadsWhole, R!opened
<1> QED
  BY ReadInit, <1>1, <1>2, PTL DEF SpecAll

-----------------------------------------------------------------------------
(* ProcessInfo. *)

(* The operators that ProcessInfo has from FiniteSets are the same. *)
LEMMA SameCardinality == \A S : I!Cardinality(S) = Cardinality(S)
  BY DEF I!Cardinality, Cardinality

(* Ranks are a numbering of the elements, in their order. *)
LEMMA Ranks ==
    ASSUME NEW s \in Seq(Nat)
    PROVE  /\ \A i \in DOMAIN s : I!Rank(s, i) \in DOMAIN s
           /\ \A i, k \in DOMAIN s : s[i] < s[k] => I!Rank(s, i) < I!Rank(s, k)
           /\ \A i, k \in DOMAIN s : I!Rank(s, i) = I!Rank(s, k) => i = k
           /\ \A r \in DOMAIN s : \E i \in DOMAIN s : I!Rank(s, i) = r
<1> DEFINE D == DOMAIN s
           Below(i) == {j \in D : s[j] < s[i] \/ (s[j] = s[i] /\ j <= i)}
<1>1. D = 1..Len(s) /\ Len(s) \in Nat /\ \A i \in D : s[i] \in Nat
  OBVIOUS
<1>2. IsFiniteSet(D) /\ Cardinality(D) = Len(s)
  <2>1. PICK n \in Nat : n = Len(s)
    BY <1>1
  <2>2. IsFiniteSet(1..n) /\ Cardinality(1..n) = IF 1 > n THEN 0 ELSE n - 1 + 1
    BY FS_Interval
  <2>3. Cardinality(1..n) = n
    BY <2>2
  <2> QED
    BY <1>1, <2>1, <2>2, <2>3
<1>3. \A i \in D : I!Rank(s, i) = Cardinality(Below(i))
  <2> SUFFICES ASSUME NEW i \in D PROVE I!Rank(s, i) = Cardinality(Below(i))
    OBVIOUS
  <2>1. I!Rank(s, i) = I!Cardinality(Below(i))
    BY DEF I!Rank
  <2> HIDE DEF Below
  <2> QED
    BY <2>1, SameCardinality
<1>4. \A i \in D : Below(i) \in SUBSET D /\ i \in Below(i)
  BY <1>1
<1>5. \A i, k \in D : (s[i] < s[k] \/ (s[i] = s[k] /\ i < k)) =>
                       Below(i) \subseteq Below(k) /\ k \notin Below(i)
  BY <1>1
<1> HIDE DEF D, Below
<1>6. \A i \in D : /\ IsFiniteSet(Below(i)) /\ Cardinality(Below(i)) \in Nat
                    /\ Cardinality(Below(i)) <= Len(s)
  BY <1>2, <1>4, FS_Subset, FS_CardinalityType
<1>7. \A i \in D : Cardinality(Below(i)) # 0
  BY <1>4, <1>6, FS_EmptySet
<1>8. ASSUME NEW i \in D, NEW k \in D, s[i] < s[k] \/ (s[i] = s[k] /\ i < k)
      PROVE  Cardinality(Below(i)) < Cardinality(Below(k))
  <2>1. Below(i) \in SUBSET Below(k) /\ Below(i) # Below(k)
    BY <1>4, <1>5, <1>8
  <2>2. Cardinality(Below(i)) <= Cardinality(Below(k)) /\ Cardinality(Below(k)) # Cardinality(Below(i))
    BY <1>6, <2>1, FS_Subset
  <2> QED
    BY <1>6, <2>2
<1>9. \A i \in D : I!Rank(s, i) \in D
  <2> SUFFICES ASSUME NEW i \in D PROVE I!Rank(s, i) \in D
    OBVIOUS
  <2>1. PICK c \in Nat : c = Cardinality(Below(i)) /\ c <= Len(s) /\ c # 0
    BY <1>6, <1>7
  <2>2. c \in 1..Len(s)
    BY <1>1, <2>1
  <2> QED
    BY <1>1, <1>3, <2>1, <2>2
<1>10. \A i, k \in D : s[i] < s[k] => I!Rank(s, i) < I!Rank(s, k)
  BY <1>3, <1>8
<1>11. \A i, k \in D : I!Rank(s, i) = I!Rank(s, k) => i = k
  <2> SUFFICES ASSUME NEW i \in D, NEW k \in D, i # k
               PROVE  Cardinality(Below(i)) # Cardinality(Below(k))
    BY <1>3
  <2>1. i \in Nat /\ k \in Nat /\ s[i] \in Nat /\ s[k] \in Nat
    BY <1>1
  <2>2. CASE s[i] < s[k] \/ (s[i] = s[k] /\ i < k)
    BY <1>6, <1>8, <2>2
  <2>3. CASE s[k] < s[i] \/ (s[k] = s[i] /\ k < i)
    BY <1>6, <1>8, <2>3
  <2> QED
    BY <2>1, <2>2, <2>3
<1>12. \A r \in D : \E i \in D : I!Rank(s, i) = r
  <2> DEFINE f == [i \in D |-> I!Rank(s, i)]
  <2>1. f \in [D -> D] /\ \A i \in D : f[i] = I!Rank(s, i)
    BY <1>9
  <2> HIDE DEF f
  <2>2. f \in Injection(D, D)
    BY <1>11, <2>1 DEF Injection, IsInjective
  <2>3. f \in Surjection(D, D)
    BY <1>2, <2>2, FS_Injection
  <2> QED
    BY <2>1, <2>3 DEF Surjection
<1> QED
  BY <1>9, <1>10, <1>11, <1>12 DEF D

(* std::sort of ids that are different keeps them and puts them in order. *)
LEMMA SortRight ==
    ASSUME NEW s \in Seq(Nat), \A i, k \in DOMAIN s : s[i] = s[k] => i = k
    PROVE  /\ DOMAIN I!sort(s) = DOMAIN s
           /\ \A r \in DOMAIN s : \E i \in DOMAIN s : I!sort(s)[r] = s[i]
           /\ \A i \in DOMAIN s : \E r \in DOMAIN s : I!sort(s)[r] = s[i]
           /\ \A q, r \in DOMAIN s : q < r => I!sort(s)[q] < I!sort(s)[r]
<1> DEFINE c(r) == CHOOSE i \in DOMAIN s : I!Rank(s, i) = r
<1>1. DOMAIN I!sort(s) = DOMAIN s /\ \A r \in DOMAIN s : I!sort(s)[r] = s[c(r)]
  BY DEF I!sort
<1>2. \A r \in DOMAIN s : c(r) \in DOMAIN s /\ I!Rank(s, c(r)) = r
  BY Ranks
<1> HIDE DEF c
<1>3. \A i \in DOMAIN s : c(I!Rank(s, i)) = i
  BY <1>2, Ranks
<1>4. \A i \in DOMAIN s : \E r \in DOMAIN s : I!sort(s)[r] = s[i]
  BY <1>1, <1>3, Ranks
<1>5. ASSUME NEW q \in DOMAIN s, NEW r \in DOMAIN s, q < r
      PROVE  I!sort(s)[q] < I!sort(s)[r]
  <2>1. c(q) \in DOMAIN s /\ c(r) \in DOMAIN s /\ I!Rank(s, c(q)) < I!Rank(s, c(r))
    BY <1>2, <1>5
  <2>2. q \in Nat /\ r \in Nat /\ s[c(q)] \in Nat /\ s[c(r)] \in Nat
    BY <2>1
  <2>3. c(q) # c(r)
    BY <1>2, <1>5, <2>2
  <2>4. s[c(q)] # s[c(r)]
    BY <2>1, <2>3
  <2>5. ~(s[c(r)] < s[c(q)])
    <3>1. s[c(r)] < s[c(q)] => r < q
      BY <1>2, <2>1, Ranks
    <3> QED
      BY <1>5, <2>2, <3>1
  <2> QED
    BY <1>1, <2>2, <2>4, <2>5
<1> QED
  BY <1>1, <1>2, <1>4, <1>5

USE DEF I!NoDir

(* Directory entries, and the records of calls. *)
Things == Fds \cup Tids

Calls == [op : {"none", "fd", "task", "opened", "threads"}, dir : Nat,
          visited : SUBSET Things, stayed : SUBSET Things, ever : SUBSET Things,
          result : Seq(Nat)]

ScanTypes ==
    /\ fds \in [Tids -> SUBSET Fds]
    /\ t_numOpenedFiles \in [Tids -> Nat]
    /\ t_pids \in [Tids -> Seq(Nat)]
    /\ scan \in [Tids -> Calls]

(* A thread that is between the system calls of a scan. *)
Scans(k) == scan[k].op \in {"fd", "task"}

(* What the directory has now that the thread scans. *)
Now(k) == IF scan[k].op = "fd" THEN fds[process[k]] ELSE tasks[process[k]]

(* Only a thread that runs is in a scan.  What was there all the time is   *)
(* there now; what is there now, or was visited, was there at some time.   *)
ScanWatches(k) ==
    Scans(k) =>
        /\ Running(k)
        /\ scan[k].stayed \subseteq Now(k) /\ Now(k) \subseteq scan[k].ever
        /\ scan[k].visited \subseteq scan[k].ever

(* openedFiles() has counted what it has visited, which is all that stayed *)
(* up to the position of the stream.                                       *)
ScanCounts(k) ==
    scan[k].op = "fd" =>
        /\ t_numOpenedFiles[k] = Cardinality(scan[k].visited)
        /\ \A x \in scan[k].stayed, y \in scan[k].visited : x <= y => x \in scan[k].visited

(* threads() has collected what it has visited, each once. *)
ScanCollects(k) ==
    scan[k].op = "task" =>
        /\ \A i, j \in DOMAIN t_pids[k] : t_pids[k][i] = t_pids[k][j] => i = j
        /\ scan[k].visited = {t_pids[k][i] : i \in DOMAIN t_pids[k]}

(* A scan without a directory finds nothing; one with a directory has it   *)
(* open, and will find its own descriptor or its own thread.               *)
ScanFinds(k) ==
    Scans(k) =>
        /\ scan[k].dir = I!NoDir => scan[k].visited = {}
        /\ scan[k].dir # I!NoDir =>
             /\ scan[k].dir \in fds[process[k]]
             /\ scan[k].op = "fd" => scan[k].dir \in scan[k].stayed
             /\ scan[k].op = "task" => k \in scan[k].stayed

(* What ScanRight says of one call that has ended. *)
ScanReturns(k) ==
    LET s == scan[k] IN
    /\ s.op = "opened" =>
         /\ s.result[1] \in Nat
         /\ s.result[1] = 0 <=> s.dir = I!NoDir
         /\ s.dir # I!NoDir => Cardinality(s.stayed) <= s.result[1]
         /\ s.result[1] <= Cardinality(s.ever)
    /\ s.op = "threads" =>
         /\ DOMAIN s.result = {} <=> s.dir = I!NoDir
         /\ s.dir # I!NoDir => s.stayed \subseteq {s.result[i] : i \in DOMAIN s.result}
         /\ {s.result[i] : i \in DOMAIN s.result} \subseteq s.ever
         /\ \A i, j \in DOMAIN s.result : i < j => s.result[i] < s.result[j]

ScanGood(k) ==
    ScanWatches(k) /\ ScanFinds(k) /\ ScanCounts(k) /\ ScanCollects(k) /\ ScanReturns(k)

(* Scans of one process have directories of their own. *)
DirsApart ==
    \A k, j \in Tids :
        Scans(k) /\ Scans(j) /\ process[k] = process[j]
            /\ scan[k].dir = scan[j].dir /\ scan[k].dir # I!NoDir => k = j

ScanInv == ScanTypes /\ DirsApart /\ \A k \in Tids : ScanGood(k)

(* A step leaves the directory of a scan open. *)
Keeps(k) == Scans(k) /\ scan[k].dir # I!NoDir => scan[k].dir \in fds'[process[k]]

(* Directories stay apart where no scan begins. *)
LEMMA StillApart ==
    ASSUME ScanInv,
           \A k \in Tids : Scans(k)' => /\ Scans(k) /\ process'[k] = process[k]
                                        /\ scan'[k].dir = scan[k].dir
    PROVE  DirsApart'
  BY DEF ScanInv, DirsApart

(* Watched changes neither the kind of a call nor its directory. *)
LEMMA WatchedSame ==
    ASSUME scan \in [Tids -> Calls], NEW f, NEW g, NEW k \in Tids
    PROVE  /\ I!Watched(scan, f, g)[k].op = scan[k].op
           /\ I!Watched(scan, f, g)[k].dir = scan[k].dir
<1> DEFINE e == I!Entries(scan[k].op, process[k], f, g)
<1>1. \/ I!Watched(scan, f, g)[k] = scan[k]
      \/ I!Watched(scan, f, g)[k] = [scan[k] EXCEPT !.stayed = scan[k].stayed \cap e,
                                                    !.ever = scan[k].ever \cup e]
  BY DEF I!Watched
<1>2. PICK c \in Calls : c = scan[k]
  OBVIOUS
<1> HIDE DEF e
<1>3. PICK u, v : u = scan[k].stayed \cap e /\ v = scan[k].ever \cup e
  OBVIOUS
<1>4. PICK m : m = [c EXCEPT !.stayed = u, !.ever = v]
  OBVIOUS
<1>5. m.op = c.op /\ m.dir = c.dir
  BY <1>4 DEF Calls
<1>6. PICK w : w = I!Watched(scan, f, g)[k]
  OBVIOUS
<1>7. w = c \/ w = m
  BY <1>1, <1>2, <1>3, <1>4, <1>6
<1> QED
  BY <1>2, <1>5, <1>6, <1>7

LEMMA TasksType == tasks \in [Tids -> SUBSET Tids] /\ tasks' \in [Tids -> SUBSET Tids]
  BY DEF tasks

(* A step that is not the thread's leaves its call good, when it is told   *)
(* of the entries that have come and gone.                                 *)
LEMMA WatchedGood ==
    ASSUME ScanInv, NEW k \in Tids,
           fds' \in [Tids -> SUBSET Fds],
           scan'[k] = I!Watched(scan, fds', tasks')[k],
           Keeps(k),
           Scans(k) => /\ process[k] \in Tids /\ process'[k] = process[k] /\ Running(k)'
                       /\ t_numOpenedFiles'[k] = t_numOpenedFiles[k] /\ t_pids'[k] = t_pids[k]
    PROVE  scan'[k] \in Calls /\ ScanGood(k)'
<1>1. scan[k] \in Calls /\ ScanGood(k)
  BY DEF ScanInv, ScanTypes
<1>2. CASE ~Scans(k)
  <2>1. scan'[k] = scan[k]
    BY <1>2 DEF I!Watched, Scans
  <2> QED
    BY <1>1, <1>2, <2>1 DEF Scans, ScanGood, ScanWatches, ScanFinds, ScanCounts, ScanCollects,
                            ScanReturns
<1>3. CASE Scans(k)
  <2> DEFINE e == I!Entries(scan[k].op, process[k], fds', tasks')
             n == [scan[k] EXCEPT !.stayed = scan[k].stayed \cap e, !.ever = scan[k].ever \cup e]
  <2>1. scan'[k] = n
    BY <1>3 DEF I!Watched, Scans
  <2>2. e \in SUBSET Things
    BY <1>3, TasksType DEF I!Entries, Things
  <2> HIDE DEF e
  <2>3. /\ scan'[k] \in Calls /\ scan'[k].dir = scan[k].dir
        /\ scan'[k].op = scan[k].op /\ scan'[k].visited = scan[k].visited
        /\ scan'[k].stayed = scan[k].stayed \cap e /\ scan'[k].ever = scan[k].ever \cup e
    <3>1. PICK s \in Calls, d \in SUBSET Things : s = scan[k] /\ d = e
      BY <1>1, <2>2
    <3>2. PICK m : m = [s EXCEPT !.stayed = s.stayed \cap d, !.ever = s.ever \cup d]
      OBVIOUS
    <3>3. m = scan'[k]
      BY <2>1, <3>1, <3>2
    <3>4. m \in Calls
      BY <3>2 DEF Calls
    <3>5. /\ m.op = s.op /\ m.visited = s.visited /\ m.dir = s.dir
          /\ m.stayed = s.stayed \cap d /\ m.ever = s.ever \cup d
      BY <3>2 DEF Calls
    <3> QED
      BY <3>1, <3>3, <3>4, <3>5
  <2> HIDE DEF n
  <2>4. Now(k)' = e
    BY <1>3, <2>3 DEF Now, I!Entries, e
  <2>5. ScanWatches(k)'
    BY <1>1, <1>3, <2>3, <2>4 DEF ScanGood, ScanWatches
  <2>a. ScanFinds(k)'
    <3>1. ScanFinds(k)
      BY <1>1 DEF ScanGood
    <3>2. scan[k].dir # I!NoDir => scan[k].dir \in fds'[process'[k]]
      BY <1>3 DEF Keeps
    <3>3. scan[k].op = "task" => k \in e
      BY <1>3 DEF I!Entries, tasks, Running, e
    <3>4. scan[k].op = "fd" => e = fds'[process'[k]]
      BY <1>3 DEF I!Entries, e
    <3> QED
      BY <1>3, <2>3, <3>1, <3>2, <3>3, <3>4 DEF ScanFinds, Scans
  <2>6. ScanCounts(k)'
    <3> SUFFICES ASSUME scan[k].op = "fd"
                 PROVE  /\ t_numOpenedFiles[k] = Cardinality(scan[k].visited)
                        /\ \A x \in scan[k].stayed, y \in scan[k].visited :
                              x <= y => x \in scan[k].visited
      BY <1>3, <2>3 DEF ScanCounts
    <3> QED
      BY <1>1 DEF ScanGood, ScanCounts
  <2>7. ScanCollects(k)'
    BY <1>1, <1>3, <2>3 DEF ScanGood, ScanCollects
  <2>8. ScanReturns(k)'
    BY <1>3, <2>3 DEF Scans, ScanReturns
  <2> QED
    BY <2>3, <2>5, <2>a, <2>6, <2>7, <2>8 DEF ScanGood
<1> QED
  BY <1>2, <1>3

LEMMA ScanInit == InitAll => ScanInv
<1> SUFFICES ASSUME InitAll PROVE ScanInv
  OBVIOUS
<1>1. I!Idle \in Calls /\ I!Idle.op = "none"
  BY DEF I!Idle, Calls
<1>2. ScanTypes
  BY <1>1 DEF InitAll, I!Init, ScanTypes
<1>3. \A k \in Tids : scan[k].op = "none"
  BY <1>1 DEF InitAll, I!Init
<1> QED
  BY <1>2, <1>3 DEF ScanInv, DirsApart, ScanGood, Scans, ScanWatches, ScanFinds, ScanCounts,
                    ScanCollects, ScanReturns

(* Threads come and go. *)
LEMMA ComeAndGo ==
    ASSUME ThreadInv, ScanInv, [Next]_vars,
           scan' = I!Watched(scan, fds', tasks'),
           fds' \in [Tids -> SUBSET Fds], t_numOpenedFiles' \in [Tids -> Nat],
           t_pids' = t_pids, \A k \in Tids : Keeps(k),
           \A k \in Tids : Scans(k) => pc'[k] = "func" /\ t_numOpenedFiles'[k] = t_numOpenedFiles[k]
    PROVE  ScanInv'
<1>0. ASSUME NEW k \in Tids, Scans(k)
      PROVE  process[k] \in Tids /\ process'[k] = process[k] /\ Running(k)'
  <2>1. pc[k] = "func"
    BY <1>0 DEF ScanInv, ScanGood, ScanWatches, Running
  <2> QED
    BY <1>0, <2>1, ThreadsStay DEF ThreadInv, Born, Running
<1>1. ASSUME NEW k \in Tids PROVE scan'[k] \in Calls /\ ScanGood(k)'
  BY <1>0, WatchedGood
<1>2. scan' \in [Tids -> Calls]
  <2>1. DOMAIN scan' = Tids /\ scan' = [k \in Tids |-> scan'[k]]
    BY DEF I!Watched
  <2> QED
    BY <1>1, <2>1
<1>3. ScanTypes'
  BY <1>2 DEF ScanInv, ScanTypes
<1>4. \A k \in Tids : scan'[k].op = scan[k].op /\ scan'[k].dir = scan[k].dir
  BY WatchedSame DEF ScanInv, ScanTypes
<1>5. DirsApart'
  BY <1>0, <1>4, StillApart DEF Scans
<1> QED
  BY <1>1, <1>3, <1>5 DEF ScanInv

LEMMA ScanThreadStep == ThreadInv /\ ScanInv /\ NextThread => ScanInv'
<1> SUFFICES ASSUME ThreadInv, ScanInv, NextThread PROVE ScanInv'
  OBVIOUS
<1> USE TidAssumption
<1>0. [Next]_vars
  BY ProcessUsesThread DEF NextAll
<1>1. \A k \in Tids : Scans(k) => pc[k] = "func"
  BY DEF ScanInv, ScanGood, ScanWatches, Running
<1>a. fds' = fds => \A k \in Tids : Keeps(k)
  BY DEF ScanInv, ScanGood, ScanFinds, Keeps
<1>2. ASSUME Rest, \A k \in Tids : pc[k] = "func" => pc'[k] = "func" PROVE ScanInv'
  <2>1. /\ fds' = fds /\ t_numOpenedFiles' = t_numOpenedFiles /\ t_pids' = t_pids
        /\ scan' = I!Watched(scan, fds', tasks')
    BY <1>2 DEF Rest
  <2>2. fds' \in [Tids -> SUBSET Fds] /\ t_numOpenedFiles' \in [Tids -> Nat]
    BY <2>1 DEF ScanInv, ScanTypes
  <2> QED
    BY <1>0, <1>1, <1>a, <1>2, <2>1, <2>2, ComeAndGo
<1>3. ASSUME NEW j \in Tids, FuncReturns(j), Ends(j), Free(j) PROVE ScanInv'
  <2>1. /\ fds' = fds /\ t_numOpenedFiles' = t_numOpenedFiles /\ t_pids' = t_pids
        /\ scan' = I!Watched(scan, fds', tasks')
    BY <1>3 DEF Ends
  <2>2. fds' \in [Tids -> SUBSET Fds] /\ t_numOpenedFiles' \in [Tids -> Nat]
    BY <2>1 DEF ScanInv, ScanTypes
  <2>3. ~Scans(j)
    BY <1>3 DEF Free, Scans
  <2>4. \A k \in Tids : Scans(k) => pc'[k] = "func"
    BY <1>1, <1>3, <2>3 DEF FuncReturns, ThreadInv, TypeOK
  <2> QED
    BY <1>0, <1>a, <2>1, <2>2, <2>4, ComeAndGo
<1>4. ASSUME NEW k \in Tids, NEW j \in Tids, Fork(k, j), Forks(k, j) PROVE ScanInv'
  <2>1. process[k] \in Tids /\ ~Scans(j)
    BY <1>1, <1>4 DEF Fork, Running, ThreadInv, Born
  <2>2. /\ fds' = [fds EXCEPT ![j] = fds[process[k]]]
        /\ t_numOpenedFiles' = [t_numOpenedFiles EXCEPT ![j] = t_numOpenedFiles[k]]
        /\ scan' = I!Watched(scan, fds', tasks') /\ t_pids' = t_pids
    BY <1>4 DEF Forks, I!Fork
  <2>3. fds' \in [Tids -> SUBSET Fds] /\ t_numOpenedFiles' \in [Tids -> Nat]
    BY <2>1, <2>2 DEF ScanInv, ScanTypes
  <2>4. \A i \in Tids : Scans(i) => pc'[i] = "func" /\ t_numOpenedFiles'[i] = t_numOpenedFiles[i]
    <3> SUFFICES ASSUME NEW i \in Tids, Scans(i)
                 PROVE  pc'[i] = "func" /\ t_numOpenedFiles'[i] = t_numOpenedFiles[i]
      OBVIOUS
    <3>1. i # j
      BY <2>1
    <3> QED
      BY <1>1, <1>4, <2>2, <3>1 DEF Fork, ThreadInv, TypeOK, ScanInv, ScanTypes
  <2>5. ASSUME NEW i \in Tids PROVE Keeps(i)
    <3>1. Scans(i) => process[i] \in Tids /\ process[i] # j
      BY <1>1, <1>4 DEF Fork, ThreadInv, Born
    <3>2. Scans(i) => fds'[process[i]] = fds[process[i]]
      BY <2>2, <3>1 DEF ScanInv, ScanTypes
    <3> QED
      BY <3>2 DEF ScanInv, ScanGood, ScanFinds, Keeps
  <2> QED
    BY <1>0, <2>2, <2>3, <2>4, <2>5, ComeAndGo
<1>5. ASSUME NEW j \in Tids, FuncThrows(j), Dies(j) PROVE ScanInv'
  <2>1. /\ scan' = [k \in Tids |-> IF process[k] = process[j] THEN I!Idle ELSE scan[k]]
        /\ UNCHANGED <<fds, t_numOpenedFiles, t_pids>>
    BY <1>5 DEF Dies
  <2>2. /\ process' = process
        /\ \A k \in Tids : process[k] # process[j] => pc'[k] = pc[k]
    BY <1>5 DEF FuncThrows
  <2>3. I!Idle \in Calls /\ I!Idle.op = "none"
    BY DEF I!Idle, Calls
  <2>4. ScanTypes'
    BY <2>1, <2>3 DEF ScanInv, ScanTypes
  <2>5. ASSUME NEW k \in Tids PROVE ScanGood(k)'
    <3>1. CASE process[k] = process[j]
      <4>1. scan'[k].op = "none"
        BY <2>1, <2>3, <3>1
      <4> QED
        BY <4>1 DEF ScanGood, Scans, ScanWatches, ScanFinds, ScanCounts, ScanCollects, ScanReturns
    <3>2. CASE process[k] # process[j]
      <4>1. scan'[k] = scan[k] /\ pc'[k] = pc[k]
        BY <2>1, <2>2, <3>2
      <4>2. Scans(k) => Now(k)' = Now(k)
        <5> SUFFICES ASSUME Scans(k) PROVE Now(k)' = Now(k)
          OBVIOUS
        <5>1. process[k] \in Tids
          BY <1>1 DEF ThreadInv, Born
        <5>2. tasks'[process[k]] = tasks[process[k]]
          BY <2>2, <3>2, <5>1 DEF tasks
        <5> QED
          BY <2>1, <2>2, <4>1, <5>2 DEF Now
      <4>3. ScanGood(k)
        BY DEF ScanInv
      <4>4. Scans(k)' = Scans(k) /\ Running(k)' = Running(k)
        BY <4>1 DEF Scans, Running
      <4>5. ScanWatches(k)'
        BY <4>1, <4>2, <4>3, <4>4 DEF ScanGood, ScanWatches
      <4>6. ScanFinds(k)' /\ ScanCounts(k)' /\ ScanCollects(k)' /\ ScanReturns(k)'
        BY <2>1, <2>2, <4>1, <4>3, <4>4 DEF ScanGood, ScanFinds, ScanCounts, ScanCollects, ScanReturns
      <4> QED
        BY <4>5, <4>6 DEF ScanGood
    <3> QED
      BY <3>1, <3>2
  <2>6. DirsApart'
    <3>1. \A k \in Tids : Scans(k)' => Scans(k) /\ scan'[k].dir = scan[k].dir
      BY <2>1, <2>3 DEF Scans
    <3> QED
      BY <2>2, <3>1, StillApart
  <2> QED
    BY <2>4, <2>5, <2>6 DEF ScanInv
<1>6. ThreadNameInitializer => \A k \in Tids : pc[k] = "func" => pc'[k] = "func"
  BY DEF ThreadNameInitializer, ThreadInv, TypeOK
<1>7. ASSUME NEW k \in Tids, NEW o \in Threads, NEW j \in NewTids, Start(k, o, j)
      PROVE  \A i \in Tids : pc[i] = "func" => pc'[i] = "func"
  BY <1>7 DEF Start, ThreadInv, TypeOK
<1>8. ASSUME NEW k \in Tids, NEW o \in Threads, Join(k, o)
      PROVE  \A i \in Tids : pc[i] = "func" => pc'[i] = "func"
  BY <1>8 DEF Join
<1>9. ASSUME NEW j \in Tids, RunInThread(j) \/ AfterFork(j)
      PROVE  \A i \in Tids : pc[i] = "func" => pc'[i] = "func"
  BY <1>9 DEF RunInThread, AfterFork, ThreadInv, TypeOK
<1>10. NewTids \subseteq Tids
  BY ProcessAssumption DEF NewTids
<1> QED
  BY <1>2, <1>3, <1>4, <1>5, <1>6, <1>7, <1>8, <1>9, <1>10 DEF NextThread

(* The least of a set of numbers is one of them. *)
LEMMA LeastOf ==
    ASSUME NEW S \in SUBSET Nat, S # {}
    PROVE  I!Min(S) \in S /\ \A y \in S : I!Min(S) <= y
<1>1. PICK x \in S : \A y \in S : ~(<<y, x>> \in OpToRel(<, Nat))
  BY NatLessThanWellFounded, WFMin
<1>2. \A y \in S : ~(y < x)
  BY <1>1 DEF OpToRel
<1>3. \A y \in S : x <= y
  BY <1>2
<1> QED
  BY <1>3 DEF I!Min

(* A step of one thread leaves the calls of the others good: it does not   *)
(* touch their thread-local variables.                                     *)
LEMMA OthersGood ==
    ASSUME ThreadInv, ScanInv, UNCHANGED vars, NEW i \in Tids,
           fds' \in [Tids -> SUBSET Fds],
           \/ scan'[i] = I!Watched(scan, fds', tasks)[i]
           \/ scan'[i] = scan[i] /\ fds' = fds,
           Keeps(i), t_numOpenedFiles'[i] = t_numOpenedFiles[i], t_pids'[i] = t_pids[i]
    PROVE  scan'[i] \in Calls /\ ScanGood(i)'
<1>1. tasks' = tasks
  BY DEF vars, tasks
<1>2. Scans(i) => process[i] \in Tids /\ process'[i] = process[i] /\ Running(i)'
  BY DEF ScanInv, ScanGood, ScanWatches, ThreadInv, Born, Running, vars
<1>3. CASE scan'[i] = I!Watched(scan, fds', tasks)[i]
  BY <1>1, <1>2, <1>3, WatchedGood
<1>4. CASE scan'[i] = scan[i] /\ fds' = fds
  <2>1. scan[i] \in Calls /\ ScanGood(i)
    BY DEF ScanInv, ScanTypes
  <2>2. Now(i)' = Now(i) /\ Running(i)' = Running(i) /\ Scans(i)' = Scans(i)
    BY <1>1, <1>4 DEF Now, Running, Scans, vars
  <2>3. ScanWatches(i)'
    BY <1>4, <2>1, <2>2 DEF ScanGood, ScanWatches
  <2>4. ScanFinds(i)' /\ ScanCounts(i)' /\ ScanCollects(i)' /\ ScanReturns(i)'
    BY <1>4, <2>1, <2>2 DEF ScanGood, ScanFinds, ScanCounts, ScanCollects, ScanReturns, vars
  <2> QED
    BY <1>4, <2>1, <2>3, <2>4 DEF ScanGood
<1> QED
  BY <1>3, <1>4

(* A scan begins. *)
LEMMA BeginStep ==
    ASSUME ThreadInv, ScanInv, UNCHANGED vars, NEW k \in Tids, Running(k),
           I!openedFiles(k) \/ I!threads(k)
    PROVE  ScanInv'
<1> USE TidAssumption, ProcessAssumption
<1> DEFINE p == process[k]
           op == IF I!openedFiles(k) THEN "fd" ELSE "task"
           e == IF op = "fd" THEN fds'[p] ELSE tasks[p]
<1>1. I!Begin(k, op) /\ op \in {"fd", "task"}
  BY DEF I!openedFiles, I!threads
<1>2. /\ t_numOpenedFiles' = IF op = "fd" THEN [t_numOpenedFiles EXCEPT ![k] = 0]
                             ELSE t_numOpenedFiles
      /\ t_pids' = IF op = "fd" THEN t_pids ELSE [t_pids EXCEPT ![k] = <<>>]
  BY DEF I!openedFiles, I!threads, I!OfThread
<1> HIDE DEF op
<1>3. p \in Tids /\ fds[p] \in SUBSET Fds
  BY DEF ThreadInv, Born, Running, ScanInv, ScanTypes
<1>a. PICK dir \in I!opendir(p) :
        /\ fds' = [fds EXCEPT ![p] = fds[p] \cup ({dir} \ {I!NoDir})]
        /\ scan' = [I!Watched(scan, fds', tasks) EXCEPT ![k] =
                      [I!Idle EXCEPT !.op = op, !.dir = dir, !.stayed = e, !.ever = e]]
  BY <1>1 DEF I!Begin, I!Entries
<1> DEFINE n == [I!Idle EXCEPT !.op = op, !.dir = dir, !.stayed = e, !.ever = e]
<1>4. dir = I!NoDir \/ (dir \in Fds \ fds[p])
  <2>1. CASE fds[p] # Fds
    <3>1. (Fds \ fds[p]) \in SUBSET Nat /\ Fds \ fds[p] # {}
      BY <1>3, <2>1
    <3>2. I!Min(Fds \ fds[p]) \in Fds \ fds[p]
      BY <3>1, LeastOf
    <3> QED
      BY <3>2 DEF I!opendir
  <2> QED
    BY <2>1 DEF I!opendir
<1>5. /\ fds' = [fds EXCEPT ![p] = fds[p] \cup ({dir} \ {I!NoDir})]
      /\ scan' = [I!Watched(scan, fds', tasks) EXCEPT ![k] = n]
  BY <1>a
<1>6. fds' \in [Tids -> SUBSET Fds]
  BY <1>3, <1>4, <1>5 DEF ScanInv, ScanTypes
<1>b. /\ dir # I!NoDir => dir \in fds'[p]
      /\ \A i \in Tids : Keeps(i)
  <2>1. fds[p] \subseteq fds'[p] /\ \A q \in Tids : fds[q] \subseteq fds'[q]
    BY <1>3, <1>5 DEF ScanInv, ScanTypes
  <2>2. dir # I!NoDir => dir \in fds'[p]
    BY <1>3, <1>5 DEF ScanInv, ScanTypes
  <2>3. ASSUME NEW i \in Tids, Scans(i) PROVE process[i] \in Tids /\ ScanFinds(i)
    BY <2>3 DEF ScanInv, ScanGood, ScanWatches, ThreadInv, Born, Running
  <2> QED
    BY <2>1, <2>2, <2>3 DEF ScanFinds, Keeps
<1>7. e \in SUBSET Things
  BY <1>3, <1>6, TasksType DEF Things
<1>8. scan'[k] = n /\ \A i \in Tids : i # k => scan'[i] = I!Watched(scan, fds', tasks)[i]
  BY <1>5 DEF I!Watched
<1>9. DOMAIN scan' = Tids /\ scan' = [i \in Tids |-> scan'[i]]
  <2> HIDE DEF n
  <2>1. PICK w : w = I!Watched(scan, fds', tasks)
    OBVIOUS
  <2>2. DOMAIN w = Tids /\ w = [i \in Tids |-> w[i]]
    BY <2>1 DEF I!Watched
  <2>3. scan' = [w EXCEPT ![k] = n]
    BY <1>5, <2>1
  <2> QED
    BY <2>2, <2>3
<1> HIDE DEF e
<1>10. /\ scan'[k] \in Calls /\ scan'[k].op = op /\ scan'[k].visited = {} /\ scan'[k].dir = dir
       /\ scan'[k].stayed = e /\ scan'[k].ever = e
  <2>1. PICK s \in Calls : s = I!Idle /\ s.visited = {}
    <3>1. I!Idle \in Calls
      BY DEF I!Idle, Calls
    <3>2. I!Idle.visited = {}
      BY DEF I!Idle
    <3> QED
      BY <3>1, <3>2
  <2>2. PICK o, d, f : o = op /\ d = dir /\ f = e
    OBVIOUS
  <2>3. o \in {"fd", "task"} /\ d \in Nat /\ f \in SUBSET Things
    <3>1. dir \in Nat
      <4>1. Fds \subseteq Nat /\ 0 \in Nat
        OBVIOUS
      <4> QED
        BY <1>4, <4>1, Zenon
    <3> QED
      BY <1>1, <1>7, <2>2, <3>1
  <2>4. PICK m : m = [s EXCEPT !.op = o, !.dir = d, !.stayed = f, !.ever = f]
    OBVIOUS
  <2>5. m = scan'[k]
    BY <1>8, <2>1, <2>2, <2>4
  <2>6. m \in Calls
    BY <2>3, <2>4 DEF Calls
  <2>7. m.op = o /\ m.dir = d /\ m.visited = s.visited /\ m.stayed = f /\ m.ever = f
    BY <2>4 DEF Calls
  <2> QED
    BY <2>1, <2>2, <2>5, <2>6, <2>7
<1> HIDE DEF n
<1>11. ScanGood(k)'
  <2>1. Now(k)' = e
    <3>1. tasks' = tasks /\ process'[k] = p
      BY DEF tasks, vars
    <3> QED
      BY <1>10, <3>1 DEF Now, e
  <2>2. Running(k)'
    BY DEF Running, vars
  <2>3. ScanWatches(k)'
    BY <1>10, <2>1, <2>2 DEF ScanWatches
  <2>a. ScanFinds(k)'
    <3>1. p = process'[k] /\ (op = "task" => k \in e)
      BY <1>3 DEF e, tasks, Running, vars
    <3>2. op = "fd" => e = fds'[p]
      BY DEF e
    <3> QED
      BY <1>1, <1>b, <1>10, <3>1, <3>2 DEF ScanFinds
  <2>4. ScanCounts(k)'
    BY <1>2, <1>10, FS_EmptySet DEF ScanCounts, ScanInv, ScanTypes
  <2>5. ScanCollects(k)'
    <3> SUFFICES ASSUME op = "task" PROVE ScanCollects(k)'
      BY <1>1, <1>10 DEF ScanCollects
    <3>1. t_pids'[k] = <<>>
      BY <1>2 DEF ScanInv, ScanTypes
    <3>2. DOMAIN t_pids'[k] = {}
      BY <3>1
    <3> QED
      BY <1>10, <3>2 DEF ScanCollects
  <2>6. ScanReturns(k)'
    BY <1>1, <1>10 DEF ScanReturns
  <2> QED
    BY <2>3, <2>a, <2>4, <2>5, <2>6 DEF ScanGood
<1>12. ASSUME NEW i \in Tids, i # k PROVE scan'[i] \in Calls /\ ScanGood(i)'
  <2>1. t_numOpenedFiles'[i] = t_numOpenedFiles[i] /\ t_pids'[i] = t_pids[i]
    BY <1>2, <1>12 DEF ScanInv, ScanTypes
  <2> QED
    BY <1>6, <1>8, <1>b, <1>12, <2>1, OthersGood
<1>13. ScanTypes'
  <2>1. scan' \in [Tids -> Calls]
    BY <1>9, <1>10, <1>12
  <2>2. t_numOpenedFiles' \in [Tids -> Nat] /\ t_pids' \in [Tids -> Seq(Nat)]
    BY <1>2 DEF ScanInv, ScanTypes
  <2> QED
    BY <1>6, <2>1, <2>2 DEF ScanTypes
<1>14. DirsApart'
  <2>1. ASSUME NEW i \in Tids, i # k
        PROVE  scan'[i].op = scan[i].op /\ scan'[i].dir = scan[i].dir
    <3>1. PICK w : w = I!Watched(scan, fds', tasks)[i]
      OBVIOUS
    <3>2. w.op = scan[i].op /\ w.dir = scan[i].dir
      BY <3>1, WatchedSame DEF ScanInv, ScanTypes
    <3> QED
      BY <1>8, <2>1, <3>1, <3>2
  <2>2. process' = process
    BY DEF vars
  <2>3. ASSUME NEW i \in Tids, i # k, Scans(i), process[i] = p, scan[i].dir # I!NoDir
        PROVE  scan[i].dir # dir
    BY <1>4, <2>3 DEF ScanInv, ScanGood, ScanFinds
  <2> QED
    BY <1>10, <2>1, <2>2, <2>3 DEF ScanInv, DirsApart, Scans
<1> QED
  BY <1>11, <1>12, <1>13, <1>14 DEF ScanInv

(* The filter is called for one more entry. *)
LEMMA VisitStep ==
    ASSUME ThreadInv, ScanInv, UNCHANGED vars, NEW k \in Tids, I!Visit(k)
    PROVE  ScanInv'
<1> USE TidAssumption, ProcessAssumption
<1> DEFINE s == scan[k]
<1>1. Scans(k) /\ fds' = fds
  BY DEF I!Visit, Scans
<1>2. /\ s \in Calls /\ Running(k) /\ process[k] \in Tids
      /\ s.stayed \subseteq Now(k) /\ Now(k) \subseteq s.ever
      /\ s.visited \subseteq s.ever /\ s.ever \in SUBSET Things
  <2>1. s \in Calls /\ ScanWatches(k)
    BY DEF ScanInv, ScanTypes, ScanGood
  <2>2. s.ever \in SUBSET Things
    BY <2>1 DEF Calls
  <2> QED
    BY <1>1, <2>1, <2>2 DEF ScanWatches, ThreadInv, Born, Running
<1>3. PICK x : /\ x \in I!Ahead(k)
               /\ IF s.op = "fd" THEN I!fdDirFilter(k, x) ELSE I!taskDirFilter(k, x)
               /\ scan' = [scan EXCEPT ![k].visited = @ \cup {x}]
  BY DEF I!Visit
<1>a. s.dir # I!NoDir
  BY <1>3 DEF I!Ahead
<1>4. x \in Now(k) /\ x \notin s.visited /\ x \in Things
  <2>1. x \in Now(k)
    BY <1>3 DEF I!Ahead, I!Entries, Now
  <2>2. x \in Things /\ x \in Nat
    BY <1>2, <2>1 DEF Things
  <2>3. x \notin s.visited
    BY <1>3, <2>2 DEF I!Ahead
  <2> QED
    BY <2>1, <2>2, <2>3
<1>5. /\ scan' \in [Tids -> Calls]
      /\ scan'[k].op = s.op /\ scan'[k].stayed = s.stayed /\ scan'[k].ever = s.ever
      /\ scan'[k].dir = s.dir
      /\ scan'[k].visited = s.visited \cup {x}
      /\ \A i \in Tids : i # k => scan'[i] = scan[i]
  <2>1. PICK c \in Calls : c = scan[k]
    BY <1>2
  <2>2. PICK m : m = [c EXCEPT !.visited = c.visited \cup {x}]
    OBVIOUS
  <2>3. m \in Calls
    BY <1>4, <2>2 DEF Calls
  <2>4. m.op = c.op /\ m.dir = c.dir /\ m.stayed = c.stayed /\ m.ever = c.ever /\ m.visited = c.visited \cup {x}
    BY <2>2 DEF Calls
  <2>5. scan \in [Tids -> Calls]
    BY DEF ScanInv, ScanTypes
  <2>6. scan' = [scan EXCEPT ![k] = m]
    BY <1>3, <2>1, <2>2, <2>5
  <2>7. scan' \in [Tids -> Calls] /\ scan'[k] = m /\ \A i \in Tids : i # k => scan'[i] = scan[i]
    BY <2>3, <2>5, <2>6
  <2> QED
    BY <2>1, <2>4, <2>7
<1> HIDE DEF s
<1>6. /\ s.op = "fd" => /\ x = I!Min(I!Ahead(k))
                        /\ t_numOpenedFiles' = [t_numOpenedFiles EXCEPT ![k] = t_numOpenedFiles[k] + 1]
                        /\ t_pids' = t_pids
      /\ s.op = "task" => /\ t_pids' = [t_pids EXCEPT ![k] = Append(t_pids[k], x)]
                          /\ t_numOpenedFiles' = t_numOpenedFiles
  BY <1>3 DEF I!fdDirFilter, I!taskDirFilter, I!OfThread
<1>7. s.op \in {"fd", "task"}
  BY <1>1 DEF Scans, s
<1>8. x \in Nat
  BY <1>4 DEF Things
<1>9. t_numOpenedFiles' \in [Tids -> Nat] /\ t_pids' \in [Tids -> Seq(Nat)]
  <2>1. t_numOpenedFiles[k] + 1 \in Nat /\ Append(t_pids[k], x) \in Seq(Nat)
    BY <1>8 DEF ScanInv, ScanTypes
  <2> QED
    BY <1>6, <1>7, <2>1 DEF ScanInv, ScanTypes
<1>10. ScanTypes'
  BY <1>1, <1>5, <1>9 DEF ScanInv, ScanTypes
<1>11. Now(k)' = Now(k) /\ Running(k)' = Running(k)
  <2>1. tasks' = tasks /\ process' = process /\ pc' = pc
    BY DEF tasks, vars
  <2> QED
    BY <1>1, <1>5, <2>1 DEF Now, Running, s
<1>12. ScanWatches(k)'
  BY <1>2, <1>4, <1>5, <1>11 DEF ScanWatches, s
<1>b. /\ ScanFinds(k)' /\ DirsApart'
      /\ \A i \in Tids : Keeps(i)
  <2>1. process' = process
    BY DEF vars
  <2>2. ScanFinds(k)'
    BY <1>1, <1>a, <1>5, <1>7, <2>1 DEF ScanInv, ScanGood, ScanFinds, s
  <2>3. DirsApart'
    BY <1>1, <1>5, <2>1, StillApart DEF Scans, s
  <2> QED
    BY <1>1, <2>2, <2>3 DEF ScanInv, ScanGood, ScanFinds, Keeps
<1>13. ScanReturns(k)'
  BY <1>5, <1>7 DEF ScanReturns
<1>14. ScanCounts(k)'
  <2> SUFFICES ASSUME s.op = "fd" PROVE ScanCounts(k)'
    BY <1>5 DEF ScanCounts
  <2>1. ScanCounts(k)
    BY DEF ScanInv, ScanGood
  <2>2. IsFiniteSet(s.visited)
    <3>1. s.visited \in SUBSET Things /\ IsFiniteSet(Things)
      BY <1>2, FS_Union DEF Things, s
    <3> QED
      BY <3>1, FS_Subset
  <2>3. Cardinality(s.visited \cup {x}) = Cardinality(s.visited) + 1
    BY <1>4, <2>2, FS_AddElement DEF s
  <2>4. t_numOpenedFiles'[k] = Cardinality(scan'[k].visited)
    BY <1>5, <1>6, <2>1, <2>3 DEF ScanCounts, s, ScanInv, ScanTypes
  <2>5. ASSUME NEW z \in s.stayed, NEW y \in s.visited \cup {x}, z <= y
        PROVE  z \in s.visited \cup {x}
    <3>1. z \in Now(k) /\ z \in Nat /\ \A v \in s.visited : v \in Nat
      BY <1>2 DEF Things, s
    <3>2. ASSUME NEW v \in s.visited, z <= v PROVE z \in s.visited
      BY <2>1, <3>2 DEF ScanCounts, s
    <3>3. CASE \A v \in s.visited : z > v
      <4>1. z \in I!Ahead(k)
        BY <1>a, <3>1, <3>3 DEF I!Ahead, I!Entries, Now, s
      <4>2. I!Ahead(k) \in SUBSET Nat
        <5>1. I!Ahead(k) \subseteq Now(k)
          BY DEF I!Ahead, I!Entries, Now
        <5> QED
          BY <1>2, <5>1 DEF Things
      <4>3. x <= z
        BY <1>6, <4>1, <4>2, LeastOf
      <4>4. y = x
        BY <1>8, <2>5, <3>1, <3>3
      <4> QED
        BY <1>8, <2>5, <3>1, <4>3, <4>4
    <3>4. CASE ~ \A v \in s.visited : z > v
      <4>1. PICK v \in s.visited : ~(z > v)
        BY <3>4
      <4> QED
        BY <3>1, <3>2, <4>1
    <3> QED
      BY <3>3, <3>4
  <2> QED
    BY <1>5, <2>4, <2>5 DEF ScanCounts
<1>15. ScanCollects(k)'
  <2> SUFFICES ASSUME s.op = "task" PROVE ScanCollects(k)'
    BY <1>5 DEF ScanCollects
  <2>1. ScanCollects(k)
    BY DEF ScanInv, ScanGood
  <2>2. PICK q \in Seq(Nat) : q = t_pids[k]
    BY DEF ScanInv, ScanTypes
  <2>3. /\ t_pids'[k] = Append(q, x) /\ s.visited = {q[i] : i \in DOMAIN q}
        /\ \A i, j \in DOMAIN q : q[i] = q[j] => i = j
    BY <1>6, <2>1, <2>2 DEF ScanCollects, s, ScanInv, ScanTypes
  <2>4. /\ DOMAIN Append(q, x) = DOMAIN q \cup {Len(q) + 1} /\ Len(q) + 1 \notin DOMAIN q
        /\ Append(q, x)[Len(q) + 1] = x
        /\ \A i \in DOMAIN q : Append(q, x)[i] = q[i]
    BY <1>8
  <2>5. \A i \in DOMAIN q : q[i] # x
    BY <1>4, <2>3 DEF s
  <2> DEFINE w == t_pids'[k]
  <2>6. w = Append(q, x)
    BY <2>3
  <2> HIDE DEF w
  <2>a. PICK l : l = Len(q) + 1
    OBVIOUS
  <2>b. /\ DOMAIN w = DOMAIN q \cup {l} /\ w[l] = x
        /\ \A i \in DOMAIN q : w[i] = q[i]
    BY <2>4, <2>6, <2>a
  <2>7. \A i, j \in DOMAIN w : w[i] = w[j] => i = j
    BY <2>3, <2>5, <2>b, Zenon
  <2>8. s.visited \cup {x} = {w[i] : i \in DOMAIN w}
    <3>0. s.visited = {q[i] : i \in DOMAIN q}
      BY <2>3
    <3>1. \A y \in s.visited \cup {x} : \E i \in DOMAIN w : y = w[i]
      BY <2>b, <3>0
    <3>2. \A i \in DOMAIN w : w[i] \in s.visited \cup {x}
      BY <2>b, <3>0
    <3>3. PICK v : v = s.visited \cup {x}
      OBVIOUS
    <3>4. (\A y \in v : \E i \in DOMAIN w : y = w[i]) /\ \A i \in DOMAIN w : w[i] \in v
      BY <3>1, <3>2, <3>3
    <3>5. v = {w[i] : i \in DOMAIN w}
      BY <3>4
    <3> QED
      BY <3>3, <3>5
  <2> QED
    BY <1>5, <2>7, <2>8 DEF ScanCollects, w
<1>16. ASSUME NEW i \in Tids, i # k PROVE ScanGood(i)'
  <2>1. t_numOpenedFiles'[i] = t_numOpenedFiles[i] /\ t_pids'[i] = t_pids[i]
    BY <1>6, <1>7, <1>16 DEF ScanInv, ScanTypes
  <2>2. fds' \in [Tids -> SUBSET Fds]
    BY <1>10 DEF ScanTypes
  <2> QED
    BY <1>1, <1>5, <1>b, <1>16, <2>1, <2>2, OthersGood
<1> QED
  BY <1>10, <1>12, <1>b, <1>13, <1>14, <1>15, <1>16 DEF ScanInv, ScanGood

(* A scan ends: nothing is ahead, so what stayed has been visited. *)
LEMMA EndScanStep ==
    ASSUME ThreadInv, ScanInv, UNCHANGED vars, NEW k \in Tids, I!End(k)
    PROVE  ScanInv'
<1> USE TidAssumption, ProcessAssumption
<1> DEFINE s == scan[k]
           r == IF s.op = "fd" THEN <<t_numOpenedFiles[k]>> ELSE I!sort(t_pids[k])
           o == IF s.op = "fd" THEN "opened" ELSE "threads"
<1>1. Scans(k) /\ I!Ahead(k) = {}
  BY DEF I!End, Scans
<1>2. /\ s \in Calls /\ process[k] \in Tids
      /\ s.stayed \subseteq Now(k) /\ s.visited \subseteq s.ever
      /\ s.ever \in SUBSET Things /\ Now(k) \subseteq s.ever
      /\ ScanFinds(k) /\ ScanCounts(k) /\ ScanCollects(k)
  <2>1. s \in Calls /\ ScanWatches(k) /\ ScanFinds(k) /\ ScanCounts(k) /\ ScanCollects(k)
    BY DEF ScanInv, ScanTypes, ScanGood
  <2>2. s.ever \in SUBSET Things
    BY <2>1 DEF Calls
  <2> QED
    BY <1>1, <2>1, <2>2 DEF ScanWatches, ThreadInv, Born, Running
<1>3. s.op \in {"fd", "task"}
  BY <1>1 DEF Scans
<1>4. /\ fds' = [fds EXCEPT ![process[k]] = fds[process[k]] \ {s.dir}]
      /\ scan' = [I!Watched(scan, fds', tasks) EXCEPT ![k] = [s EXCEPT !.op = o, !.result = r]]
      /\ t_pids' = IF s.op = "task" THEN [t_pids EXCEPT ![k] = <<>>] ELSE t_pids
      /\ t_numOpenedFiles' = t_numOpenedFiles
  BY DEF I!End, I!OfThread
<1>5. fds' \in [Tids -> SUBSET Fds] /\ t_pids' \in [Tids -> Seq(Nat)]
      /\ t_numOpenedFiles' \in [Tids -> Nat]
  <2> HIDE DEF s, r, o
  <2>1. /\ fds \in [Tids -> SUBSET Fds] /\ t_pids \in [Tids -> Seq(Nat)]
        /\ t_numOpenedFiles \in [Tids -> Nat]
    BY DEF ScanInv, ScanTypes
  <2>2. PICK d : d = s.dir
    OBVIOUS
  <2>3. fds' = [fds EXCEPT ![process[k]] = fds[process[k]] \ {d}]
    BY <1>4, <2>2
  <2>4. fds' \in [Tids -> SUBSET Fds]
    BY <1>2, <2>1, <2>3
  <2>a. PICK e : e = <<>> /\ e \in Seq(Nat)
    <3>1. <<>> \in Seq(Nat)
      OBVIOUS
    <3> QED
      BY <3>1
  <2>5. t_pids' = [t_pids EXCEPT ![k] = e] \/ t_pids' = t_pids
    BY <1>4, <2>a
  <2>6. t_pids' \in [Tids -> Seq(Nat)]
    BY <2>1, <2>5, <2>a
  <2> QED
    BY <1>4, <2>1, <2>4, <2>6
<1>a. \A i \in Tids : i # k => Keeps(i)
  <2> SUFFICES ASSUME NEW i \in Tids, i # k, Scans(i), scan[i].dir # I!NoDir
               PROVE  scan[i].dir \in fds'[process[i]]
    BY DEF Keeps
  <2>1. scan[i].dir \in fds[process[i]] /\ process[i] \in Tids
    BY DEF ScanInv, ScanGood, ScanFinds, ScanWatches, ThreadInv, Born, Running
  <2>2. process[i] = process[k] => scan[i].dir # s.dir
    BY <1>1 DEF ScanInv, DirsApart
  <2> HIDE DEF s
  <2> QED
    BY <1>2, <1>4, <2>1, <2>2 DEF ScanInv, ScanTypes
<1>6. s.dir # I!NoDir => s.stayed \subseteq s.visited
  <2> SUFFICES ASSUME s.dir # I!NoDir, NEW x \in s.stayed PROVE x \in s.visited
    OBVIOUS
  <2>1. x \in Now(k) /\ x \in Nat /\ \A y \in s.visited : y \in Nat
    BY <1>2 DEF Things
  <2>2. CASE s.op = "fd"
    <3>1. PICK y \in s.visited : ~(x > y)
      BY <1>1, <2>1, <2>2 DEF I!Ahead, I!Entries, Now
    <3>2. x <= y
      BY <2>1, <3>1
    <3> QED
      BY <1>2, <2>2, <3>2 DEF ScanCounts
  <2>3. CASE s.op = "task"
    BY <1>1, <2>1, <2>3 DEF I!Ahead, I!Entries, Now
  <2> QED
    BY <1>3, <2>2, <2>3
<1>7. PICK q \in Seq(Nat) : q = t_pids[k]
  BY DEF ScanInv, ScanTypes
<1>8. s.op = "task" => /\ \A i, j \in DOMAIN q : q[i] = q[j] => i = j
                       /\ s.visited = {q[i] : i \in DOMAIN q}
  BY <1>2, <1>7 DEF ScanCollects
<1>9. s.op = "task" =>
        /\ DOMAIN I!sort(q) = DOMAIN q
        /\ \A i \in DOMAIN q : \E j \in DOMAIN q : I!sort(q)[i] = q[j]
        /\ \A j \in DOMAIN q : \E i \in DOMAIN q : I!sort(q)[i] = q[j]
        /\ \A i, j \in DOMAIN q : i < j => I!sort(q)[i] < I!sort(q)[j]
  BY <1>8, SortRight
<1>10. r \in Seq(Nat)
  <2>1. CASE s.op = "fd"
    <3>1. t_numOpenedFiles[k] \in Nat
      BY DEF ScanInv, ScanTypes
    <3> QED
      BY <2>1, <3>1
  <2>2. CASE s.op = "task"
    <3>1. PICK l \in Nat : DOMAIN q = 1..l
      OBVIOUS
    <3>2. I!sort(q) = [i \in DOMAIN q |-> I!sort(q)[i]]
      BY DEF I!sort
    <3>a. PICK w : w = I!sort(q)
      OBVIOUS
    <3>b. ASSUME NEW i \in DOMAIN q PROVE w[i] \in Nat
      <4>1. PICK j \in DOMAIN q : w[i] = q[j]
        BY <1>9, <2>2, <3>a, <3>b
      <4> QED
        BY <4>1
    <3>3. w \in [1..l -> Nat]
      BY <3>1, <3>2, <3>a, <3>b
    <3>4. I!sort(q) \in Seq(Nat)
      BY <3>3, <3>a, SeqDef
    <3> QED
      BY <1>7, <2>2, <3>4
  <2> QED
    BY <1>3, <2>1, <2>2
<1>11. /\ scan' \in [Tids -> Calls]
       /\ scan'[k].op = o /\ scan'[k].result = r /\ scan'[k].dir = s.dir
       /\ scan'[k].stayed = s.stayed /\ scan'[k].ever = s.ever
       /\ \A i \in Tids : i # k => scan'[i] = I!Watched(scan, fds', tasks)[i]
  <2>1. PICK c \in Calls : c = scan[k]
    BY <1>2
  <2>2. PICK a \in {"opened", "threads"}, b \in Seq(Nat) : a = o /\ b = r
    BY <1>10
  <2>3. PICK m : m = [c EXCEPT !.op = a, !.result = b]
    OBVIOUS
  <2>4. m \in Calls
    BY <2>3 DEF Calls
  <2>5. m.op = a /\ m.result = b /\ m.dir = c.dir /\ m.stayed = c.stayed /\ m.ever = c.ever
    BY <2>3 DEF Calls
  <2>6. PICK w : w = I!Watched(scan, fds', tasks)
    OBVIOUS
  <2>7. DOMAIN w = Tids /\ w = [i \in Tids |-> w[i]]
    BY <2>6 DEF I!Watched
  <2>8. scan' = [w EXCEPT ![k] = m]
    BY <1>4, <2>1, <2>2, <2>3, <2>6
  <2>9. /\ scan' = [i \in Tids |-> scan'[i]] /\ scan'[k] = m
        /\ \A i \in Tids : i # k => scan'[i] = w[i]
    BY <2>7, <2>8
  <2>10. ASSUME NEW i \in Tids, i # k PROVE scan'[i] \in Calls
    <3>1. scan'[i] = I!Watched(scan, fds', tasks)[i]
      BY <2>6, <2>9, <2>10
    <3>2. t_numOpenedFiles'[i] = t_numOpenedFiles[i] /\ t_pids'[i] = t_pids[i]
      BY <1>4, <2>10 DEF ScanInv, ScanTypes
    <3> QED
      BY <1>5, <1>a, <2>10, <3>1, <3>2, OthersGood
  <2>11. scan' \in [Tids -> Calls]
    BY <2>4, <2>9, <2>10
  <2> QED
    BY <2>1, <2>2, <2>5, <2>6, <2>9, <2>11
<1> HIDE DEF s, r, o
<1>12. ScanTypes'
  BY <1>5, <1>11 DEF ScanTypes
<1>b. DirsApart'
  <2>1. ~Scans(k)'
    BY <1>11 DEF Scans, o
  <2>2. process' = process
    BY DEF vars
  <2>3. ASSUME NEW i \in Tids, i # k
        PROVE  scan'[i].op = scan[i].op /\ scan'[i].dir = scan[i].dir
    <3>1. PICK w : w = I!Watched(scan, fds', tasks)[i]
      OBVIOUS
    <3>2. w.op = scan[i].op /\ w.dir = scan[i].dir
      BY <3>1, WatchedSame DEF ScanInv, ScanTypes
    <3> QED
      BY <1>11, <2>3, <3>1, <3>2
  <2> QED
    BY <2>1, <2>2, <2>3, StillApart DEF Scans
<1>13. ScanGood(k)'
  <2>1. ScanWatches(k)' /\ ScanFinds(k)' /\ ScanCounts(k)' /\ ScanCollects(k)'
    BY <1>11 DEF ScanWatches, ScanFinds, Scans, ScanCounts, ScanCollects, o
  <2>2. CASE s.op = "fd"
    <3>1. /\ IsFiniteSet(s.ever) /\ IsFiniteSet(s.visited)
      <4>1. IsFiniteSet(Things)
        BY FS_Union DEF Things
      <4>2. IsFiniteSet(s.ever)
        BY <1>2, <4>1, FS_Subset DEF s
      <4> QED
        BY <1>2, <4>2, FS_Subset DEF s
    <3>2. s.dir # I!NoDir => /\ Cardinality(s.stayed) <= Cardinality(s.visited)
                             /\ s.visited # {}
      <4> SUFFICES ASSUME s.dir # I!NoDir
                   PROVE  /\ Cardinality(s.stayed) <= Cardinality(s.visited)
                          /\ s.visited # {}
        OBVIOUS
      <4>1. s.dir \in s.stayed
        BY <1>1, <1>2, <2>2 DEF ScanFinds, s
      <4> QED
        BY <1>6, <3>1, <4>1, FS_Subset
    <3>a. Cardinality(s.visited) = 0 <=> s.dir = I!NoDir
      <4>1. s.dir = I!NoDir => s.visited = {}
        BY <1>1, <1>2 DEF ScanFinds, s
      <4> QED
        BY <3>1, <3>2, <4>1, FS_EmptySet
    <3>3. Cardinality(s.visited) <= Cardinality(s.ever)
      BY <1>2, <3>1, FS_Subset DEF s
    <3>4. r[1] = Cardinality(s.visited)
      BY <1>2, <2>2 DEF r, ScanCounts, s
    <3>5. o = "opened"
      BY <2>2 DEF o
    <3>6. Cardinality(s.visited) \in Nat
      BY <3>1, FS_CardinalityType
    <3> QED
      BY <1>11, <2>1, <3>2, <3>a, <3>3, <3>4, <3>5, <3>6 DEF ScanGood, ScanReturns
  <2>3. CASE s.op = "task"
    <3>1. o = "threads" /\ r = I!sort(q)
      BY <1>7, <2>3 DEF o, r
    <3>2. {r[i] : i \in DOMAIN r} = s.visited
      <4>1. \A i \in DOMAIN r : r[i] \in s.visited
        BY <1>8, <1>9, <2>3, <3>1
      <4>2. \A x \in s.visited : \E i \in DOMAIN r : x = r[i]
        BY <1>8, <1>9, <2>3, <3>1
      <4> QED
        BY <4>1, <4>2
    <3>3. \A i, j \in DOMAIN r : i < j => r[i] < r[j]
      BY <1>9, <2>3, <3>1
    <3>4. s.visited \subseteq s.ever
      BY <1>2 DEF s
    <3>5. s.visited = {} <=> s.dir = I!NoDir
      <4>1. s.dir = I!NoDir => s.visited = {}
        BY <1>1, <1>2 DEF ScanFinds, s
      <4>2. s.dir # I!NoDir => k \in s.stayed
        BY <1>1, <1>2, <2>3 DEF ScanFinds, s
      <4> QED
        BY <1>6, <4>1, <4>2
    <3>6. DOMAIN r = {} <=> s.dir = I!NoDir
      BY <3>2, <3>5
    <3>7. s.dir # I!NoDir => s.stayed \subseteq {r[i] : i \in DOMAIN r}
      BY <1>6, <3>2
    <3>8. {r[i] : i \in DOMAIN r} \subseteq s.ever
      BY <3>2, <3>4
    <3>9. ScanReturns(k)'
      BY <1>11, <3>1, <3>3, <3>6, <3>7, <3>8 DEF ScanReturns
    <3> QED
      BY <2>1, <3>9 DEF ScanGood
  <2> QED
    BY <1>3, <2>2, <2>3 DEF s
<1>14. ASSUME NEW i \in Tids, i # k PROVE ScanGood(i)'
  <2>1. t_numOpenedFiles'[i] = t_numOpenedFiles[i] /\ t_pids'[i] = t_pids[i]
    BY <1>4, <1>14 DEF ScanInv, ScanTypes
  <2> QED
    BY <1>5, <1>a, <1>11, <1>14, <2>1, OthersGood
<1> QED
  BY <1>12, <1>b, <1>13, <1>14 DEF ScanInv

(* The other operations of ProcessInfo's users: a result is taken, a file  *)
(* is opened or closed.                                                    *)
LEMMA OtherUseStep ==
    ASSUME ThreadInv, ScanInv, UNCHANGED vars, NEW k \in Tids, Running(k),
           I!Return(k) \/ I!Open(k) \/ I!Close(k)
    PROVE  ScanInv'
<1> USE TidAssumption, ProcessAssumption
<1> DEFINE p == process[k]
<1>1. p \in Tids /\ fds[p] \in SUBSET Fds
  BY DEF ThreadInv, Born, Running, ScanInv, ScanTypes
<1>2. t_numOpenedFiles' = t_numOpenedFiles /\ t_pids' = t_pids
  BY DEF I!Return, I!Open, I!Close
<1>3. CASE I!Return(k)
  <2>1. I!Idle \in Calls /\ I!Idle.op = "none"
    BY DEF I!Idle, Calls
  <2>2. scan' = [scan EXCEPT ![k] = I!Idle] /\ fds' = fds
    BY <1>3 DEF I!Return
  <2>3. ScanTypes'
    BY <1>2, <2>1, <2>2 DEF ScanInv, ScanTypes
  <2>a. scan'[k].op = "none"
    BY <2>1, <2>2 DEF ScanInv, ScanTypes
  <2>b. DirsApart' /\ \A i \in Tids : Keeps(i)
    <3>1. process' = process /\ \A i \in Tids : i # k => scan'[i] = scan[i]
      BY <2>2 DEF vars, ScanInv, ScanTypes
    <3>2. DirsApart'
      BY <2>a, <3>1, StillApart DEF Scans
    <3> QED
      BY <2>2, <3>2 DEF ScanInv, ScanGood, ScanFinds, Keeps
  <2>4. ScanGood(k)'
    BY <2>a DEF ScanGood, ScanWatches, ScanFinds, Scans, ScanCounts, ScanCollects, ScanReturns
  <2>5. ASSUME NEW i \in Tids, i # k PROVE ScanGood(i)'
    <3>1. scan'[i] = scan[i] /\ fds' \in [Tids -> SUBSET Fds]
      BY <2>2, <2>5 DEF ScanInv, ScanTypes
    <3> QED
      BY <1>2, <2>2, <2>b, <3>1, OthersGood
  <2> QED
    BY <2>3, <2>b, <2>4, <2>5 DEF ScanInv
<1>4. CASE I!Open(k) \/ I!Close(k)
  <2>1. scan' = I!Watched(scan, fds', tasks)
    BY <1>4 DEF I!Open, I!Close
  <2>2. fds' \in [Tids -> SUBSET Fds]
    <3>1. CASE I!Open(k)
      <4>1. (Fds \ fds[p]) \in SUBSET Nat /\ Fds \ fds[p] # {}
        BY <1>1, <3>1 DEF I!Open
      <4>2. I!Min(Fds \ fds[p]) \in Fds
        BY <4>1, LeastOf
      <4>3. fds' = [fds EXCEPT ![p] = fds[p] \cup {I!Min(Fds \ fds[p])}]
        BY <3>1 DEF I!Open
      <4> QED
        BY <1>1, <4>2, <4>3 DEF ScanInv, ScanTypes
    <3>2. CASE I!Close(k)
      <4>1. PICK f : fds' = [fds EXCEPT ![p] = fds[p] \ {f}]
        BY <3>2 DEF I!Close
      <4> QED
        BY <1>1, <4>1 DEF ScanInv, ScanTypes
    <3> QED
      BY <1>4, <3>1, <3>2
  <2>a. ASSUME NEW i \in Tids PROVE Keeps(i)
    <3> SUFFICES ASSUME Scans(i), scan[i].dir # I!NoDir PROVE scan[i].dir \in fds'[process[i]]
      BY DEF Keeps
    <3>1. scan[i].dir \in fds[process[i]] /\ process[i] \in Tids
      BY DEF ScanInv, ScanGood, ScanFinds, ScanWatches, ThreadInv, Born, Running
    <3>2. CASE I!Open(k)
      <4>1. PICK f : fds' = [fds EXCEPT ![p] = fds[p] \cup {f}]
        BY <3>2 DEF I!Open
      <4> QED
        BY <1>1, <3>1, <4>1 DEF ScanInv, ScanTypes
    <3>3. CASE I!Close(k)
      <4>1. PICK f : /\ f # scan[i].dir
                     /\ fds' = [fds EXCEPT ![p] = fds[p] \ {f}]
        BY <3>3 DEF I!Close, Scans
      <4> QED
        BY <1>1, <3>1, <4>1 DEF ScanInv, ScanTypes
    <3> QED
      BY <1>4, <3>2, <3>3
  <2>b. DirsApart'
    <3>1. process' = process
      BY DEF vars
    <3>2. \A i \in Tids : scan'[i].op = scan[i].op /\ scan'[i].dir = scan[i].dir
      BY <2>1, WatchedSame DEF ScanInv, ScanTypes
    <3> QED
      BY <3>1, <3>2, StillApart DEF Scans
  <2>3. ASSUME NEW i \in Tids PROVE scan'[i] \in Calls /\ ScanGood(i)'
    BY <1>2, <2>1, <2>2, <2>a, OthersGood
  <2>4. scan' = [i \in Tids |-> scan'[i]]
    <3>1. PICK w : w = I!Watched(scan, fds', tasks)
      OBVIOUS
    <3>2. w = [i \in Tids |-> w[i]]
      BY <3>1 DEF I!Watched
    <3> QED
      BY <2>1, <3>1, <3>2
  <2>5. scan' \in [Tids -> Calls]
    BY <2>3, <2>4
  <2>6. ScanTypes'
    BY <1>2, <2>2, <2>5 DEF ScanInv, ScanTypes
  <2> QED
    BY <2>3, <2>b, <2>6 DEF ScanInv
<1> QED
  BY <1>3, <1>4

LEMMA ScanStep == ThreadInv /\ ScanInv /\ [NextAll]_allVars => ScanInv'
<1> SUFFICES ASSUME ThreadInv, ScanInv, [NextAll]_allVars PROVE ScanInv'
  OBVIOUS
<1>1. CASE NextInfo
  <2>1. PICK k \in Tids : Running(k) /\ I!Use(k)
    BY <1>1 DEF NextInfo
  <2>2. UNCHANGED vars
    BY <1>1 DEF NextInfo
  <2> QED
    BY <2>1, <2>2, BeginStep, VisitStep, EndScanStep, OtherUseStep DEF I!Use
<1>2. CASE UNCHANGED <<vars, infoVars>>
  <2>1. ScanTypes'
    BY <1>2 DEF ScanInv, ScanTypes, infoVars
  <2>2. ASSUME NEW k \in Tids PROVE ScanGood(k)'
    <3>1. fds' \in [Tids -> SUBSET Fds]
      BY <2>1 DEF ScanTypes
    <3>2. Keeps(k)
      BY <1>2 DEF ScanInv, ScanGood, ScanFinds, Keeps, infoVars
    <3> QED
      BY <1>2, <3>1, <3>2, OthersGood DEF infoVars
  <2>3. DirsApart'
    BY <1>2, StillApart DEF Scans, infoVars, vars
  <2> QED
    BY <2>1, <2>2, <2>3 DEF ScanInv
<1> QED
  BY <1>1, <1>2, ScanThreadStep DEF NextAll, NextMutex, NextLocal, NextRead, allVars

LEMMA ScanInvIsEnough == ScanInv => ScanRight
<1> SUFFICES ASSUME ScanInv, NEW k \in Tids
             PROVE  LET s == scan[k] IN
                    /\ s.op = "opened" =>
                         /\ s.result[1] = 0 <=> s.dir = I!NoDir
                         /\ s.dir # I!NoDir =>
                              s.result[1] \in I!Cardinality(s.stayed)..I!Cardinality(s.ever)
                    /\ s.op = "threads" =>
                         /\ s.result = <<>> <=> s.dir = I!NoDir
                         /\ s.dir # I!NoDir => s.stayed \subseteq I!ToSet(s.result)
                         /\ I!ToSet(s.result) \subseteq s.ever
                         /\ \A i \in 2..Len(s.result) : s.result[i - 1] < s.result[i]
  BY DEF ScanRight, I!ScanRight
<1> USE TidAssumption, ProcessAssumption
<1>1. PICK s \in Calls : s = scan[k]
  BY DEF ScanInv, ScanTypes
<1>2. ScanReturns(k)
  BY DEF ScanInv, ScanGood
<1>3. PICK q \in Seq(Nat) : q = s.result
  BY <1>1 DEF Calls
<1>4. s.op = "opened" =>
        /\ q[1] = 0 <=> s.dir = I!NoDir
        /\ s.dir # I!NoDir => q[1] \in I!Cardinality(s.stayed)..I!Cardinality(s.ever)
  <2>1. IsFiniteSet(s.stayed) /\ IsFiniteSet(s.ever)
    <3>1. IsFiniteSet(Things)
      BY FS_Union DEF Things
    <3>2. s.stayed \in SUBSET Things /\ s.ever \in SUBSET Things
      BY <1>1 DEF Calls
    <3> QED
      BY <3>1, <3>2, FS_Subset
  <2>2. Cardinality(s.stayed) \in Nat /\ Cardinality(s.ever) \in Nat
    BY <2>1, FS_CardinalityType
  <2>3. s.op = "opened" => /\ q[1] \in Nat /\ (q[1] = 0 <=> s.dir = I!NoDir)
                           /\ s.dir # I!NoDir => Cardinality(s.stayed) <= q[1]
                           /\ q[1] <= Cardinality(s.ever)
    BY <1>1, <1>2, <1>3 DEF ScanReturns
  <2> QED
    BY <2>2, <2>3, SameCardinality
<1>5. s.op = "threads" =>
        /\ DOMAIN q = {} <=> s.dir = I!NoDir
        /\ s.dir # I!NoDir => s.stayed \subseteq {q[i] : i \in DOMAIN q}
        /\ {q[i] : i \in DOMAIN q} \subseteq s.ever
        /\ \A i, j \in DOMAIN q : i < j => q[i] < q[j]
  BY <1>1, <1>2, <1>3 DEF ScanReturns
<1>6. \A i \in 2..Len(q) : i - 1 \in DOMAIN q /\ i \in DOMAIN q /\ i - 1 < i
  OBVIOUS
<1>7. I!ToSet(q) = {q[i] : i \in DOMAIN q}
  BY DEF I!ToSet
<1>8. s.op = "threads" => \A i \in 2..Len(q) : q[i - 1] < q[i]
  BY <1>5, <1>6
<1>9. q = <<>> <=> DOMAIN q = {}
  OBVIOUS
<1> QED
  BY <1>1, <1>3, <1>4, <1>5, <1>7, <1>8, <1>9

(* For any number of threads, processes and descriptors, also at the limit *)
(* of descriptors: openedFiles() and threads() return every entry that was *)
(* there all the time, once, and none that never was, and threads()        *)
(* returns them sorted; or 0 and no thread, if and only if the directory   *)
(* could not be opened.                                                    *)
THEOREM ScansAreRight == SpecAll => []ScanRight
<1>1. InitAll => ThreadInv
  BY ThreadInit DEF InitAll
<1>2. ThreadInv /\ [NextAll]_allVars => ThreadInv'
  BY ThreadStep, ProcessUsesThread
<1> QED
  BY <1>1, <1>2, ScanInit, ScanStep, ScanInvIsEnough, PTL DEF SpecAll
=============================================================================

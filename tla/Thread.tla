------------------------------- MODULE Thread -------------------------------
(***************************************************************************)
(* base/Thread.cpp and base/CurrentThread.h: Thread objects, and the       *)
(* identity every thread keeps in thread-local variables: t_cachedTid,     *)
(* t_tidString with t_tidStringLength, and t_threadName.  Any thread may   *)
(* fork(): the child process has a copy of the memory and of the forking   *)
(* thread only, under a new id, which is also the id of the process.       *)
(***************************************************************************)
EXTENDS Integers, FiniteSets

CONSTANTS
    Threads,            \* objects of class Thread
    Tids,               \* bound: ids the kernel gives, each once
    Main                \* the id of the program's first thread

ASSUME TidAssumption ==
    /\ Tids \subseteq Nat \ {0} /\ IsFiniteSet(Tids) /\ Main \in Tids
    /\ "none" \notin Threads

VARIABLES
    pc,                 \* where each kernel thread is, "unborn" before it exists
    process,            \* getpid() in each thread
    runs,               \* the object whose runInThread() the thread is in, or "none"
    t_cachedTid,        \* 0 until cacheTid()
    t_tidString,        \* the id that is printed in t_tidString, or 0
    t_threadName,
    objects,            \* by process: the members of each Thread object
    atfork              \* by process: afterFork() is registered

localVars == <<t_cachedTid, t_tidString, t_threadName>>
vars == <<pc, process, runs, localVars, objects, atfork>>

Names == {"unknown", "main", "name_", "finished", "crashed"}

(* The thread is in code of the program's. *)
Running(k) == pc[k] = "func"

Members == [started : BOOLEAN, pthreadId : Tids \cup {0}, tid : Tids \cup {0}, joined : BOOLEAN]
New == [started |-> FALSE, pthreadId |-> 0, tid |-> 0, joined |-> FALSE]

TypeOK ==
    /\ pc \in [Tids -> {"unborn", "static", "handlers", "startThread", "func", "exited"}]
    /\ process \in [Tids -> Tids \cup {0}]
    /\ runs \in [Tids -> Threads \cup {"none"}]
    /\ t_cachedTid \in [Tids -> Tids \cup {0}]
    /\ t_tidString \in [Tids -> Tids \cup {0}]
    /\ t_threadName \in [Tids -> Names]
    /\ objects \in [Tids -> [Threads -> Members]]
    /\ atfork \in [Tids -> BOOLEAN]

Init ==
    /\ pc = [k \in Tids |-> IF k = Main THEN "static" ELSE "unborn"]
    /\ process = [k \in Tids |-> IF k = Main THEN Main ELSE 0]
    /\ runs = [k \in Tids |-> "none"]
    /\ t_cachedTid = [k \in Tids |-> 0]
    /\ t_tidString = [k \in Tids |-> 0]
    /\ t_threadName = [k \in Tids |-> "unknown"]
    /\ objects = [p \in Tids |-> [o \in Threads |-> New]]
    /\ atfork = [p \in Tids |-> FALSE]

(* tid(), with cacheTid() behind it, for a thread whose cache holds cached. *)
cacheTid(k, cached) ==
    /\ t_cachedTid' = [t_cachedTid EXCEPT ![k] = IF cached = 0 THEN k ELSE cached]
    /\ t_tidString' = [t_tidString EXCEPT ![k] = IF cached = 0 THEN k ELSE @]

isMainThread(k) == t_cachedTid[k] = process[k]

-----------------------------------------------------------------------------
(* The constructor of the static object init, before main(). *)
ThreadNameInitializer ==
    /\ pc[Main] = "static"
    /\ pc' = [pc EXCEPT ![Main] = "func"]
    /\ t_threadName' = [t_threadName EXCEPT ![Main] = "main"]
    /\ cacheTid(Main, t_cachedTid[Main])
    /\ atfork' = [atfork EXCEPT ![Main] = TRUE]
    /\ UNCHANGED <<process, runs, objects>>

(* start(): pthread_create() makes the thread j, with fresh local variables. *)
Start(k, o, j) ==
    /\ Running(k)
    /\ ~objects[process[k]][o].started
    /\ pc[j] = "unborn"
    /\ objects' = [objects EXCEPT ![process[k]][o].started = TRUE,
                                  ![process[k]][o].pthreadId = j]
    /\ pc' = [pc EXCEPT ![j] = "startThread"]
    /\ process' = [process EXCEPT ![j] = process[k]]
    /\ runs' = [runs EXCEPT ![j] = o]
    /\ UNCHANGED <<localVars, atfork>>

(* runInThread() up to the call of func_: tid_ is published only here. *)
RunInThread(j) ==
    /\ pc[j] = "startThread"
    /\ cacheTid(j, t_cachedTid[j])
    /\ objects' = [objects EXCEPT ![process[j]][runs[j]].tid = t_cachedTid'[j]]
    /\ t_threadName' = [t_threadName EXCEPT ![j] = "name_"]
    /\ pc' = [pc EXCEPT ![j] = "func"]
    /\ UNCHANGED <<process, runs, atfork>>

(* func_() returns. *)
FuncReturns(j) ==
    /\ Running(j) /\ runs[j] # "none"
    /\ t_threadName' = [t_threadName EXCEPT ![j] = "finished"]
    /\ pc' = [pc EXCEPT ![j] = "exited"]
    /\ UNCHANGED <<process, runs, t_cachedTid, t_tidString, objects, atfork>>

(* func_() throws: abort(), or a throw nobody catches, ends the process. *)
FuncThrows(j) ==
    /\ Running(j) /\ runs[j] # "none"
    /\ t_threadName' = [t_threadName EXCEPT ![j] = "crashed"]
    /\ pc' = [k \in Tids |-> IF process[k] = process[j] THEN "exited" ELSE pc[k]]
    /\ UNCHANGED <<process, runs, t_cachedTid, t_tidString, objects, atfork>>

(* join(), by a process that has the thread, once. *)
Join(k, o) ==
    LET m == objects[process[k]][o] IN
    /\ Running(k)
    /\ m.started /\ ~m.joined
    /\ process[m.pthreadId] = process[k]
    /\ pc[m.pthreadId] = "exited"
    /\ objects' = [objects EXCEPT ![process[k]][o].joined = TRUE]
    /\ UNCHANGED <<pc, process, runs, localVars, atfork>>

(* fork() in the child j, up to the handlers registered by pthread_atfork. *)
Fork(k, j) ==
    /\ Running(k)
    /\ pc[j] = "unborn"
    /\ pc' = [pc EXCEPT ![j] = IF atfork[process[k]] THEN "handlers" ELSE "func"]
    /\ process' = [process EXCEPT ![j] = j]
    /\ runs' = [runs EXCEPT ![j] = runs[k]]
    /\ t_cachedTid' = [t_cachedTid EXCEPT ![j] = t_cachedTid[k]]
    /\ t_tidString' = [t_tidString EXCEPT ![j] = t_tidString[k]]
    /\ t_threadName' = [t_threadName EXCEPT ![j] = t_threadName[k]]
    /\ objects' = [objects EXCEPT ![j] = objects[process[k]]]
    /\ atfork' = [atfork EXCEPT ![j] = atfork[process[k]]]

(* Mutant: the copied id is taken for a cached one. *)
AfterForkKeepsTid(j) ==
    /\ pc[j] = "handlers"
    /\ t_threadName' = [t_threadName EXCEPT ![j] = "main"]
    /\ cacheTid(j, t_cachedTid[j])
    /\ pc' = [pc EXCEPT ![j] = "func"]
    /\ UNCHANGED <<process, runs, objects, atfork>>

AfterFork(j) ==
    /\ pc[j] = "handlers"
    /\ t_threadName' = [t_threadName EXCEPT ![j] = "main"]
    /\ cacheTid(j, 0)
    /\ pc' = [pc EXCEPT ![j] = "func"]
    /\ UNCHANGED <<process, runs, objects, atfork>>

Next ==
    \/ ThreadNameInitializer
    \/ \E k \in Tids, o \in Threads, j \in Tids : Start(k, o, j)
    \/ \E j \in Tids : RunInThread(j)
    \/ \E j \in Tids : FuncReturns(j)
    \/ \E j \in Tids : FuncThrows(j)
    \/ \E k \in Tids, o \in Threads : Join(k, o)
    \/ \E k, j \in Tids : Fork(k, j)
    \/ \E j \in Tids : AfterFork(j)

Spec == Init /\ [][Next]_vars

-----------------------------------------------------------------------------
(***************************************************************************)
(* Whatever tree of processes and threads a program makes, code of the     *)
(* program's sees its own id in the cache and in the printed text, and     *)
(* isMainThread() is true in the first thread of each process and in no    *)
(* other; assertInLoopThread() and the owner of a mutex rest on this.      *)
(***************************************************************************)
OwnIdentity ==
    \A k \in Tids : Running(k) =>
        /\ t_cachedTid[k] = k /\ t_tidString[k] = k
        /\ isMainThread(k) <=> (process[k] = k)

(* Once join() has returned, tid() of the object is the id of the thread   *)
(* it ran, which start() does not wait for.                                *)
TidAfterJoin ==
    \A p \in Tids, o \in Threads :
        objects[p][o].joined => objects[p][o].tid = objects[p][o].pthreadId

(* In no process is func_ of an object run by two threads; a copy made by  *)
(* fork() counts as run if the original was started.                       *)
RunsOnce ==
    \A p \in Tids, o \in Threads :
        Cardinality({k \in Tids : process[k] = p /\ runs[k] = o}) <= 1

(***************************************************************************)
(* Ids are right: every thread sees its own, before and after fork(), and  *)
(* tid() names the thread that ran, once, when join() has returned.        *)
(***************************************************************************)
ThreadsSound ==
    /\ TypeOK
    /\ OwnIdentity
    /\ TidAfterJoin
    /\ RunsOnce
=============================================================================

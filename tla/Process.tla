------------------------------ MODULE Process ------------------------------
(***************************************************************************)
(* Programs of Thread objects and fork() whose threads use what base has   *)
(* for them: a MutexLock and a Condition, a ThreadLocal, or ProcessInfo,   *)
(* and a program that reads a file by ReadSmallFile.  A program uses one   *)
(* of these, named by uses; the variables of the others rest.              *)
(*                                                                         *)
(* holder_ is written and compared with the id that CurrentThread caches,  *)
(* so isLockedByThisThread() is right only as long as the caches are.  A   *)
(* forked child does not use its copy of the mutex, which some thread it   *)
(* does not have may hold.                                                 *)
(***************************************************************************)
EXTENDS Thread, Sequences, TLC

CONSTANTS
    FewTids,                                    \* bound: ids a program without a mutex takes
    MaxValues,                                  \* see ThreadLocal
    Fds, MaxOps,                                \* see ProcessInfo
    kBufferSize, MaxSizes, MaxFile, MaxCalls    \* see ReadSmallFile

ASSUME ProcessAssumption ==
    /\ Main \in FewTids /\ FewTids \subseteq Tids
    /\ Fds \subseteq Nat \ {0} /\ IsFiniteSet(Fds) /\ {MaxValues, MaxOps} \subseteq Nat
    /\ kBufferSize \in Nat \ {0} /\ MaxSizes \subseteq Nat /\ {MaxFile, MaxCalls} \subseteq Nat

VARIABLES
    uses,
    owner, holder_, mpc,                            \* see MutexLock
    pkey, specific, heap, made,                     \* see ThreadLocal
    fds, t_numOpenedFiles, t_pids, scan, ops,       \* see ProcessInfo
    kind, length, offset, buf_, nul, rpc, content, fileSize, err_, err, call

mutexVars == <<owner, holder_, mpc>>
localVars_ == <<pkey, specific, heap, made>>
infoVars == <<fds, t_numOpenedFiles, t_pids, scan, ops>>
readVars == <<kind, length, offset, buf_, nul, rpc, content, fileSize, err_, err, call>>
allVars == <<uses, vars, mutexVars, localVars_, infoVars, readVars>>

(* What /proc/self/task of each process lists. *)
tasks == [p \in Tids |-> {k \in Tids : process[k] = p /\ pc[k] \notin {"unborn", "exited"}}]

M == INSTANCE MutexLock WITH Threads <- Tids, NoThread <- 0, pc <- mpc
L == INSTANCE ThreadLocal
I == INSTANCE ProcessInfo
R == INSTANCE ReadSmallFile

InitAll ==
    /\ Init /\ M!Init /\ L!Init /\ I!Init /\ R!Init
    /\ uses \in {"mutex", "local", "info", "file"}
    /\ uses # "file" => kind = "missing"

(* A thread that is inside a call of the library's can only go on with it. *)
Free(k) ==
    /\ mpc[k] \in {"out", "in"}
    /\ scan[k].op \in {"none", "opened", "threads"}

(* Ids for new threads. *)
NewTids == IF uses = "mutex" THEN Tids ELSE FewTids

(* What a step of Thread's means for the rest: most leave it alone.        *)
Rest ==
    /\ UNCHANGED <<mutexVars, localVars_, fds, t_numOpenedFiles, t_pids, ops>>
    /\ scan' = I!Watched(scan, fds, tasks')

Ends(j) == L!destructor(j) /\ scan' = I!Watched(scan, fds, tasks')
           /\ UNCHANGED <<mutexVars, fds, t_numOpenedFiles, t_pids, ops>>

(* With the process go its calls. *)
Dies(j) == /\ scan' = [k \in Tids |-> IF process[k] = process[j] THEN I!Idle ELSE scan[k]]
           /\ UNCHANGED <<mutexVars, localVars_, fds, t_numOpenedFiles, t_pids, ops>>

Forks(k, j) == L!Fork(k, j) /\ I!Fork(k, j) /\ UNCHANGED mutexVars

NextThread ==
    /\ uses # "file"
    /\ \/ ThreadNameInitializer /\ Rest
       \/ \E k \in Tids, o \in Threads, j \in NewTids : Free(k) /\ Start(k, o, j) /\ Rest
       \/ \E k \in Tids, j \in NewTids : Free(k) /\ Fork(k, j) /\ Forks(k, j)
       \/ \E k \in Tids, o \in Threads : Free(k) /\ Join(k, o) /\ Rest
       \/ \E j \in Tids : RunInThread(j) /\ Rest
       \/ \E j \in Tids : AfterFork(j) /\ Rest
       \/ \E j \in Tids : Free(j) /\ mpc[j] = "out" /\ FuncReturns(j) /\ Ends(j)
       \/ \E j \in Tids : Free(j) /\ FuncThrows(j) /\ Dies(j)
    /\ UNCHANGED <<uses, readVars>>

NextMutex ==
    /\ uses = "mutex"
    /\ \E k \in Tids : Running(k) /\ process[k] = Main /\ M!Use(k)
    /\ UNCHANGED <<uses, vars, localVars_, infoVars, readVars>>

NextLocal ==
    /\ uses = "local"
    /\ \E k \in Tids : Running(k) /\ L!Use(k)
    /\ UNCHANGED <<uses, vars, mutexVars, infoVars, readVars>>

NextInfo ==
    /\ uses = "info"
    /\ \E k \in Tids : Running(k) /\ I!Use(k)
    /\ UNCHANGED <<uses, vars, mutexVars, localVars_, readVars>>

NextRead ==
    /\ uses = "file"
    /\ R!Next
    /\ UNCHANGED <<uses, vars, mutexVars, localVars_, infoVars>>

NextAll == NextThread \/ NextMutex \/ NextLocal \/ NextInfo \/ NextRead

ObjectsAlike == Permutations(Threads)

SpecAll == InitAll /\ [][NextAll]_allVars

-----------------------------------------------------------------------------
(***************************************************************************)
(* isLockedByThisThread() never tells a thread outside lock() and unlock() *)
(* that it holds the mutex, although it reads holder_ without the mutex    *)
(* and Condition::wait leaves a stale value in it.                         *)
(***************************************************************************)
NoFalseClaim ==
    \A k \in Tids :
        (Running(k) /\ process[k] = Main /\ mpc[k] = "out")
            => ~M!isLockedByThisThread(k)

(***************************************************************************)
(* Each thread has a value of its own of a ThreadLocal, which is there as  *)
(* long as the thread and no longer, unless the ThreadLocal goes first.    *)
(***************************************************************************)
ValuesOwned == L!ValuesOwned(Tids \ {Main})

(***************************************************************************)
(* ProcessInfo::openedFiles() and threads() return what was there during   *)
(* the scan, once, although threads come and go and scan side by side, or  *)
(* 0 and no thread at all if, and only if, the directory was not opened.   *)
(***************************************************************************)
ScanRight == I!ScanRight

(***************************************************************************)
(* ReadSmallFile returns what the file had, without gaps or more than was  *)
(* asked for, however the reads are cut.                                   *)
(***************************************************************************)
ReadsWhole == R!ReadsWhole
=============================================================================

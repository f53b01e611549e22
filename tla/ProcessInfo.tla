---------------------------- MODULE ProcessInfo ----------------------------
(***************************************************************************)
(* base/ProcessInfo.cpp: openedFiles() and threads() scan a directory of   *)
(* /proc entry by entry, with filters that leave what they find in the     *)
(* thread-local t_numOpenedFiles and t_pids, while other threads start,    *)
(* end, open and close files and scan themselves.  Functions that make one *)
(* system call, or read one file, change nothing and are left out.         *)
(***************************************************************************)
EXTENDS Naturals, Sequences, SequencesExt, FiniteSetsExt

CONSTANTS
    Tids,               \* ids of threads, among them those of processes
    Fds,                \* bound: descriptors a process may have, numbers above 0
    MaxOps              \* bound: scans, opens and closes

VARIABLES
    process,            \* getpid() in each thread
    tasks,              \* by process: its threads
    fds,                \* by process: its open descriptors
    t_numOpenedFiles, t_pids,
    scan,               \* per thread: the call it is in
    ops

vars == <<fds, t_numOpenedFiles, t_pids, scan, ops>>

(* The directory that opendir() could not open. *)
NoDir == 0

(* visited is the position of the directory stream; stayed and ever are    *)
(* history: entries that were there all the time, and at some time.        *)
Idle == [op |-> "none", dir |-> NoDir, visited |-> {}, stayed |-> {}, ever |-> {},
         result |-> <<>>]

Init ==
    /\ fds = [p \in Tids |-> {}]
    /\ t_numOpenedFiles = [k \in Tids |-> 0]
    /\ t_pids = [k \in Tids |-> <<>>]
    /\ scan = [k \in Tids |-> Idle]
    /\ ops = 0

Entries(op, p, files, threads_) == IF op = "fd" THEN files[p] ELSE threads_[p]

(* The calls s in progress, when descriptors are files and threads are     *)
(* threads_.                                                               *)
Watched(s, files, threads_) ==
    [k \in Tids |->
        IF s[k].op \notin {"fd", "task"} THEN s[k]
        ELSE LET e == Entries(s[k].op, process[k], files, threads_)
             IN  [s[k] EXCEPT !.stayed = @ \cap e, !.ever = @ \cup e]]

-----------------------------------------------------------------------------
(* Mutant: one variable for all threads. *)
OfAnyThread(k) == Min(Tids)

(* A __thread variable is the thread's own. *)
OfThread(k) == k

(* A thread that is in no call begins something. *)
Starts(k) == scan[k].op = "none" /\ ops < MaxOps /\ ops' = ops + 1

(* What opendir() may return: it takes a descriptor, or fails, which it    *)
(* must at the limit of the process and may before, at that of the system. *)
opendir(p) == {NoDir} \cup (IF fds[p] = Fds THEN {} ELSE {Min(Fds \ fds[p])})

(* The beginning of openedFiles() and threads(), of which the first counts *)
(* the descriptor of the directory.  Nobody looks at the -1 that scandir() *)
(* returns when opendir() fails.                                           *)
Begin(k, op) ==
    LET p == process[k]
        e == Entries(op, p, fds', tasks)
    IN  /\ Starts(k)
        /\ \E dir \in opendir(p) :
             /\ fds' = [fds EXCEPT ![p] = @ \cup ({dir} \ {NoDir})]
             /\ scan' = [Watched(scan, fds', tasks) EXCEPT ![k] =
                           [Idle EXCEPT !.op = op, !.dir = dir, !.stayed = e, !.ever = e]]

openedFiles(k) ==
    /\ t_numOpenedFiles' = [t_numOpenedFiles EXCEPT ![OfThread(k)] = 0]
    /\ Begin(k, "fd")
    /\ UNCHANGED t_pids

threads(k) ==
    /\ t_pids' = [t_pids EXCEPT ![OfThread(k)] = <<>>]
    /\ Begin(k, "task")
    /\ UNCHANGED t_numOpenedFiles

(* The entries a scan may still come to: descriptors in ascending order,   *)
(* threads in any, and none without a directory.                           *)
Ahead(k) ==
    LET e == Entries(scan[k].op, process[k], fds, tasks)
    IN  IF scan[k].dir = NoDir THEN {}
        ELSE IF scan[k].op = "fd" THEN {x \in e : \A y \in scan[k].visited : x > y}
        ELSE e \ scan[k].visited

fdDirFilter(k, x) ==
    /\ x = Min(Ahead(k))
    /\ t_numOpenedFiles' = [t_numOpenedFiles EXCEPT ![OfThread(k)] = @ + 1]
    /\ UNCHANGED t_pids

taskDirFilter(k, x) ==
    /\ t_pids' = [t_pids EXCEPT ![OfThread(k)] = Append(@, x)]
    /\ UNCHANGED t_numOpenedFiles

(* scandir() calls the filter for an entry. *)
Visit(k) ==
    /\ scan[k].op \in {"fd", "task"}
    /\ \E x \in Ahead(k) :
         /\ IF scan[k].op = "fd" THEN fdDirFilter(k, x) ELSE taskDirFilter(k, x)
         /\ scan' = [scan EXCEPT ![k].visited = @ \cup {x}]
    /\ UNCHANGED <<fds, ops>>

(* std::sort: every element at the place that its rank gives it. *)
Rank(s, i) == Cardinality({j \in DOMAIN s : s[j] < s[i] \/ (s[j] = s[i] /\ j <= i)})
sort(s) == [r \in DOMAIN s |-> s[CHOOSE i \in DOMAIN s : Rank(s, i) = r]]

(* closedir(), and the result: the count, or the ids sorted. *)
End(k) ==
    /\ scan[k].op \in {"fd", "task"}
    /\ Ahead(k) = {}
    /\ fds' = [fds EXCEPT ![process[k]] = @ \ {scan[k].dir}]
    /\ scan' = [Watched(scan, fds', tasks) EXCEPT ![k] =
                   [scan[k] EXCEPT !.op = IF @ = "fd" THEN "opened" ELSE "threads",
                       !.result = IF scan[k].op = "fd" THEN <<t_numOpenedFiles[OfThread(k)]>>
                                  ELSE sort(t_pids[OfThread(k)])]]
    /\ t_pids' = IF scan[k].op = "task" THEN [t_pids EXCEPT ![OfThread(k)] = <<>>] ELSE t_pids
    /\ UNCHANGED <<t_numOpenedFiles, ops>>

(* The caller has the result. *)
Return(k) ==
    /\ scan[k].op \in {"opened", "threads"}
    /\ scan' = [scan EXCEPT ![k] = Idle]
    /\ UNCHANGED <<fds, t_numOpenedFiles, t_pids, ops>>

(* Code of the program's opens or closes a file; it leaves the descriptors *)
(* of scans alone.                                                         *)
Open(k) ==
    LET p == process[k] IN
    /\ Starts(k)
    /\ fds[p] # Fds
    /\ fds' = [fds EXCEPT ![p] = @ \cup {Min(Fds \ fds[p])}]
    /\ scan' = Watched(scan, fds', tasks)
    /\ UNCHANGED <<t_numOpenedFiles, t_pids>>

Close(k) ==
    LET p == process[k]
        dirs == {scan[j].dir : j \in {j \in Tids : scan[j].op \in {"fd", "task"}}}
    IN  /\ Starts(k)
        /\ \E f \in fds[p] \ dirs : fds' = [fds EXCEPT ![p] = @ \ {f}]
        /\ scan' = Watched(scan, fds', tasks)
        /\ UNCHANGED <<t_numOpenedFiles, t_pids>>

Use(k) ==
    \/ openedFiles(k) \/ threads(k)
    \/ Visit(k) \/ End(k) \/ Return(k)
    \/ Open(k) \/ Close(k)

(* fork() by k, whose child is j; a directory is opened close-on-exec, but *)
(* a fork keeps it.                                                        *)
Fork(k, j) ==
    /\ fds' = [fds EXCEPT ![j] = fds[process[k]]]
    /\ t_numOpenedFiles' = [t_numOpenedFiles EXCEPT ![j] = t_numOpenedFiles[k]]
    /\ scan' = Watched(scan, fds', tasks')
    /\ UNCHANGED <<t_pids, ops>>

-----------------------------------------------------------------------------
(***************************************************************************)
(* A scan that could open its directory returns every entry that was there *)
(* from its beginning to its end, once, and none that never was, however   *)
(* many threads scan at the same time, and threads() returns ids in        *)
(* ascending order.  One that could not, as at the limit of descriptors,   *)
(* returns 0 or no thread, and so tells a caller that it failed: the other *)
(* counts at least its own directory, or finds at least its own thread.    *)
(***************************************************************************)
ScanRight ==
    \A k \in Tids :
        LET s == scan[k] IN
        /\ s.op = "opened" =>
             /\ s.result[1] = 0 <=> s.dir = NoDir
             /\ s.dir # NoDir => s.result[1] \in Cardinality(s.stayed)..Cardinality(s.ever)
        /\ s.op = "threads" =>
             /\ s.result = <<>> <=> s.dir = NoDir
             /\ s.dir # NoDir => s.stayed \subseteq ToSet(s.result)
             /\ ToSet(s.result) \subseteq s.ever
             /\ \A i \in 2..Len(s.result) : s.result[i - 1] < s.result[i]
=============================================================================

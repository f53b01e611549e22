---------------------------- MODULE FunctorQueue ----------------------------
(***************************************************************************)
(* What EventLoop::runInLoop and EventLoop::queueInLoop promise to their   *)
(* callers, with no thread, flag, lock or file descriptor in sight: a      *)
(* functor handed to the loop runs once, and functors that had to be       *)
(* queued run in the order in which they were queued.                      *)
(*                                                                         *)
(* An element of Functors stands for one call of runInLoop/queueInLoop, so *)
(* it is posted at most once; "posted" is the set of calls made so far.    *)
(***************************************************************************)
EXTENDS Naturals, Sequences

CONSTANT Functors

VARIABLES
    posted,     \* calls made so far
    queue,      \* queued functors that have not been started
    done        \* functors started so far, oldest first

vars == <<posted, queue, done>>

Init ==
    /\ posted = {}
    /\ queue = <<>>
    /\ done = <<>>

(* queueInLoop, or runInLoop from a thread that is not the loop's. *)
Post(f) ==
    /\ f \notin posted
    /\ posted' = posted \cup {f}
    /\ queue' = Append(queue, f)
    /\ UNCHANGED done

(* runInLoop called on the loop's own thread: the functor runs at once. *)
RunInline(f) ==
    /\ f \notin posted
    /\ posted' = posted \cup {f}
    /\ done' = Append(done, f)
    /\ UNCHANGED queue

(* The loop starts the oldest queued functor. *)
RunHead ==
    /\ queue # <<>>
    /\ done' = Append(done, Head(queue))
    /\ queue' = Tail(queue)
    /\ UNCHANGED posted

Next ==
    \/ \E f \in Functors : Post(f) \/ RunInline(f)
    \/ RunHead

Spec == Init /\ [][Next]_vars
=============================================================================

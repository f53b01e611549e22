------------------------------- MODULE LogSink -------------------------------
(***************************************************************************)
(* What a Logger counts on when its output function is that of a LogFile:  *)
(* lines are kept in the order they come in, and a crash loses only a tail *)
(* of them.  lines is what would be read back, files first, then buffers;  *)
(* lines become durable at any time, and stay so.  A write that fails may  *)
(* lose lines that are not durable, and nothing else does.                 *)
(***************************************************************************)
EXTENDS Naturals, Sequences

VARIABLES
    lines,
    durable,        \* how many of the lines a crash leaves
    failures,       \* calls in which a write has failed
    alive

vars == <<lines, durable, failures, alive>>

Init == lines = <<>> /\ durable = 0 /\ failures = 0 /\ alive = TRUE

(* The first n lines stay, and at most one comes in. *)
Keeps(n) ==
    /\ alive
    /\ Len(lines') \in n..(n + 1)
    /\ SubSeq(lines', 1, n) = SubSeq(lines, 1, n)
    /\ durable' \in durable..Len(lines')
    /\ UNCHANGED alive

Take == Keeps(Len(lines)) /\ UNCHANGED failures

Fail == failures' = failures + 1 /\ \E n \in durable..Len(lines) : Keeps(n)

Crash ==
    /\ alive
    /\ alive' = FALSE
    /\ lines' = SubSeq(lines, 1, durable)
    /\ UNCHANGED <<durable, failures>>

Next == Take \/ Fail \/ Crash

Spec == Init /\ [][Next]_vars
=============================================================================

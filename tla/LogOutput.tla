----------------------------- MODULE LogOutput -----------------------------
(***************************************************************************)
(* The two halves of logging on one clock: threads that make messages and  *)
(* hand them to output functions (Logging), and the log file behind such a *)
(* function (LogFile), as test/Logging_test.cpp joins them.  A line passes *)
(* from the one to the other in a single call, and LogSink is all the      *)
(* Logger knows of the file, so a behaviour follows one half at a time and *)
(* leaves the other as it began.                                           *)
(***************************************************************************)
EXTENDS Logging

CONSTANTS
    rollSize_, flushInterval_, checkEveryN_, kRollPerSeconds_, Lens,
    MaxTime, MaxLines, MaxJumps, MaxFailures    \* see LogFile

ASSUME LogOutputAssumption ==
    /\ rollSize_ \in Nat /\ flushInterval_ \in Nat /\ Lens \subseteq Nat \ {0}
    /\ checkEveryN_ \in Nat \ {0} /\ kRollPerSeconds_ \in Nat \ {0}
    /\ MaxTime \in Nat \ {0} /\ {MaxLines, MaxJumps, MaxFailures} \subseteq Nat
    /\ MaxSecond <= MaxTime         \* bounds of the same clock

VARIABLES
    half,                                   \* "logger" or "file"
    count_, startOfPeriod_, lastRoll_, lastFlush_, writtenBytes_, buffer, disk,
    alive, calls, lastAppend, late, overdue, failures, jumps    \* see LogFile

F == INSTANCE LogFile

loggerVars == <<globals, cache, pc, msg, sinkVars, inForce, made, sets>>
fileVars == <<count_, startOfPeriod_, lastRoll_, lastFlush_, writtenBytes_, buffer, disk,
              alive, calls, lastAppend, late, overdue, failures, jumps>>
allVars == <<half, now, loggerVars, fileVars>>

InitBoth ==
    \/ half = "logger" /\ Init /\ F!Init
    \/ half = "file" /\ F!Init /\ g_output = (CHOOSE s \in Sinks : TRUE) /\ Unused

NextLogger == half = "logger" /\ Next /\ UNCHANGED <<half, fileVars>>
NextFile == half = "file" /\ F!Next /\ UNCHANGED <<half, loggerVars>>

SpecBoth == InitBoth /\ [][NextLogger \/ NextFile]_allVars

-----------------------------------------------------------------------------
(***************************************************************************)
(* A LogFile is a sink for log lines: in the order of their names its      *)
(* files hold the lines in the order of append(), each once, also when the *)
(* clock is set back between two rolls; a crash loses only a tail, and a   *)
(* line that was appended is lost otherwise only when a write fails.       *)
(***************************************************************************)
IsSink == F!IsSink

(***************************************************************************)
(* What append_unlocked() promises with one chain of conditions: a bound   *)
(* on the size of a file, on the lines of a later period in it, and on the *)
(* time a line stays in the buffer.                                        *)
(***************************************************************************)
Bounded == F!Bounded
=============================================================================

------------------------------- MODULE Logging -------------------------------
(***************************************************************************)
(* base/Logging.cpp: threads that log through a Logger object each, with   *)
(* the time text cached per thread, and the global level, time zone,       *)
(* output and flush functions.  A message is its LogStream, with one       *)
(* character for each field of the header; the functions write to one of   *)
(* several sinks, stdout or a log file, for which a message is its length  *)
(* and its last character.  Other threads and the setters run between the  *)
(* steps of a Logger's life; the pieces a caller streams concern only its  *)
(* own Logger and go with the step that ends it.                           *)
(***************************************************************************)
EXTENDS LogStream, FiniteSets

CONSTANTS
    Threads,
    Zones,              \* valid time zones
    NoZone,             \* the default TimeZone(), which is not valid
    Sinks,              \* where output functions write and flush functions flush
    Levels,             \* levels messages are logged with
    StringLens,         \* lengths of the strings streamed
    DoubleLens,         \* lengths of the texts of floating-point numbers
    MaxPieces,          \* bound: pieces per message
    MaxMessages,        \* bound: messages
    MaxSecond,          \* bound: seconds of the clock
    MaxSets             \* bound: calls of the setters

INFO == 2
WARN == 3
ERROR == 4
FATAL == 5

LineNumber == 7     \* of every message

ASSUME LoggingAssumption ==
    /\ NoZone \notin Zones
    /\ Levels \subseteq 0..FATAL
    /\ Sinks # {} /\ StringLens \subseteq Nat
    /\ DoubleLens \subseteq 0..(kMaxNumericSize - 1)
    /\ MaxSecond \in Nat \ {0} /\ {MaxPieces, MaxMessages, MaxSets} \subseteq Nat
    /\ {2, LineNumber} \subseteq Signed /\ 0 \in Pointers     \* ENOENT, __LINE__ and NULL

(* LogStream::staticCheck(): the longest number fits, with its sign or 0x. *)
ASSUME NumbersFit ==
    /\ \A v \in Signed : Len(convert(v)) < kMaxNumericSize
    /\ \A p \in Pointers : Len(convertHex(p)) + 2 < kMaxNumericSize

VARIABLES
    now,                \* the second Timestamp::now() is in
    g_logLevel, g_logTimeZone, g_output, g_flush,
    t_lastSecond,       \* per thread, 0 at first
    t_time,             \* per thread: the second and the zone the text shows
    pc,                 \* per thread: where its Logger is
    msg,                \* per thread: the message
    out,                \* per sink: messages given to its output function
    durable,            \* per sink: how many of them were flushed
    aborted,
    inForce,            \* history: per second, zones that were g_logTimeZone in it
    made, sets          \* messages begun and setters called

globals == <<g_logLevel, g_logTimeZone, g_output, g_flush>>
cache == <<t_lastSecond, t_time>>
sinkVars == <<out, durable, aborted>>
vars == <<now, globals, cache, pc, msg, sinkVars, inForce, made, sets>>

Seconds == 1..MaxSecond
AnyZone == Zones \cup {NoZone}
Stamps == [second : 0..MaxSecond, zone : AnyZone]

TypeOK ==
    /\ now \in Nat
    /\ g_logLevel \in 0..FATAL /\ g_logTimeZone \in AnyZone
    /\ g_output \in Sinks /\ g_flush \in Sinks
    /\ t_lastSecond \in [Threads -> 0..MaxSecond]
    /\ t_time \in [Threads -> Stamps]
    /\ pc \in [Threads -> {"idle", "refresh", "stamp", "open", "abort", "failed"}]
    /\ \A t \in Threads : Len(msg[t].stream.data) < SIZE
    /\ aborted \in BOOLEAN
    /\ \A s \in Sinks : durable[s] \in 0..Len(out[s])

NoMessage == [level |-> INFO, errno |-> 0, second |-> 0, stampedAt |-> 0,
              stamp |-> [second |-> 0, zone |-> NoZone], stream |-> EmptyStream]

(* Before anything is logged. *)
Unused ==
    /\ g_logLevel = INFO /\ g_logTimeZone = NoZone
    /\ g_flush = g_output
    /\ t_lastSecond = [t \in Threads |-> 0]
    /\ t_time = [t \in Threads |-> [second |-> 0, zone |-> NoZone]]
    /\ pc = [t \in Threads |-> "idle"]
    /\ msg = [t \in Threads |-> NoMessage]
    /\ out = [s \in Sinks |-> <<>>] /\ durable = [s \in Sinks |-> 0]
    /\ aborted = FALSE
    /\ inForce = [s \in Seconds |-> IF s = 1 THEN {NoZone} ELSE {}]
    /\ made = 0 /\ sets = 0

Init ==
    /\ now = 1
    /\ g_output \in Sinks
    /\ Unused

-----------------------------------------------------------------------------
(* A LOG_ macro: below WARN the level is tested first.  Then Impl takes    *)
(* the time.                                                               *)
Log(t, level, errno) ==
    /\ ~aborted
    /\ pc[t] = "idle"
    /\ made < MaxMessages
    /\ level >= WARN \/ g_logLevel <= level
    /\ errno # 0 => level >= ERROR      \* LOG_SYSERR and LOG_SYSFATAL
    /\ made' = made + 1
    /\ msg' = [msg EXCEPT ![t] = [NoMessage EXCEPT
                  !.level = level, !.errno = errno, !.second = now]]
    /\ pc' = [pc EXCEPT ![t] = "refresh"]
    /\ UNCHANGED <<now, globals, cache, sinkVars, inForce, sets>>

(* Mutant: the zone of the first message is kept. *)
RefreshOnce(t) ==
    /\ ~aborted
    /\ pc[t] = "refresh"
    /\ IF msg[t].second # t_lastSecond[t]
       THEN /\ t_lastSecond' = [t_lastSecond EXCEPT ![t] = msg[t].second]
            /\ t_time' = [t_time EXCEPT ![t] = [second |-> msg[t].second,
                   zone |-> IF @.second = 0 THEN g_logTimeZone ELSE @.zone]]
       ELSE UNCHANGED cache
    /\ pc' = [pc EXCEPT ![t] = "stamp"]
    /\ UNCHANGED <<now, globals, msg, sinkVars, inForce, made, sets>>

(* formatTime(): the text is made anew when the second is another one than *)
(* that of the thread's last message.                                      *)
Refresh(t) ==
    /\ ~aborted
    /\ pc[t] = "refresh"
    /\ IF msg[t].second # t_lastSecond[t]
       THEN /\ t_lastSecond' = [t_lastSecond EXCEPT ![t] = msg[t].second]
            /\ t_time' = [t_time EXCEPT ![t] =
                             [second |-> msg[t].second, zone |-> g_logTimeZone]]
       ELSE UNCHANGED cache
    /\ pc' = [pc EXCEPT ![t] = "stamp"]
    /\ UNCHANGED <<now, globals, msg, sinkVars, inForce, made, sets>>

(* Time, microseconds, thread id and level; then the text of errno. *)
Header(errno) ==
    LET fields == append(append(append(append(EmptyStream, <<"t">>), <<"u">>), <<"i">>), <<"l">>)
    IN  IF errno = 0 THEN fields
        ELSE append(formatInteger(append(fields, <<"e">>), errno), <<")">>)

(* The assertion of T, which takes t_tidStringLength for the length of the *)
(* text of the thread id: an id of six digits fails it at the thread's     *)
(* first message, and the process ends without a flush.                    *)
TidAsserts(t) ==
    /\ ~aborted
    /\ pc[t] = "refresh" /\ t_lastSecond[t] = 0
    /\ aborted' = TRUE
    /\ pc' = [pc EXCEPT ![t] = "failed"]
    /\ UNCHANGED <<now, globals, cache, msg, out, durable, inForce, made, sets>>

Stamp(t) ==
    /\ ~aborted
    /\ pc[t] = "stamp"
    /\ msg' = [msg EXCEPT ![t] = [@ EXCEPT !.stamp = t_time[t], !.stampedAt = now,
                                          !.stream = Header(msg[t].errno)]]
    /\ pc' = [pc EXCEPT ![t] = "open"]
    /\ UNCHANGED <<now, globals, cache, sinkVars, inForce, made, sets>>

(* The streams one `<<' may leave; of integers and pointers the ones with  *)
(* the longest text.  A debugger may look at the text.                     *)
Run(c, n) == [i \in 1..n |-> c]
Pieces(s) ==
    {append(s, Run("a", n)) : n \in StringLens}
    \cup {formatInteger(s, Min(Signed)), formatPointer(s, Max(Pointers))}
    \cup {formatDouble(s, Run("f", n)) : n \in DoubleLens}
    \cup {debugString(s)}

(* The streams a caller's `<<', and that of the constructor that takes a   *)
(* function, make of s.                                                    *)
Put(s) ==
    LET streams[n \in 0..MaxPieces] ==
            IF n = 0 THEN {s} ELSE streams[n - 1] \cup UNION {Pieces(x) : x \in streams[n - 1]}
    IN  streams[MaxPieces]

(* finish(): " - ", the file's name, ':', the line's number and '\n'. *)
finish(s) ==
    append(formatInteger(append(append(append(s, <<"-">>), <<"b">>), <<":">>),
                         LineNumber), <<"\n">>)

(* What an output function is given for the message m streamed as s. *)
Line(m, s) ==
    LET line == finish(s)
    IN  [level |-> m.level, second |-> m.second, stampedAt |-> m.stampedAt, stamp |-> m.stamp,
         length |-> Len(line.data), last |-> Last(line.data), top |-> line.top]

(* The caller's pieces, which only its thread sees, and ~Logger(). *)
Output(t) ==
    /\ ~aborted
    /\ pc[t] = "open"
    /\ \E s \in Put(msg[t].stream) :
         out' = [out EXCEPT ![g_output] = Append(@, Line(msg[t], s))]
    /\ msg' = [msg EXCEPT ![t] = NoMessage]
    /\ pc' = [pc EXCEPT ![t] = IF msg[t].level = FATAL THEN "abort" ELSE "idle"]
    /\ UNCHANGED <<now, globals, cache, durable, aborted, inForce, made, sets>>

(* g_flush(); abort(); *)
Abort(t) ==
    /\ ~aborted
    /\ pc[t] = "abort"
    /\ durable' = [durable EXCEPT ![g_flush] = Len(out[g_flush])]
    /\ aborted' = TRUE
    /\ UNCHANGED <<now, globals, cache, pc, msg, out, inForce, made, sets>>

-----------------------------------------------------------------------------
MaySet == ~aborted /\ sets < MaxSets /\ sets' = sets + 1

setLogLevel(level) ==
    /\ MaySet
    /\ g_logLevel' = level
    /\ UNCHANGED <<now, g_logTimeZone, g_output, g_flush, cache, pc, msg, sinkVars, inForce, made>>

setTimeZone(z) ==
    /\ MaySet
    /\ g_logTimeZone' = z
    /\ inForce' = [inForce EXCEPT ![now] = @ \cup {z}]
    /\ UNCHANGED <<now, g_logLevel, g_output, g_flush, cache, pc, msg, sinkVars, made>>

setOutput(s) ==
    /\ MaySet
    /\ g_output' = s
    /\ UNCHANGED <<now, g_logLevel, g_logTimeZone, g_flush, cache, pc, msg, sinkVars, inForce, made>>

setFlush(s) ==
    /\ MaySet
    /\ g_flush' = s
    /\ UNCHANGED <<now, g_logLevel, g_logTimeZone, g_output, cache, pc, msg, sinkVars, inForce, made>>

Tick ==
    /\ now < MaxSecond
    /\ now' = now + 1
    /\ inForce' = [inForce EXCEPT ![now + 1] = {g_logTimeZone}]
    /\ UNCHANGED <<globals, cache, pc, msg, sinkVars, made, sets>>

Next ==
    \/ \E t \in Threads :
         \/ \E level \in Levels, errno \in {0, 2} : Log(t, level, errno)
         \/ Refresh(t) \/ TidAsserts(t) \/ Stamp(t)
         \/ Output(t) \/ Abort(t)
    \/ \E level \in Levels : setLogLevel(level)
    \/ \E z \in AnyZone : setTimeZone(z)
    \/ \E s \in Sinks : setOutput(s) \/ setFlush(s)
    \/ Tick

Spec == Init /\ [][Next]_vars

-----------------------------------------------------------------------------
Outputs == UNION {{out[s][i] : i \in 1..Len(out[s])} : s \in Sinks}

(***************************************************************************)
(* Every message shows the second it was logged in, although threads share *)
(* formatTime() and most messages take the text a former one left.         *)
(***************************************************************************)
StampSecond == \A m \in Outputs : m.stamp.second = m.second

(***************************************************************************)
(* The zone a message shows was set at some time between the beginning of  *)
(* its second and its stamping: the cached text never outlives a change of *)
(* zone by more than the rest of a second.                                 *)
(***************************************************************************)
StampZone ==
    \A m \in Outputs : m.stamp.zone \in UNION {inForce[s] : s \in m.second..m.stampedAt}

(***************************************************************************)
(* A message ends its line, however much was streamed into it, unless the  *)
(* streamed text filled all but the last byte of the buffer.               *)
(***************************************************************************)
LinesEnd ==
    \A m \in Outputs : m.last = "\n" \/ m.length = SIZE - 1

(***************************************************************************)
(* Nothing is written behind the buffer, although convert(), convertHex(), *)
(* snprintf() and debugString() put a NUL behind the text without asking   *)
(* for room: append() leaves a byte and kMaxNumericSize covers the longest *)
(* number.                                                                 *)
(***************************************************************************)
WritesInside == \A m \in Outputs : m.top <= SIZE

(***************************************************************************)
(* When the program has aborted, a fatal message was flushed before,       *)
(* although other threads log between its output and the flush, unless a   *)
(* setter was called or the assertion on a thread id failed.               *)
(***************************************************************************)
FatalFlushed ==
    aborted /\ sets = 0 =>
        \/ \E i \in 1..durable[g_flush] : out[g_flush][i].level = FATAL
        \/ \E t \in Threads : pc[t] = "failed"

(***************************************************************************)
(* However much is streamed into a message, no byte is written behind its  *)
(* buffer and it ends its line, unless the text filled all but the last    *)
(* byte of it; and a fatal one is flushed before the program aborts.       *)
(***************************************************************************)
LinesWhole ==
    /\ TypeOK
    /\ LinesEnd
    /\ WritesInside
    /\ FatalFlushed

(***************************************************************************)
(* The cached text of formatTime() never shows another second, nor a zone  *)
(* that was not in force in the second of the message or since.            *)
(***************************************************************************)
StampsRight ==
    /\ StampSecond
    /\ StampZone
=============================================================================

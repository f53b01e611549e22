------------------------------ MODULE TimeZone ------------------------------
(***************************************************************************)
(* base/TimeZone.cpp: a zone read from a zoneinfo file or with a fixed     *)
(* offset, and the conversions between UTC and local time.  struct tm is   *)
(* the seconds that gmtime_r breaks down, tm_isdst, and where tm_zone      *)
(* points to.  A file may be missing or end early; what is read before     *)
(* stays.                                                                  *)
(***************************************************************************)
EXTENDS Integers, Sequences, FiniteSetsExt

CONSTANTS
    Kinds,              \* kinds of local time that files have
    MaxTypes,           \* bound: kinds in a file
    Changes,            \* instants at which files may change to another kind
    MaxChanges,         \* bound: changes in a file
    charcnt,            \* length of a file's abbreviations
    EastOfUtc,          \* offsets of zones without a file
    Times               \* instants that are converted

VARIABLES
    file,               \* the zone file
    made,               \* how the zone was constructed
    data_,              \* *data_
    time,               \* instant being converted
    tm,                 \* <<toLocalTime(time)>> once it is called
    back                \* <<fromLocalTime(tm)>> once it is called

vars == <<file, made, data_, time, tm, back>>

(* A zone file: the kinds of local time, the changes in order with the     *)
(* index of the kind they lead to, how many kinds can be read before the   *)
(* file ends, none of a file that is missing or ends earlier, and whether  *)
(* the abbreviations can.  rule says that TZ-env or the end of the file,   *)
(* which the code reads neither of, has later changes.  That indices name  *)
(* kinds and instants ascend is not checked, and taken from the format.    *)
Files ==
    {f \in [types : UNION {[1..n -> Kinds] : n \in 0..MaxTypes},
            changes : UNION {[1..n -> [at : Changes, idx : 1..MaxTypes]] : n \in 0..MaxChanges},
            read : 0..MaxTypes, chars : BOOLEAN, rule : BOOLEAN] :
       /\ \A i \in DOMAIN f.changes : f.changes[i].idx <= Len(f.types)
       /\ \A i, j \in DOMAIN f.changes : i < j => f.changes[i].at < f.changes[j].at
       /\ f.read <= Len(f.types)
       /\ f.chars => f.read = Len(f.types)}

(* Of the abbreviations only the length counts. *)
Empty == [localtimes |-> <<>>, transitions |-> <<>>, abbreviation |-> 0]

(* TimeZone() {}: not valid. *)
Init ==
    /\ file \in Files
    /\ made = "default"
    /\ data_ = Empty
    /\ time \in Times
    /\ tm = <<>> /\ back = <<>>

(* data_ points to something. *)
valid == made # "default"

-----------------------------------------------------------------------------
Transitions(f) ==
    [i \in 1..Len(f.changes) |->
        [gmttime |-> f.changes[i].at,
         localtime |-> f.changes[i].at + f.types[f.changes[i].idx].gmtOffset,
         localtimeIdx |-> f.changes[i].idx]]

(* A logic_error leaves data as it is at that point, and the result is     *)
(* true in every case.                                                     *)
readTimeZoneFile(f) ==
    [localtimes |-> SubSeq(f.types, 1, f.read),
     transitions |-> IF f.read = Len(f.types) THEN Transitions(f) ELSE <<>>,
     abbreviation |-> IF f.chars THEN charcnt ELSE 0]

FromFile ==
    /\ made = "default"
    /\ made' = "file"
    /\ data_' = readTimeZoneFile(file)
    /\ UNCHANGED <<file, time, tm, back>>

(* The name, of which the first character counts, may be empty. *)
FromOffset(eastOfUtc) ==
    /\ made = "default"
    /\ made' = "offset"
    /\ data_' = [Empty EXCEPT !.localtimes =
                     <<[gmtOffset |-> eastOfUtc, isDst |-> FALSE, arrbIdx |-> 0]>>]
    /\ UNCHANGED <<file, time, tm, back>>

-----------------------------------------------------------------------------

(* lower_bound finds the first transition that is not before key; unless   *)
(* it is at key, the one before it is in force.                            *)
findLocaltime(data, key, compareGmt) ==
    LET keyOf(t) == IF compareGmt THEN t.gmttime ELSE t.localtime
        trans == data.transitions
        later == {i \in 1..Len(trans) : keyOf(trans[i]) >= key}
        transI == Min(later)
    IN  IF trans = <<>> \/ key < keyOf(trans[1]) THEN data.localtimes[1]
        ELSE IF later = {} THEN data.localtimes[trans[Len(trans)].localtimeIdx]
        ELSE IF keyOf(trans[transI]) = key THEN data.localtimes[trans[transI].localtimeIdx]
        ELSE data.localtimes[trans[transI - 1].localtimeIdx]

toLocalTime(data, seconds) ==
    LET local == findLocaltime(data, seconds, TRUE)
    IN  [seconds |-> seconds + local.gmtOffset, isDst |-> local.isDst,
         zone |-> local.arrbIdx]

HourAndMinute(seconds) == (seconds % 86400) \div 60

(* Mutant: the hour that comes twice is not looked at. *)
fromLocalTimePlain(data, localTm) ==
    LET local == findLocaltime(data, localTm.seconds, FALSE)
    IN  localTm.seconds - local.gmtOffset

(* A daylight saving time in the hour that comes twice is found as a       *)
(* standard time and put back by 3600 seconds.                             *)
fromLocalTime(data, localTm) ==
    LET seconds == localTm.seconds
        local == findLocaltime(data, seconds, FALSE)
        tryTm == toLocalTime(data, seconds - local.gmtOffset)
        twice == /\ localTm.isDst /\ ~tryTm.isDst
                 /\ HourAndMinute(tryTm.seconds) = HourAndMinute(seconds)
    IN  (IF twice THEN seconds - 3600 ELSE seconds) - local.gmtOffset

(* Without a kind of local time the conversions read an empty vector; what *)
(* they return then is not modelled.                                       *)
Usable == valid /\ data_.localtimes # <<>>

ToLocal ==
    /\ Usable
    /\ tm = <<>>
    /\ tm' = <<toLocalTime(data_, time)>>
    /\ UNCHANGED <<file, made, data_, time, back>>

(* lower_bound needs the transitions in order, also by local time; what it *)
(* finds when they are not is not modelled.                                *)
InOrder(data) ==
    \A i, j \in DOMAIN data.transitions :
        i < j => data.transitions[i].localtime <= data.transitions[j].localtime

FromLocal ==
    /\ tm # <<>> /\ back = <<>>
    /\ InOrder(data_)
    /\ back' = <<fromLocalTime(data_, tm[1])>>
    /\ UNCHANGED <<file, made, data_, time, tm>>

Next ==
    \/ FromFile \/ (\E eastOfUtc \in EastOfUtc : FromOffset(eastOfUtc))
    \/ ToLocal \/ FromLocal

Spec == Init /\ [][Next]_vars

-----------------------------------------------------------------------------
(* The zone is what a file says whose kinds and changes could be read. *)
Read == made = "file" /\ file.read = Len(file.types)

(* The kind of local time in force at instant t: that of the last change   *)
(* before it, and standard time before the first.                          *)
InForce(f, t) ==
    LET past == {i \in DOMAIN f.changes : f.changes[i].at <= t}
    IN  IF past = {} THEN f.types[Min({i \in DOMAIN f.types : ~f.types[i].isDst})]
        ELSE f.types[f.changes[Max(past)].idx]

(* What the code leaves open: files that begin with daylight saving time   *)
(* ("FIXME: should be first non dst time zone", TimeZone.cpp:230), and     *)
(* instants for which a rule counts that it does not read ("FIXME: use     *)
(* TZ-env", TimeZone.cpp:250).                                             *)
Told(f, t) ==
    /\ ~f.types[1].isDst \/ \E i \in DOMAIN f.changes : f.changes[i].at <= t
    /\ f.rule => \E i \in DOMAIN f.changes : t < f.changes[i].at

(***************************************************************************)
(* Every instant is shown with the offset in force at it, on both sides of *)
(* each change, except where the code leaves open which one that is.       *)
(***************************************************************************)
LocalRight ==
    (Read /\ tm # <<>> /\ Told(file, time)) =>
        LET local == InForce(file, time)
        IN  tm[1].seconds = time + local.gmtOffset /\ tm[1].isDst = local.isDst

(* The kinds of local time before and after the i-th change. *)
Before(f, i) == f.types[IF i = 1 THEN 1 ELSE f.changes[i - 1].idx]
After(f, i) == f.types[f.changes[i].idx]

(* The i-th change sets the clock back, and so comes to the local time     *)
(* once more that instant t had before it.                                 *)
Repeats(f, i, t) ==
    /\ f.changes[i].at - (Before(f, i).gmtOffset - After(f, i).gmtOffset) <= t
    /\ t < f.changes[i].at

(* It ends daylight saving time of an hour. *)
EndsHour(f, i) ==
    /\ Before(f, i).isDst /\ ~After(f, i).isDst
    /\ Before(f, i).gmtOffset - After(f, i).gmtOffset = 3600

(* Between two changes passes more time than between any two local times. *)
Spaced(f) ==
    \A i, j \in DOMAIN f.changes, a, b \in DOMAIN f.types :
        i < j => f.changes[j].at - f.changes[i].at > f.types[b].gmtOffset - f.types[a].gmtOffset

(***************************************************************************)
(* fromLocalTime() undoes toLocalTime() for every instant but those before *)
(* a change that sets the clock back and is not the end of a daylight      *)
(* saving time of one hour, which is the only one it knows ("FIXME: HACK", *)
(* TimeZone.cpp:316); for these it returns another instant.                *)
(***************************************************************************)
RoundTrip ==
    (back # <<>> /\ Spaced(file)) =>
        (back[1] = time <=>
            (Read => \A i \in DOMAIN file.changes :
                         Repeats(file, i, time) => EndsHour(file, i)))

(***************************************************************************)
(* tm_zone points into the abbreviations, or to the NUL at their end,      *)
(* unless the file ended before they were read: then just the kinds that   *)
(* have the first abbreviation are so lucky.                               *)
(***************************************************************************)
ZoneNamed ==
    tm # <<>> =>
        (tm[1].zone > data_.abbreviation <=>
            made = "file" /\ ~file.chars /\ tm[1].zone > 0)
=============================================================================

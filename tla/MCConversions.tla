---------------------------- MODULE MCConversions ----------------------------
EXTENDS Conversions

(* The years Date.h names, in decades. *)
Decades == {1900 + 10 * i : i \in 0..60}

(* Two standard times, and daylight saving of an hour and of half of one. *)
LocalKinds ==
    {[gmtOffset |-> 28800, isDst |-> FALSE, arrbIdx |-> 0],
     [gmtOffset |-> 25200, isDst |-> FALSE, arrbIdx |-> 4],
     [gmtOffset |-> 32400, isDst |-> TRUE, arrbIdx |-> 8],
     [gmtOffset |-> 30600, isDst |-> TRUE, arrbIdx |-> 8]}

(* Changes that are near and far, and instants on both sides of them. *)
HalfHours(n) == {1800 * i : i \in 0..n}
ChangeTimes == {0, 1800, 5400, 10800}
AllTimes == {60 * i : i \in {-121, -120, -60, -1, 179, 180, 181}} \cup HalfHours(8)
=============================================================================

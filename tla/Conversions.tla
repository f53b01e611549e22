---------------------------- MODULE Conversions ----------------------------
(***************************************************************************)
(* The conversions of base: dates (Date), local times (TimeZone), the      *)
(* digits of numbers (LogStream) and pieces of text (StringPiece).  They   *)
(* share nothing, so a behaviour looks at one subject and leaves the       *)
(* variables of the others as they began: it walks through a calendar,     *)
(* makes a zone and converts an instant there and back, counts from the    *)
(* least integer upwards, or cuts a piece of text.                         *)
(***************************************************************************)
EXTENDS Date, Sequences

CONSTANTS
    Kinds, MaxTypes, Changes, MaxChanges,           \* see TimeZone
    charcnt, EastOfUtc, Times,
    Bits, PointerBits,                              \* see LogStream
    Chars, MaxText                                  \* see StringPiece

ASSUME ConversionAssumption ==
    /\ Kinds \subseteq [gmtOffset : Int, isDst : BOOLEAN, arrbIdx : 0..(charcnt - 1)]
    /\ MaxTypes \in Nat /\ MaxChanges \in Nat /\ charcnt \in Nat /\ EastOfUtc \subseteq Int
    /\ Changes \subseteq Int /\ Times \subseteq Int /\ Times # {}
    /\ Bits \in Nat \ {0} /\ PointerBits \in Nat \ {0}
    /\ Chars \subseteq 0..255 /\ MaxText \in Nat

(* Of ^ the provers know that its value is an integer, and no more. *)
ASSUME WidthAssumption == 2^(Bits - 1) > 0

VARIABLES
    subject,
    file, made, data_, time, tm, back,              \* see TimeZone
    number,
    piece, other                                    \* see StringPiece

zoneVars == <<file, made, data_, time, tm, back>>
pieceVars == <<piece, other>>
allVars == <<subject, calendarVars, zoneVars, number, pieceVars>>

Z == INSTANCE TimeZone
L == INSTANCE LogStream WITH SIZE <- 2, kMaxNumericSize <- 1
P == INSTANCE StringPiece

Least == -(2^(Bits - 1))

CalendarRests ==
    /\ today = [year |-> 1970, month |-> 1, day |-> 1]
    /\ dayCount = DaysBefore(1970)
    /\ yearDay = 0

ZoneRests ==
    /\ file = CHOOSE f \in Z!Files : TRUE
    /\ made = "default"
    /\ data_ = Z!Empty
    /\ time = CHOOSE t \in Times : TRUE
    /\ tm = <<>> /\ back = <<>>

PieceRests == piece = P!OfString(<<>>) /\ other = piece

InitAll ==
    /\ number = Least
    /\ \/ subject = "calendar" /\ CalendarInit /\ ZoneRests /\ PieceRests
       \/ subject = "zone" /\ CalendarRests /\ Z!Init /\ PieceRests
       \/ subject = "number" /\ CalendarRests /\ ZoneRests /\ PieceRests
       \/ subject = "text" /\ CalendarRests /\ ZoneRests /\ P!Init

NextDate ==
    /\ subject = "calendar"
    /\ CalendarNext
    /\ UNCHANGED <<subject, zoneVars, number, pieceVars>>

NextZone ==
    /\ subject = "zone"
    /\ Z!Next
    /\ UNCHANGED <<subject, calendarVars, number, pieceVars>>

NextNumber ==
    /\ subject = "number"
    /\ number + 1 \in L!Signed
    /\ number' = number + 1
    /\ UNCHANGED <<subject, calendarVars, zoneVars, pieceVars>>

NextPiece ==
    /\ subject = "text"
    /\ P!Next
    /\ UNCHANGED <<subject, calendarVars, zoneVars, number>>

NextAll == NextDate \/ NextZone \/ NextNumber \/ NextPiece

SpecAll == InitAll /\ [][NextAll]_allVars

-----------------------------------------------------------------------------
(* Properties of TimeZone, LogStream and StringPiece; Date has its own. *)

(***************************************************************************)
(* TimeZone::toLocalTime() shows every instant with the offset in force at *)
(* it, on both sides of each change.  Not claimed where the code says      *)
(* itself that it may be wrong: before the first change of a file that     *)
(* begins with daylight saving time (FIXME at TimeZone.cpp:230), and after *)
(* the last one when a rule goes on (FIXME at :250).                       *)
(***************************************************************************)
LocalRight == Z!LocalRight

(***************************************************************************)
(* fromLocalTime() returns to the instant that toLocalTime() was given,    *)
(* unless a change repeats its local time that is not the end of one hour  *)
(* of daylight saving; then it never does.                                 *)
(***************************************************************************)
RoundTrip == Z!RoundTrip

(***************************************************************************)
(* tm_zone, which toLocalTime() sets, points into the abbreviations,       *)
(* unless readTimeZoneFile() ended before them and the kind of local time  *)
(* has another abbreviation than the first.                                *)
(***************************************************************************)
ZoneNamed == Z!ZoneNamed

(* The value of a text of digits, by place. *)
Digit(c) == CHOOSE d \in 0..15 : L!digitsHex[d + 1] = c
Value(text, base) ==
    LET v[i \in 0..Len(text)] == IF i = 0 THEN 0 ELSE base * v[i - 1] + Digit(text[i])
    IN  v[Len(text)]

(* A text of digits that has the value v and no needless zero before it. *)
Denotes(text, base, v) ==
    /\ text # <<>>
    /\ Value(text, base) = v
    /\ text[1] = "0" => Len(text) = 1

(***************************************************************************)
(* convert() writes the decimal numeral of every integer, with a sign just *)
(* for the negative ones, the least one included, which it never negates;  *)
(* convertHex() writes the hexadecimal numeral of every address.           *)
(***************************************************************************)
NumeralsRight ==
    LET text == L!convert(number)
        address == number - Least
    IN  /\ IF number < 0
           THEN text[1] = "-" /\ Denotes(Tail(text), 10, -number)
           ELSE Denotes(text, 10, number)
        /\ address \in L!Pointers => Denotes(L!convertHex(address), 16, address)

(***************************************************************************)
(* Pieces of text are compared as the texts they stand for wherever they   *)
(* point, and the name of the process is found whatever it is.             *)
(***************************************************************************)
PiecesRight == P!OrderRight /\ P!NameFound

(***************************************************************************)
(* Numbers and addresses are written as their numerals, pieces of text are *)
(* compared as the texts they stand for wherever they point, and the name  *)
(* of the process is found whatever it is.                                 *)
(***************************************************************************)
TextRight ==
    /\ subject = "number" => NumeralsRight
    /\ subject = "text" => PiecesRight

(***************************************************************************)
(* For a zone file that is well formed but may end anywhere, with any      *)
(* kinds of local time and changes: local times have the offset in force,  *)
(* come back to their instants, and point to names, but for exactly the    *)
(* cases that the three parts except.                                      *)
(***************************************************************************)
ZoneRight ==
    /\ LocalRight
    /\ RoundTrip
    /\ ZoneNamed
=============================================================================

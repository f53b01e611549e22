------------------------------ MODULE LogStream ------------------------------
(***************************************************************************)
(* base/LogStream.h and base/LogStream.cpp: the text a LogStream builds in *)
(* its FixedBuffer.  A stream is a record of data, the characters before   *)
(* cur_, and top, the number of bytes from data_ on that were ever written *)
(* to, since some writers put a NUL behind their text.  Every operator     *)
(* gives the stream after one `<<'; a piece that does not fit is left out  *)
(* whole and silently.                                                     *)
(***************************************************************************)
EXTENDS Integers, Sequences, SequencesExt

CONSTANTS
    SIZE,               \* bytes of data_
    kMaxNumericSize,    \* room asked for before a number is converted
    Bits,               \* width of a signed integer
    PointerBits         \* width of uintptr_t

ASSUME BufferAssumption ==
    /\ SIZE \in Nat \ {0} /\ kMaxNumericSize \in Nat
    /\ Bits \in Nat \ {0} /\ PointerBits \in Nat \ {0}

Signed == -(2^(Bits - 1))..(2^(Bits - 1) - 1)
Pointers == 0..(2^PointerBits - 1)

EmptyStream == [data |-> <<>>, top |-> 0]

avail(s) == SIZE - Len(s.data)

(* The stream after text is added, nul bytes behind it written too. *)
Extended(s, text, nul) ==
    LET end == Len(s.data) + Len(text) + nul
    IN  [data |-> s.data \o text, top |-> IF end > s.top THEN end ELSE s.top]

(* FixedBuffer::append, for strings, characters, bool, Fmt and buffers; a  *)
(* null const char* is the string "(null)".                                *)
append(s, text) == IF avail(s) > Len(text) THEN Extended(s, text, 0) ELSE s

-----------------------------------------------------------------------------
(* i / d and i % d of C, which round towards zero. *)
Quotient(i, d) == IF i >= 0 THEN i \div d ELSE -((-i) \div d)
Remainder(i, d) == i - d * Quotient(i, d)

digits == <<"9", "8", "7", "6", "5", "4", "3", "2", "1", "0",
            "1", "2", "3", "4", "5", "6", "7", "8", "9">>
zero(lsd) == digits[lsd + 10]

digitsHex == <<"0", "1", "2", "3", "4", "5", "6", "7",
               "8", "9", "A", "B", "C", "D", "E", "F">>

(* The do-while loops: the digits from the last one on. *)
Reversed[i \in Signed] ==
    <<zero(Remainder(i, 10))>> \o
    (IF Quotient(i, 10) # 0 THEN Reversed[Quotient(i, 10)] ELSE <<>>)

ReversedHex[i \in Pointers] ==
    <<digitsHex[(i % 16) + 1]>> \o
    (IF i \div 16 # 0 THEN ReversedHex[i \div 16] ELSE <<>>)

convert(value) ==
    Reverse(Reversed[value] \o (IF value < 0 THEN <<"-">> ELSE <<>>))

convertHex(value) == Reverse(ReversedHex[value])

-----------------------------------------------------------------------------
(* Mutant: room is asked for strings only. *)
formatAnywhere(s, v) == Extended(s, convert(v), 1)

(* The conversions end their text with a NUL. *)
formatInteger(s, v) ==
    IF avail(s) >= kMaxNumericSize THEN Extended(s, convert(v), 1) ELSE s

formatPointer(s, p) ==
    IF avail(s) >= kMaxNumericSize
    THEN Extended(s, <<"0", "x">> \o convertHex(p), 1) ELSE s

(* snprintf("%.12g") gives the text. *)
formatDouble(s, text) ==
    IF avail(s) >= kMaxNumericSize THEN Extended(s, text, 1) ELSE s

(* For the debugger: the text as a C string. *)
debugString(s) == Extended(s, <<>>, 1)
=============================================================================

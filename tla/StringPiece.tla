---------------------------- MODULE StringPiece ----------------------------
(***************************************************************************)
(* StringPiece and StringArg of base/StringPiece.h, and the one use of     *)
(* them that looks for something, ProcessInfo::procname().  A piece points *)
(* into a memory that other code owns: the characters of a string and the  *)
(* NUL that c_str() has behind them.  Characters are their unsigned codes. *)
(***************************************************************************)
EXTENDS Integers, Sequences, FiniteSetsExt

CONSTANTS
    Chars,          \* the characters texts are made of, 0 may be among them
    MaxText         \* bounds the length of texts

VARIABLES
    piece,          \* a StringPiece: memory, ptr_ (an offset) and length_
    other           \* the StringPiece it is compared with

pieceVars == <<piece, other>>

Texts == UNION {[1..n -> Chars] : n \in 0..MaxText}

Left == 40          \* '('
Right == 41         \* ')'

-----------------------------------------------------------------------------
(* The n-th character from p's pointer on, from 0. *)
Char(p, n) == p.memory[p.ptr_ + n + 1]

strlen(s) == Min({n \in 0..Len(s) : Append(s, 0)[n + 1] = 0})

(* The constructor from a string, and the one from a C string, which reads *)
(* as far as the NUL, as do the users of a StringArg.                      *)
OfString(s) == [memory |-> Append(s, 0), ptr_ |-> 0, length_ |-> Len(s)]
OfChars(s) == [OfString(s) EXCEPT !.length_ = strlen(s)]

(* set() with a pointer into a string and a length *)
OfPart(s, from, len) == [OfString(s) EXCEPT !.ptr_ = from, !.length_ = len]

as_string(p) == [n \in 1..p.length_ |-> Char(p, n - 1)]

(* memcmp() of the C library: the sign of the first difference. *)
memcmp(p, q, n) ==
    LET differ == {i \in 0..(n - 1) : Char(p, i) # Char(q, i)}
        first  == Min(differ)
    IN  CASE differ = {} -> 0
          [] differ # {} /\ Char(p, first) < Char(q, first) -> -1
          [] differ # {} /\ Char(p, first) > Char(q, first) -> 1

Common(p, q) == IF p.length_ < q.length_ THEN p.length_ ELSE q.length_

equals(p, q) == p.length_ = q.length_ /\ memcmp(p, q, p.length_) = 0

(* STRINGPIECE_BINARY_PREDICATE for < and <=, which both use < on the      *)
(* characters; > and >= are the same with the pieces exchanged.            *)
less(p, q) ==
    LET r == memcmp(p, q, Common(p, q))
    IN  r < 0 \/ (r = 0 /\ p.length_ < q.length_)

lessOrEqual(p, q) ==
    LET r == memcmp(p, q, Common(p, q))
    IN  r < 0 \/ (r = 0 /\ p.length_ <= q.length_)

compare(p, q) ==
    LET r == memcmp(p, q, Common(p, q))
    IN  CASE r # 0 -> r
          [] r = 0 /\ p.length_ < q.length_ -> -1
          [] r = 0 /\ p.length_ > q.length_ -> 1
          [] r = 0 /\ p.length_ = q.length_ -> 0

starts_with(p, q) == p.length_ >= q.length_ /\ memcmp(p, q, q.length_) = 0

(***************************************************************************)
(* procname(stat) is the text between the first '(' and the last ')' of    *)
(* /proc/self/stat, empty when they are not there in this order.           *)
(***************************************************************************)
procnameShort(stat) ==                                             \* mutant
    LET lps == {i \in 1..Len(stat) : stat[i] = Left}
        rps == {i \in 1..Len(stat) : stat[i] = Right}
    IN  IF lps # {} /\ rps # {} /\ Min(lps) < Min(rps)
        THEN OfPart(stat, Min(lps), Min(rps) - Min(lps) - 1)
        ELSE OfPart(stat, 0, 0)

procname(stat) ==
    LET lps == {i \in 1..Len(stat) : stat[i] = Left}
        rps == {i \in 1..Len(stat) : stat[i] = Right}
    IN  IF lps # {} /\ rps # {} /\ Min(lps) < Max(rps)
        THEN OfPart(stat, Min(lps), Max(rps) - Min(lps) - 1)
        ELSE OfPart(stat, 0, 0)

-----------------------------------------------------------------------------
Init ==
    /\ piece \in {OfString(s) : s \in Texts} \cup {OfChars(s) : s \in Texts}
    /\ other \in {OfString(s) : s \in Texts}

(* The caller removes no more than there is. *)
remove_prefix ==
    \E n \in 1..piece.length_ :
        piece' = [piece EXCEPT !.ptr_ = @ + n, !.length_ = @ - n]

remove_suffix ==
    \E n \in 1..piece.length_ :
        piece' = [piece EXCEPT !.length_ = @ - n]

Next == (remove_prefix \/ remove_suffix) /\ UNCHANGED other

-----------------------------------------------------------------------------
(* s precedes t: t goes on behind s, or has the greater character where    *)
(* they part.                                                              *)
Precedes(s, t) ==
    \E n \in 0..Len(s) :
        /\ n <= Len(t) /\ SubSeq(s, 1, n) = SubSeq(t, 1, n)
        /\ n < Len(t)
        /\ n = Len(s) \/ s[n + 1] < t[n + 1]

(***************************************************************************)
(* The six operators and compare() are one total order, that of the texts  *)
(* the pieces stand for, wherever in memory they stand and with NULs in    *)
(* them; starts_with() is right about every prefix.                        *)
(***************************************************************************)
OrderRight ==
    LET s == as_string(piece)
        t == as_string(other)
    IN  /\ equals(piece, other) <=> s = t
        /\ less(piece, other) <=> Precedes(s, t)
        /\ less(other, piece) <=> Precedes(t, s)
        /\ lessOrEqual(piece, other) <=> ~Precedes(t, s)
        /\ lessOrEqual(other, piece) <=> ~Precedes(s, t)
        /\ compare(piece, other) < 0 <=> Precedes(s, t)
        /\ compare(piece, other) = 0 <=> s = t
        /\ starts_with(piece, other) <=>
              \E n \in 0..Len(s) : SubSeq(s, 1, n) = t

(***************************************************************************)
(* Whatever a process is called, parentheses included, procname() finds    *)
(* the whole name between the number and the rest of a stat line, neither  *)
(* of which has parentheses.                                               *)
(***************************************************************************)
NameFound ==
    LET name == as_string(other)
        stat == <<50, 32, Left>> \o name \o <<Right, 32, 83>>
    IN  as_string(procname(stat)) = name
=============================================================================

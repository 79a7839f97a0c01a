------------------------------ MODULE ByteRange ------------------------------
(***************************************************************************)
(* Which row keys HBaseORM.scan asks for: bytes_increment and the bounds   *)
(* that scan derives from row_prefix (storages/hbase/models/base.py).      *)
(*                                                                         *)
(* A byte string is a sequence of bytes 0..Top; Top stands for 0xFF.       *)
(***************************************************************************)
EXTENDS Integers, Sequences

CONSTANTS
    Top,     \* the largest byte
    MaxLen,  \* bound on the length of the keys and prefixes
    None     \* None in Python

ASSUME TopAssumption == Top \in Nat
ASSUME MaxLenAssumption == MaxLen \in Nat

Byte == 0..Top
Strings == UNION {[1..n -> Byte] : n \in 0..MaxLen}

ASSUME NoneAssumption == None \notin Seq(Byte)

VARIABLES
    prefix,   \* row_prefix
    reverse,  \* reverse
    start,    \* start_row of the Scan
    stop,     \* stop_row of the Scan
    pc        \* "called", "scan", or "TypeError"

vars == <<prefix, reverse, start, stop, pc>>

-----------------------------------------------------------------------------
(* Byte strings. *)

IsPrefixOf(p, s) == Len(p) <= Len(s) /\ \A i \in 1..Len(p) : s[i] = p[i]

\* s sorts before t: t continues s, or is larger where they first differ.
Before(s, t) ==
    \E i \in 1..(Len(s) + 1) :
        /\ \A j \in 1..(i - 1) : j <= Len(t) /\ s[j] = t[j]
        /\ i <= Len(t)
        /\ i <= Len(s) => s[i] < t[i]

\* The positions that bytes_increment may increment.
Incrementable(b) == {i \in 1..Len(b) : b[i] # Top}

\* Mutant: what follows the incremented byte is kept.
BytesIncrementKeepsTail(b) ==
    IF Incrementable(b) = {} THEN None
    ELSE LET i == CHOOSE i \in Incrementable(b) : \A j \in Incrementable(b) : j <= i
         IN  [b EXCEPT ![i] = @ + 1]
\* The last byte that can be incremented is, and the string ends there.
BytesIncrement(b) ==
    IF Incrementable(b) = {} THEN None
    ELSE LET i == CHOOSE i \in Incrementable(b) : \A j \in Incrementable(b) : j <= i
         IN  [j \in 1..i |-> IF j = i THEN b[i] + 1 ELSE b[j]]

-----------------------------------------------------------------------------
(* HBase: from start, included, to stop, excluded, in the direction asked.  *)
(* A bound that is None or empty is no bound; no row key is empty.          *)

RowKeys == Strings \ {<<>>}
Unbounded(b) == b = None \/ b = <<>>
InScan(s) ==
    IF reverse
    THEN (Unbounded(start) \/ ~Before(start, s)) /\ (Unbounded(stop) \/ Before(stop, s))
    ELSE (Unbounded(start) \/ ~Before(s, start)) /\ (Unbounded(stop) \/ Before(s, stop))

-----------------------------------------------------------------------------
Init ==
    /\ prefix \in Strings \union {None}
    /\ reverse \in BOOLEAN
    /\ start \in Strings \union {None}
    /\ stop \in Strings \union {None}
    /\ pc = "called"

Upper(p) == BytesIncrement(p)

\* row_prefix comes with no other bound.
Refuse ==
    /\ pc = "called" /\ prefix # None
    /\ start # None \/ stop # None
    /\ pc' = "TypeError"
    /\ UNCHANGED <<prefix, reverse, start, stop>>

PrefixBounds ==
    /\ pc = "called" /\ prefix # None /\ start = None /\ stop = None
    /\ IF reverse THEN start' = Upper(prefix) /\ stop' = prefix
                  ELSE start' = prefix /\ stop' = Upper(prefix)
    /\ pc' = "scan"
    /\ UNCHANGED <<prefix, reverse>>

GivenBounds ==
    /\ pc = "called" /\ prefix = None
    /\ pc' = "scan"
    /\ UNCHANGED <<prefix, reverse, start, stop>>

Next == Refuse \/ PrefixBounds \/ GivenBounds

Spec == Init /\ [][Next]_vars

-----------------------------------------------------------------------------
(* Properties. *)

\* The types of the bounds.
TypeOK ==
    /\ prefix \in Strings \union {None}
    /\ reverse \in BOOLEAN
    /\ start \in Strings \union {None}
    /\ stop \in Strings \union {None}
    /\ pc \in {"called", "scan", "TypeError"}

\* A forward scan of a prefix asks for the keys with this prefix and for no
\* other, up to the prefixes of nothing but 0xFF and the empty one.
ForwardPrefix ==
    pc = "scan" /\ prefix # None /\ ~reverse =>
        \A s \in RowKeys : InScan(s) <=> IsPrefixOf(prefix, s)

\* A reverse scan of a prefix is off by one at both ends: the bounds are those
\* of the forward scan exchanged, but the first is included and the last is not.
\* It asks for the keys with this prefix but the prefix itself, and for the
\* first key that sorts after all of them.
ReversePrefix ==
    pc = "scan" /\ prefix # None /\ reverse =>
        \A s \in RowKeys :
            InScan(s) <=> (IsPrefixOf(prefix, s) /\ s # prefix) \/ s = BytesIncrement(prefix)

\* Which rows scan(row_prefix=p) asks for, in both directions.
PrefixScan == ForwardPrefix /\ ReversePrefix

=============================================================================

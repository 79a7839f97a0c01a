---------------------------- MODULE HelperProofs ----------------------------
(***************************************************************************)
(* What is proved of the parts that stand alone: ByteRange, Uuids, Fields, *)
(* ClickHouse and Logging.                                                 *)
(*                                                                         *)
(* The order of byte strings is decided at the first position where two    *)
(* strings differ, and bytes_increment works at the last byte that is not  *)
(* Top; both positions exist because a nonempty set of naturals has a      *)
(* least element.  The order of UUIDs is read off the same way.  A field   *)
(* is followed through one round of loading and saving, and a listing      *)
(* through its two statements.  A log record is followed from its logger   *)
(* to root, in whatever state the start has left the handlers.             *)
(***************************************************************************)
EXTENDS ByteRange, Uuids, Fields, ClickHouse, Logging, TLAPS, WellFoundedInduction, FiniteSetTheorems

-----------------------------------------------------------------------------
(* ByteRange. *)

LEMMA ByteType ==
    ASSUME NEW b \in Seq(Byte), NEW i \in 1..Len(b)
    PROVE  b[i] \in Byte /\ b[i] \in Int /\ 0 <= b[i] /\ b[i] <= Top
<1>1. b[i] \in Byte
  OBVIOUS
<1>2. QED BY <1>1, TopAssumption DEF Byte

LEMMA Least ==
    ASSUME NEW T \in SUBSET Nat, T # {}
    PROVE  \E x \in T : \A y \in T : x <= y
<1> DEFINE R == OpToRel(<, Nat)
<1>1. IsWellFoundedOn(R, Nat)
  BY NatLessThanWellFounded
<1>2. \A x, y \in Nat : x < y => <<x, y>> \in R
  BY DEF OpToRel
<1> HIDE DEF R
<1>3. PICK x \in T : \A y \in T : ~(<<y, x>> \in R)
  BY <1>1, WFMin
<1>4. \A y \in T : ~(y < x)
  BY <1>2, <1>3
<1>5. QED BY <1>4

LEMMA Greatest ==
    ASSUME NEW n \in Nat, NEW T \in SUBSET (1..n), T # {}
    PROVE  \E x \in T : \A y \in T : y <= x
<1> DEFINE M == {k \in 0..n : n - k \in T}
<1>1. M \in SUBSET Nat /\ M # {}
  <2>1. PICK t \in T : TRUE
    OBVIOUS
  <2>2. t \in 1..n
    OBVIOUS
  <2>3. n - t \in 0..n /\ n - (n - t) = t
    BY <2>2
  <2>4. n - t \in M
    BY <2>3
  <2>5. M \in SUBSET Nat
    OBVIOUS
  <2>6. QED BY <2>4, <2>5
<1>2. PICK k \in M : \A m \in M : k <= m
  BY <1>1, Least
<1>3. n - k \in T
  BY <1>2
<1>4. ASSUME NEW y \in T PROVE y <= n - k
  <2>1. n - y \in 0..n /\ n - (n - y) = y
    OBVIOUS
  <2>2. n - y \in M
    BY <2>1
  <2>3. k <= n - y
    BY <1>2, <2>2
  <2>4. k \in 0..n
    BY <1>2
  <2>5. QED BY <2>3, <2>4
<1>5. QED BY <1>3, <1>4

\* bytes_increment at the position it works at.
LEMMA Incremented ==
    ASSUME NEW b \in Seq(Byte), Incrementable(b) # {}
    PROVE  \E i \in 1..Len(b) :
              /\ b[i] # Top
              /\ \A j \in 1..Len(b) : i < j => b[j] = Top
              /\ BytesIncrement(b) = [j \in 1..i |-> IF j = i THEN b[i] + 1 ELSE b[j]]
              /\ BytesIncrement(b) \in [1..i -> Byte]
<1> DEFINE i == CHOOSE i \in Incrementable(b) : \A j \in Incrementable(b) : j <= i
<1>1. Incrementable(b) \in SUBSET (1..Len(b)) /\ Len(b) \in Nat
  BY DEF Incrementable
<1>2. \E x \in Incrementable(b) : \A y \in Incrementable(b) : y <= x
  BY <1>1, Greatest
<1>3. i \in Incrementable(b) /\ \A j \in Incrementable(b) : j <= i
  BY <1>2
<1>4. BytesIncrement(b) = [j \in 1..i |-> IF j = i THEN b[i] + 1 ELSE b[j]]
  BY DEF BytesIncrement
<1> HIDE DEF i
<1>5. i \in 1..Len(b) /\ b[i] # Top
  BY <1>3 DEF Incrementable
<1>6. \A j \in 1..Len(b) : i < j => b[j] = Top
  <2> SUFFICES ASSUME NEW j \in 1..Len(b), i < j, b[j] # Top PROVE FALSE
    OBVIOUS
  <2>1. j \in Incrementable(b)
    BY DEF Incrementable
  <2>2. j <= i
    BY <1>3, <2>1
  <2>3. QED BY <1>5, <2>2
<1>7. BytesIncrement(b) \in [1..i -> Byte]
  <2>1. \A j \in 1..i : b[j] \in 0..Top
    BY <1>5, ByteType, TopAssumption
  <2>2. b[i] + 1 \in 0..Top
    BY <1>5, <2>1, TopAssumption
  <2>3. \A j \in 1..i : (IF j = i THEN b[i] + 1 ELSE b[j]) \in 0..Top
    BY <2>1, <2>2
  <2>4. QED BY <1>4, <2>3 DEF Byte
<1>8. QED BY <1>4, <1>5, <1>6, <1>7

\* A string that p is no prefix of ends or differs at some first position of p.
LEMMA FirstDifference ==
    ASSUME NEW p \in Seq(Byte), NEW s \in Seq(Byte), ~IsPrefixOf(p, s)
    PROVE  \E i \in 1..Len(p) :
              /\ \A j \in 1..(i - 1) : j <= Len(s) /\ s[j] = p[j]
              /\ i <= Len(s) => s[i] # p[i]
              /\ i <= Len(s) + 1
<1> DEFINE D == {i \in 1..Len(p) : i > Len(s) \/ s[i] # p[i]}
<1>1. Len(p) \in Nat /\ Len(s) \in Nat
  OBVIOUS
<1>2. D # {}
  <2>1. CASE Len(p) <= Len(s)
    BY <2>1 DEF IsPrefixOf
  <2>2. CASE Len(p) > Len(s)
    <3>1. Len(p) \in D
      BY <1>1, <2>2
    <3>2. QED BY <3>1
  <2>3. QED BY <1>1, <2>1, <2>2
<1>3. D \in SUBSET Nat
  BY <1>1
<1>4. PICK i \in D : \A j \in D : i <= j
  BY <1>2, <1>3, Least
<1>5. \A j \in 1..(i - 1) : j <= Len(s) /\ s[j] = p[j]
  BY <1>1, <1>4
<1>6. i <= Len(s) + 1
  BY <1>1, <1>4, <1>5
<1>7. QED BY <1>1, <1>4, <1>5, <1>6

\* The strings with prefix p lie between p and its increment.
LEMMA PrefixInside ==
    ASSUME NEW p \in Seq(Byte), NEW s \in Seq(Byte), IsPrefixOf(p, s)
    PROVE  /\ ~Before(s, p)
           /\ Incrementable(p) # {} => Before(s, BytesIncrement(p))
<1>1. Len(p) \in Nat /\ Len(s) \in Nat /\ Len(p) <= Len(s)
  BY DEF IsPrefixOf
<1>2. \A i \in 1..Len(p) : s[i] = p[i] /\ p[i] \in Int
  BY ByteType DEF IsPrefixOf
<1>3. ~Before(s, p)
  BY <1>1, <1>2 DEF Before
<1>4. ASSUME Incrementable(p) # {} PROVE Before(s, BytesIncrement(p))
  <2>1. PICK i \in 1..Len(p) :
          /\ BytesIncrement(p) = [j \in 1..i |-> IF j = i THEN p[i] + 1 ELSE p[j]]
          /\ BytesIncrement(p) \in [1..i -> Byte]
    BY <1>4, Incremented
  <2>2. Len(BytesIncrement(p)) = i
    BY <2>1
  <2>3. \A j \in 1..(i - 1) : j <= i /\ s[j] = BytesIncrement(p)[j]
    BY <1>1, <1>2, <2>1
  <2>4. s[i] < BytesIncrement(p)[i]
    BY <1>1, <1>2, <2>1
  <2>5. i \in 1..(Len(s) + 1)
    BY <1>1
  <2>6. QED BY <2>2, <2>3, <2>4, <2>5 DEF Before
<1>5. QED BY <1>3, <1>4

\* Every other string lies outside.
LEMMA PrefixOutside ==
    ASSUME NEW p \in Seq(Byte), NEW s \in Seq(Byte), ~IsPrefixOf(p, s), ~Before(s, p)
    PROVE  Incrementable(p) # {} /\ ~Before(s, BytesIncrement(p))
<1>1. Len(p) \in Nat /\ Len(s) \in Nat
  OBVIOUS
<1>2. PICK i \in 1..Len(p) :
        /\ \A j \in 1..(i - 1) : j <= Len(s) /\ s[j] = p[j]
        /\ i <= Len(s) => s[i] # p[i]
        /\ i <= Len(s) + 1
  BY FirstDifference
<1>3. i <= Len(s) /\ p[i] < s[i]
  <2>1. \A j \in 1..(i - 1) : j <= Len(p) /\ s[j] = p[j]
    BY <1>1, <1>2
  <2>2. ~(i <= Len(s) => s[i] < p[i])
    BY <1>1, <1>2, <2>1 DEF Before
  <2>3. i <= Len(s) => p[i] \in Int /\ s[i] \in Int
    BY <1>1, <1>2, ByteType
  <2>4. QED BY <1>2, <2>2, <2>3
<1>4. p[i] \in 0..Top /\ s[i] \in 0..Top
  BY <1>1, <1>3, ByteType, TopAssumption
<1>5. i \in Incrementable(p)
  BY <1>3, <1>4, TopAssumption DEF Incrementable
<1>6. PICK n \in 1..Len(p) :
        /\ \A j \in 1..Len(p) : n < j => p[j] = Top
        /\ BytesIncrement(p) = [j \in 1..n |-> IF j = n THEN p[n] + 1 ELSE p[j]]
        /\ BytesIncrement(p) \in [1..n -> Byte]
  BY <1>5, Incremented
<1> DEFINE t == BytesIncrement(p)
<1>7. Len(t) = n /\ n \in Nat
  BY <1>6
<1>8. i <= n
  BY <1>3, <1>4, <1>6, TopAssumption
<1>9. \A j \in 1..n : t[j] = IF j = n THEN p[n] + 1 ELSE p[j]
  BY <1>6
<1> HIDE DEF t
<1>10. ASSUME NEW k \in 1..(Len(s) + 1),
              \A j \in 1..(k - 1) : j <= n /\ s[j] = t[j],
              k <= n, k <= Len(s) => s[k] < t[k]
       PROVE  FALSE
  <2>1. CASE k < i
    <3>1. k <= Len(s) /\ s[k] = p[k] /\ t[k] = p[k]
      BY <1>1, <1>2, <1>7, <1>8, <1>9, <2>1
    <3>2. p[k] \in Int
      BY <1>1, <2>1, ByteType
    <3>3. QED BY <1>10, <3>1, <3>2
  <2>2. CASE k = i
    BY <1>3, <1>4, <1>7, <1>8, <1>9, <1>10, <2>2
  <2>3. CASE k > i
    <3>1. s[i] = t[i] /\ i < n
      BY <1>7, <1>8, <1>10, <2>3
    <3>2. t[i] = p[i]
      BY <1>7, <1>8, <1>9, <3>1
    <3>3. QED BY <1>3, <1>4, <3>1, <3>2
  <2>4. QED BY <1>1, <2>1, <2>2, <2>3
<1>11. ~Before(s, t)
  BY <1>7, <1>10 DEF Before
<1>12. QED BY <1>5, <1>11 DEF t

\* Before is a strict total order.
LEMMA Asymmetric ==
    ASSUME NEW a \in Seq(Byte), NEW b \in Seq(Byte), Before(a, b)
    PROVE  ~Before(b, a)
<1>1. PICK i \in 1..(Len(a) + 1) :
        /\ \A j \in 1..(i - 1) : j <= Len(b) /\ a[j] = b[j]
        /\ i <= Len(b)
        /\ i <= Len(a) => a[i] < b[i]
  BY DEF Before
<1>2. SUFFICES ASSUME NEW k \in 1..(Len(b) + 1),
                      \A j \in 1..(k - 1) : j <= Len(a) /\ b[j] = a[j],
                      k <= Len(a), k <= Len(b) => b[k] < a[k]
               PROVE  FALSE
  BY DEF Before
<1>3. Len(a) \in Nat /\ Len(b) \in Nat
  OBVIOUS
<1>4. CASE i < k
  <2>1. i <= Len(a) /\ b[i] = a[i]
    BY <1>2, <1>3, <1>4
  <2>2. a[i] \in Int
    BY <2>1, <1>3, ByteType
  <2>3. QED BY <1>1, <2>1, <2>2
<1>5. CASE k < i
  <2>1. k <= Len(b) /\ a[k] = b[k]
    BY <1>1, <1>3, <1>5
  <2>2. a[k] \in Int
    BY <1>2, <1>3, ByteType
  <2>3. QED BY <1>2, <2>1, <2>2
<1>6. CASE i = k
  <2>1. i <= Len(a) /\ i <= Len(b) /\ a[i] \in Int /\ b[i] \in Int
    BY <1>1, <1>2, <1>3, <1>6, ByteType
  <2>2. QED BY <1>1, <1>2, <1>6, <2>1
<1>7. QED BY <1>3, <1>4, <1>5, <1>6

\* A prefix of a longer string sorts before it.
LEMMA ProperPrefix ==
    ASSUME NEW a \in Seq(Byte), NEW b \in Seq(Byte), IsPrefixOf(a, b), a # b
    PROVE  Before(a, b)
<1>1. Len(a) \in Nat /\ Len(b) \in Nat /\ Len(a) <= Len(b)
  BY DEF IsPrefixOf
<1>2. \A j \in 1..Len(a) : a[j] = b[j]
  BY DEF IsPrefixOf
<1>3. Len(a) < Len(b)
  <2> SUFFICES ASSUME Len(a) = Len(b) PROVE FALSE
    BY <1>1
  <2>1. a = b
    BY <1>2
  <2>2. QED BY <2>1
<1>4. Len(a) + 1 \in 1..(Len(a) + 1) /\ Len(a) + 1 <= Len(b)
  BY <1>1, <1>3
<1>5. \A j \in 1..(Len(a) + 1 - 1) : j <= Len(b) /\ a[j] = b[j]
  BY <1>1, <1>2
<1>6. Len(a) + 1 <= Len(a) => a[Len(a) + 1] < b[Len(a) + 1]
  BY <1>1
<1>7. QED BY <1>4, <1>5, <1>6 DEF Before

LEMMA Trichotomy ==
    ASSUME NEW a \in Seq(Byte), NEW b \in Seq(Byte)
    PROVE  a = b \/ Before(a, b) \/ Before(b, a)
<1>1. CASE IsPrefixOf(a, b)
  BY <1>1, ProperPrefix
<1>2. CASE ~IsPrefixOf(a, b)
  <2>1. Len(a) \in Nat /\ Len(b) \in Nat
    OBVIOUS
  <2>2. PICK i \in 1..Len(a) :
          /\ \A j \in 1..(i - 1) : j <= Len(b) /\ b[j] = a[j]
          /\ i <= Len(b) => b[i] # a[i]
          /\ i <= Len(b) + 1
    BY <1>2, FirstDifference
  <2>3. \A j \in 1..(i - 1) : j <= Len(a) /\ a[j] = b[j]
    BY <2>1, <2>2
  <2>4. CASE i > Len(b) \/ b[i] < a[i]
    <3>1. Before(b, a)
      BY <2>1, <2>2, <2>3, <2>4 DEF Before
    <3>2. QED BY <3>1
  <2>5. CASE i <= Len(b) /\ ~(b[i] < a[i])
    <3>1. a[i] \in Int /\ b[i] \in Int
      BY <2>1, <2>5, ByteType
    <3>2. a[i] < b[i]
      BY <2>2, <2>5, <3>1
    <3>3. i \in 1..(Len(a) + 1)
      BY <2>1
    <3>4. Before(a, b)
      BY <2>2, <2>5, <3>2, <3>3 DEF Before
    <3>5. QED BY <3>4
  <2>6. QED BY <2>1, <2>4, <2>5
<1>3. QED BY <1>1, <1>2

\* A string sorts before its increment and is no prefix of it.
LEMMA IncrementAfter ==
    ASSUME NEW p \in Seq(Byte), Incrementable(p) # {}
    PROVE  Before(p, BytesIncrement(p)) /\ ~IsPrefixOf(p, BytesIncrement(p))
<1>1. IsPrefixOf(p, p)
  BY DEF IsPrefixOf
<1>2. Before(p, BytesIncrement(p))
  BY <1>1, PrefixInside
<1>3. PICK i \in 1..Len(p) :
        BytesIncrement(p) = [j \in 1..i |-> IF j = i THEN p[i] + 1 ELSE p[j]]
  BY Incremented
<1>4. BytesIncrement(p)[i] = p[i] + 1 /\ p[i] \in Int
  BY <1>3, ByteType
<1>5. QED BY <1>2, <1>4 DEF IsPrefixOf

-----------------------------------------------------------------------------
(* The specification. *)

LEMMA StringsAreSeqs == Strings \subseteq Seq(Byte)
  BY MaxLenAssumption DEF Strings

\* What bytes_increment returns is never longer than what it was given.
LEMMA IncrementType ==
    ASSUME NEW p \in Strings
    PROVE  /\ BytesIncrement(p) \in Strings \union {None}
           /\ BytesIncrement(p) = None <=> Incrementable(p) = {}
           /\ BytesIncrement(p) # <<>>
<1>1. p \in Seq(Byte)
  BY StringsAreSeqs
<1>2. CASE Incrementable(p) = {}
  <2>1. <<>> \in Seq(Byte)
    OBVIOUS
  <2>2. QED BY <1>2, <2>1, NoneAssumption DEF BytesIncrement
<1>3. CASE Incrementable(p) # {}
  <2>1. PICK i \in 1..Len(p) : BytesIncrement(p) \in [1..i -> Byte]
    BY <1>1, <1>3, Incremented
  <2>2. Len(p) \in 0..MaxLen
    BY MaxLenAssumption DEF Strings
  <2>3. i \in 0..MaxLen
    BY <2>2, MaxLenAssumption
  <2>4. BytesIncrement(p) \in Strings
    BY <2>1, <2>3 DEF Strings
  <2>5. BytesIncrement(p) # None
    BY <2>4, StringsAreSeqs, NoneAssumption
  <2>6. BytesIncrement(p) # <<>>
    BY <2>1
  <2>7. QED BY <1>3, <2>4, <2>5, <2>6
<1>4. QED BY <1>2, <1>3

\* The bounds of a scan of a prefix.
Bounds ==
    pc = "scan" /\ prefix # None =>
        IF reverse THEN start = BytesIncrement(prefix) /\ stop = prefix
                   ELSE start = prefix /\ stop = BytesIncrement(prefix)

RangeInv == TypeOK /\ Bounds

LEMMA InitRange == Init => RangeInv
  BY DEF Init, RangeInv, TypeOK, Bounds

LEMMA NextRange == RangeInv /\ [Next]_vars => RangeInv'
<1> SUFFICES ASSUME RangeInv, [Next]_vars PROVE RangeInv'
  OBVIOUS
<1>1. CASE UNCHANGED vars
  BY <1>1 DEF RangeInv, TypeOK, Bounds, vars
<1>2. CASE Refuse
  BY <1>2 DEF RangeInv, TypeOK, Bounds, Refuse
<1>3. CASE PrefixBounds
  <2>1. BytesIncrement(prefix) \in Strings \union {None}
    BY <1>3, IncrementType DEF RangeInv, TypeOK, PrefixBounds
  <2>2. QED BY <1>3, <2>1 DEF RangeInv, TypeOK, Bounds, PrefixBounds, Upper
<1>4. CASE GivenBounds
  BY <1>4 DEF RangeInv, TypeOK, Bounds, GivenBounds
<1>5. QED BY <1>1, <1>2, <1>3, <1>4 DEF Next

\* The inductive invariant.
THEOREM RangeInvariant == Spec => []RangeInv
<1>1. QED BY InitRange, NextRange, PTL DEF Spec

\* Type correctness: bytes_increment stays within the length of its argument.
THEOREM RangeTypes == Spec => []TypeOK
<1>1. RangeInv => TypeOK
  BY DEF RangeInv
<1>2. QED BY RangeInvariant, <1>1, PTL

\* scan(row_prefix=p) asks for exactly the rows whose key has the prefix p.
THEOREM PrefixScanIsExact == Spec => []ForwardPrefix
<1>1. ASSUME RangeInv PROVE ForwardPrefix
  <2> SUFFICES ASSUME pc = "scan", prefix # None, ~reverse, NEW s \in RowKeys
               PROVE  InScan(s) <=> IsPrefixOf(prefix, s)
    BY DEF ForwardPrefix
  <2>1. prefix \in Strings /\ start = prefix /\ stop = BytesIncrement(prefix)
    BY <1>1 DEF RangeInv, TypeOK, Bounds
  <2>2. prefix \in Seq(Byte) /\ s \in Seq(Byte)
    BY <2>1, StringsAreSeqs DEF RowKeys
  <2>3. stop # <<>> /\ (stop = None <=> Incrementable(prefix) = {})
    BY <2>1, IncrementType
  <2>4. ~Before(s, <<>>)
    BY <2>2 DEF Before
  <2>5. InScan(s) <=> /\ ~Before(s, prefix)
                      /\ Incrementable(prefix) = {} \/ Before(s, BytesIncrement(prefix))
    BY <2>1, <2>3, <2>4 DEF InScan, Unbounded
  <2>6. CASE IsPrefixOf(prefix, s)
    BY <2>2, <2>5, <2>6, PrefixInside
  <2>7. CASE ~IsPrefixOf(prefix, s)
    BY <2>2, <2>5, <2>7, PrefixOutside
  <2>8. QED BY <2>6, <2>7
<1>2. QED BY RangeInvariant, <1>1, PTL

\* scan(row_prefix=p, reverse=True) asks for the rows with the prefix p but the
\* row p, and for the row after them.
THEOREM ReverseScanIsShifted == Spec => []ReversePrefix
<1>1. ASSUME RangeInv PROVE ReversePrefix
  <2> SUFFICES ASSUME pc = "scan", prefix # None, reverse, NEW s \in RowKeys
               PROVE  InScan(s) <=> \/ IsPrefixOf(prefix, s) /\ s # prefix
                                    \/ s = BytesIncrement(prefix)
    BY DEF ReversePrefix
  <2> DEFINE inc == BytesIncrement(prefix)
  <2>1. prefix \in Strings /\ start = inc /\ stop = prefix
    BY <1>1 DEF RangeInv, TypeOK, Bounds
  <2>2. prefix \in Seq(Byte) /\ s \in Seq(Byte) /\ s # <<>> /\ s # None /\ s \in Strings
    BY <2>1, StringsAreSeqs, NoneAssumption DEF RowKeys
  <2>3. inc # <<>> /\ (inc = None <=> Incrementable(prefix) = {})
    BY <2>1, IncrementType
  <2>4. inc # None => inc \in Seq(Byte)
    BY <2>1, IncrementType, StringsAreSeqs
  <2>5. CASE prefix = <<>>
    <3>1. inc = None
      BY <2>3, <2>5 DEF Incrementable
    <3>2. IsPrefixOf(prefix, s)
      BY <2>2, <2>5 DEF IsPrefixOf
    <3>3. InScan(s)
      BY <2>1, <2>5, <3>1 DEF InScan, Unbounded
    <3>4. QED BY <2>2, <2>5, <3>2, <3>3
  <2>6. CASE prefix # <<>>
    <3>1. prefix # None
      OBVIOUS
    <3>2. InScan(s) <=> (inc = None \/ ~Before(inc, s)) /\ Before(prefix, s)
      BY <2>1, <2>3, <2>6, <3>1 DEF InScan, Unbounded
    <3> HIDE DEF inc
    <3>3. CASE IsPrefixOf(prefix, s)
      <4>1. inc # None => ~Before(inc, s)
        BY <2>2, <2>3, <2>4, <3>3, PrefixInside, Asymmetric DEF inc
      <4>2. Before(prefix, s) <=> s # prefix
        BY <2>2, <3>3, ProperPrefix, Asymmetric
      <4>3. s # inc
        BY <2>2, <2>3, <3>3, IncrementAfter DEF inc
      <4>4. QED BY <3>2, <3>3, <4>1, <4>2, <4>3 DEF inc
    <3>4. CASE ~IsPrefixOf(prefix, s)
      <4>1. ASSUME s = inc PROVE Before(prefix, s) /\ ~Before(inc, s)
        BY <2>2, <2>3, <4>1, IncrementAfter, Asymmetric DEF inc
      <4>2. ASSUME Before(prefix, s), inc = None \/ ~Before(inc, s) PROVE s = inc
        <5>1. ~Before(s, prefix)
          BY <2>2, <4>2, Asymmetric
        <5>2. Incrementable(prefix) # {} /\ ~Before(s, inc)
          BY <2>2, <3>4, <5>1, PrefixOutside DEF inc
        <5>3. inc \in Seq(Byte) /\ ~Before(inc, s)
          BY <2>3, <2>4, <4>2, <5>2
        <5>4. QED BY <2>2, <5>2, <5>3, Trichotomy
      <4>3. QED BY <3>2, <3>4, <4>1, <4>2 DEF inc
    <3>5. QED BY <3>3, <3>4
  <2>7. QED BY <2>5, <2>6
<1>2. QED BY RangeInvariant, <1>1, PTL

\* Which rows scan(row_prefix=p) asks for, for every p, bytes up to any Top and
\* keys of any length.
THEOREM PrefixScans == Spec => []PrefixScan
<1>1. ForwardPrefix /\ ReversePrefix => PrefixScan
  BY DEF PrefixScan
<1>2. QED BY PrefixScanIsExact, ReverseScanIsShifted, <1>1, PTL

-----------------------------------------------------------------------------
(* Uuids: the order and the round trip of the swapped form. *)

LEMMA SwapType == ASSUME NEW u \in Bytes16 PROVE Swap(u) \in Bytes16
<1>1. \A i \in 1..16 : u[i] \in Byte
  BY DEF Bytes16
<1>2. ASSUME NEW i \in 1..16 PROVE Swap(u)[i] \in Byte
  BY <1>1 DEF Swap
<1>3. QED BY <1>2 DEF Swap, Bytes16

LEMMA RoundTrip == ASSUME NEW u \in Bytes16 PROVE Recover(Swap(u)) = u
<1>1. u = [i \in 1..16 |-> u[i]]
  BY DEF Bytes16
<1>2. ASSUME NEW i \in 1..16 PROVE Recover(Swap(u))[i] = u[i]
  BY DEF Swap, Recover
<1>3. Recover(Swap(u)) = [i \in 1..16 |-> Recover(Swap(u))[i]]
  BY DEF Recover
<1>4. QED BY <1>1, <1>2, <1>3

\* Numbers of two digits compare as their digits do.
LEMMA Digits ==
    ASSUME NEW base \in Nat, NEW a \in Nat, NEW b \in 0..(base - 1),
           NEW c \in Nat, NEW d \in 0..(base - 1),
           NEW m, NEW n, m = a * base + b, n = c * base + d, m <= n
    PROVE  a < c \/ (a = c /\ b <= d)
<1>1. ASSUME c < a PROVE FALSE
  <2>1. PICK k \in Nat : a = c + 1 + k
    <3>1. a - c - 1 \in Nat /\ a = c + 1 + (a - c - 1)
      BY <1>1
    <3>2. QED BY <3>1
  <2>2. a * base = c * base + base + k * base
    BY <2>1
  <2>3. k * base >= 0
    BY <2>1
  <2>4. c * base \in Nat /\ k * base \in Nat
    BY <2>1
  <2>5. QED BY <2>2, <2>3, <2>4
<1>2. a * base \in Nat
  OBVIOUS
<1>3. QED BY <1>1, <1>2

\* Two bytes as a number: below the square of the base, and in their order.
LEMMA TwoBytes ==
    ASSUME NEW u \in Bytes16, NEW i \in 1..15
    PROVE  /\ u[i] \in 0..(Base - 1) /\ u[i + 1] \in 0..(Base - 1)
           /\ Base \in Nat /\ Base * Base \in Nat
           /\ Two(u, i) \in 0..(Base * Base - 1)
<1>1. u[i] \in Byte /\ u[i + 1] \in Byte
  BY DEF Bytes16
<1>2. Base \in Nat /\ Base > 0 /\ u[i] \in 0..(Base - 1) /\ u[i + 1] \in 0..(Base - 1)
  BY <1>1, TopAssumption DEF Byte, Base
<1>3. PICK k \in Nat : Base = u[i] + 1 + k
  <2>1. Base - u[i] - 1 \in Nat /\ Base = u[i] + 1 + (Base - u[i] - 1)
    BY <1>2
  <2>2. QED BY <2>1
<1>4. Base * Base = u[i] * Base + Base + k * Base
  BY <1>2, <1>3
<1>5. u[i] * Base \in Nat /\ k * Base \in Nat
  BY <1>2, <1>3
<1>6. Two(u, i) = u[i] * Base + u[i + 1]
  BY DEF Two
<1>7. QED BY <1>2, <1>4, <1>5, <1>6

LEMMA TwoUpTo ==
    ASSUME NEW u \in Bytes16, NEW v \in Bytes16, NEW i \in 1..15, Two(u, i) <= Two(v, i)
    PROVE  u[i] < v[i] \/ (u[i] = v[i] /\ u[i + 1] <= v[i + 1])
<1>1. PICK a, b, c, d, m, n :
          a = u[i] /\ b = u[i + 1] /\ c = v[i] /\ d = v[i + 1] /\ m = Two(u, i) /\ n = Two(v, i)
  OBVIOUS
<1>2. /\ a \in Nat /\ b \in 0..(Base - 1) /\ c \in Nat /\ d \in 0..(Base - 1)
      /\ Base \in Nat
  BY <1>1, TwoBytes
<1>3. m = a * Base + b /\ n = c * Base + d /\ m <= n
  BY <1>1 DEF Two
<1>4. a < c \/ (a = c /\ b <= d)
  BY <1>2, <1>3, Digits, Zenon
<1>5. QED BY <1>1, <1>4

LEMMA TwoOrder ==
    ASSUME NEW u \in Bytes16, NEW v \in Bytes16, NEW i \in 1..15
    PROVE  /\ Two(u, i) < Two(v, i) => u[i] < v[i] \/ (u[i] = v[i] /\ u[i + 1] < v[i + 1])
           /\ Two(u, i) = Two(v, i) => u[i] = v[i] /\ u[i + 1] = v[i + 1]
<1>1. /\ u[i] \in Int /\ u[i + 1] \in Int /\ v[i] \in Int /\ v[i + 1] \in Int
      /\ Two(u, i) \in Int /\ Two(v, i) \in Int
  BY TwoBytes
<1>2. Two(u, i) <= Two(v, i) => u[i] < v[i] \/ (u[i] = v[i] /\ u[i + 1] <= v[i + 1])
  BY TwoUpTo
<1>3. Two(v, i) <= Two(u, i) => v[i] < u[i] \/ (v[i] = u[i] /\ v[i + 1] <= u[i + 1])
  BY TwoUpTo
<1>4. u[i] = v[i] /\ u[i + 1] = v[i + 1] => Two(u, i) = Two(v, i)
  BY DEF Two
<1>5. QED BY <1>1, <1>2, <1>3, <1>4

\* The lower four bytes.
LEMMA FourOrder ==
    ASSUME NEW u \in Bytes16, NEW v \in Bytes16,
           Two(u, 1) * Base * Base + Two(u, 3) < Two(v, 1) * Base * Base + Two(v, 3)
    PROVE  Two(u, 1) < Two(v, 1) \/ (Two(u, 1) = Two(v, 1) /\ Two(u, 3) < Two(v, 3))
<1> DEFINE square == Base * Base
<1>1. /\ Two(u, 1) \in 0..(square - 1) /\ Two(v, 1) \in 0..(square - 1)
      /\ Two(u, 3) \in 0..(square - 1) /\ Two(v, 3) \in 0..(square - 1)
      /\ square \in Nat /\ Base \in Nat
  BY TwoBytes
<1>2. /\ Two(u, 1) * Base * Base = Two(u, 1) * square
      /\ Two(v, 1) * Base * Base = Two(v, 1) * square
  BY <1>1
<1> HIDE DEF square
<1>3. PICK a, b, c, d : a = Two(u, 1) /\ b = Two(u, 3) /\ c = Two(v, 1) /\ d = Two(v, 3)
  OBVIOUS
<1>4. PICK m, n : m = a * square + b /\ n = c * square + d
  OBVIOUS
<1>5. a \in Nat /\ c \in Nat /\ b \in 0..(square - 1) /\ d \in 0..(square - 1)
  BY <1>1, <1>3
<1>6. a * square \in Nat /\ c * square \in Nat
  BY <1>1, <1>5
<1>7. m < n /\ m <= n
  BY <1>2, <1>3, <1>4, <1>5, <1>6
<1>8. a < c \/ (a = c /\ b <= d)
  BY <1>1, <1>4, <1>5, <1>7, Digits, Zenon
<1>9. ~(a = c /\ b = d)
  BY <1>4, <1>5, <1>6, <1>7
<1>10. QED BY <1>3, <1>5, <1>8, <1>9

LEMMA BeforeAt ==
    ASSUME NEW s \in Bytes16, NEW t \in Bytes16, NEW i \in 1..16,
           \A j \in 1..(i - 1) : s[j] = t[j], s[i] < t[i]
    PROVE  Before(s, t)
<1>1. Len(s) = 16 /\ Len(t) = 16
  BY DEF Bytes16
<1>2. QED BY <1>1 DEF Before

\* Of two UUIDs the earlier one has the smaller form.
LEMMA EarlierIsBefore ==
    ASSUME NEW u \in Bytes16, NEW v \in Bytes16, Earlier(u, v)
    PROVE  Before(Swap(u), Swap(v))
<1> DEFINE s == Swap(u)  t == Swap(v)
<1>1. s \in Bytes16 /\ t \in Bytes16
  BY SwapType
<1>2. /\ s[1] = u[7] /\ s[2] = u[8] /\ s[3] = u[5] /\ s[4] = u[6]
      /\ s[5] = u[1] /\ s[6] = u[2] /\ s[7] = u[3] /\ s[8] = u[4]
  BY DEF Swap
<1>3. /\ t[1] = v[7] /\ t[2] = v[8] /\ t[3] = v[5] /\ t[4] = v[6]
      /\ t[5] = v[1] /\ t[6] = v[2] /\ t[7] = v[3] /\ t[8] = v[4]
  BY DEF Swap
<1> HIDE DEF s, t
\* The first byte that differs.
<1>4. \/ s[1] < t[1]
      \/ s[1] = t[1] /\ s[2] < t[2]
      \/ s[1] = t[1] /\ s[2] = t[2] /\ s[3] < t[3]
      \/ s[1] = t[1] /\ s[2] = t[2] /\ s[3] = t[3] /\ s[4] < t[4]
      \/ s[1] = t[1] /\ s[2] = t[2] /\ s[3] = t[3] /\ s[4] = t[4] /\ s[5] < t[5]
      \/ s[1] = t[1] /\ s[2] = t[2] /\ s[3] = t[3] /\ s[4] = t[4] /\ s[5] = t[5] /\ s[6] < t[6]
      \/ s[1] = t[1] /\ s[2] = t[2] /\ s[3] = t[3] /\ s[4] = t[4] /\ s[5] = t[5] /\ s[6] = t[6]
         /\ s[7] < t[7]
      \/ s[1] = t[1] /\ s[2] = t[2] /\ s[3] = t[3] /\ s[4] = t[4] /\ s[5] = t[5] /\ s[6] = t[6]
         /\ s[7] = t[7] /\ s[8] < t[8]
  <2>1. CASE Two(u, 7) < Two(v, 7)
    <3>1. u[7] < v[7] \/ (u[7] = v[7] /\ u[7 + 1] < v[7 + 1])
      BY <2>1, TwoOrder
    <3>2. QED BY <1>2, <1>3, <3>1
  <2>2. CASE Two(u, 7) = Two(v, 7) /\ Two(u, 5) < Two(v, 5)
    <3>1. /\ u[7] = v[7] /\ u[7 + 1] = v[7 + 1]
          /\ u[5] < v[5] \/ (u[5] = v[5] /\ u[5 + 1] < v[5 + 1])
      BY <2>2, TwoOrder
    <3>2. QED BY <1>2, <1>3, <3>1
  <2>3. CASE /\ Two(u, 7) = Two(v, 7) /\ Two(u, 5) = Two(v, 5)
             /\ Two(u, 1) * Base * Base + Two(u, 3) < Two(v, 1) * Base * Base + Two(v, 3)
    <3>1. /\ u[7] = v[7] /\ u[7 + 1] = v[7 + 1]
          /\ u[5] = v[5] /\ u[5 + 1] = v[5 + 1]
      BY <2>3, TwoOrder
    <3>2. Two(u, 1) < Two(v, 1) \/ (Two(u, 1) = Two(v, 1) /\ Two(u, 3) < Two(v, 3))
      BY <2>3, FourOrder
    <3>3. \/ u[1] < v[1]
          \/ u[1] = v[1] /\ u[1 + 1] < v[1 + 1]
          \/ /\ u[1] = v[1] /\ u[1 + 1] = v[1 + 1]
             /\ u[3] < v[3] \/ (u[3] = v[3] /\ u[3 + 1] < v[3 + 1])
      BY <3>2, TwoOrder
    <3>4. QED BY <1>2, <1>3, <3>1, <3>3
  <2>4. QED BY <2>1, <2>2, <2>3 DEF Earlier
<1>5. PICK i \in 1..8 : s[i] < t[i] /\ \A j \in 1..(i - 1) : s[j] = t[j]
  BY <1>4
<1>6. Before(s, t)
  BY <1>1, <1>5, BeforeAt
<1>7. QED BY <1>6 DEF s, t

\* Both forms are those of the pair.
UuidInv ==
    /\ pair \in Uuids \X Uuids
    /\ swapFlag \in {0, 1}
    /\ stored = <<>> \/ stored = <<UuidToBin16(pair[1], swapFlag), UuidToBin16(pair[2], swapFlag)>>
    /\ restored # <<>> => restored = pair

\* The swapped form orders UUIDs by time, and either form is undone.
THEOREM UuidsSortByTime == UuidSpec => []StoredByTime
<1>1. UuidInit => UuidInv
  BY DEF UuidInit, UuidInv
<1>2. ASSUME UuidInv, [UuidNext]_uuidVars PROVE UuidInv'
  <2>1. pair' = pair /\ swapFlag' = swapFlag
    BY <1>2 DEF UuidNext, ToBin, ToUuid, uuidVars
  <2>2. pair[1] \in Bytes16 /\ pair[2] \in Bytes16 /\ pair = <<pair[1], pair[2]>>
    BY <1>2, UuidsAssumption DEF UuidInv
  <2>3. CASE UNCHANGED uuidVars
    BY <1>2, <2>3 DEF UuidInv, uuidVars
  <2>4. CASE ToBin
    BY <1>2, <2>1, <2>4 DEF UuidInv, ToBin
  <2>5. CASE ToUuid
    <3>1. stored = <<UuidToBin16(pair[1], swapFlag), UuidToBin16(pair[2], swapFlag)>>
      BY <1>2, <2>5 DEF UuidInv, ToUuid
    <3>2. /\ BinToUuid(UuidToBin16(pair[1], swapFlag), swapFlag) = pair[1]
          /\ BinToUuid(UuidToBin16(pair[2], swapFlag), swapFlag) = pair[2]
      BY <2>2, RoundTrip DEF UuidToBin16, BinToUuid
    <3>3. restored' = <<BinToUuid(stored[1], swapFlag), BinToUuid(stored[2], swapFlag)>>
      BY <2>5 DEF ToUuid
    <3>4. restored' = <<pair[1], pair[2]>>
      BY <3>1, <3>2, <3>3
    <3>5. QED BY <1>2, <2>1, <2>2, <2>5, <3>4 DEF UuidInv, ToUuid
  <2>6. QED BY <1>2, <2>3, <2>4, <2>5 DEF UuidNext
<1>3. ASSUME UuidInv PROVE StoredByTime
  <2>1. pair[1] \in Bytes16 /\ pair[2] \in Bytes16
    BY <1>3, UuidsAssumption DEF UuidInv
  <2>2. ASSUME stored # <<>>, swapFlag = 1, Earlier(pair[1], pair[2])
        PROVE  Before(stored[1], stored[2])
    <3>1. stored[1] = Swap(pair[1]) /\ stored[2] = Swap(pair[2])
      BY <1>3, <2>2 DEF UuidInv, UuidToBin16
    <3>2. QED BY <2>1, <2>2, <3>1, EarlierIsBefore
  <2>3. QED BY <1>3, <2>2 DEF UuidInv, StoredByTime
<1>4. QED BY <1>1, <1>2, <1>3, PTL DEF UuidSpec

-----------------------------------------------------------------------------
(* Fields: what is read and written back. *)

\* The instance holds what it made of the column, until somebody assigns.
FieldInv ==
    /\ kind \in Kinds /\ storage \in Storages /\ extensions \in BOOLEAN /\ loaded \in BOOLEAN
    /\ attribute \in Values(kind)
    /\ column \in Contents(kind) /\ seen \in Contents(kind)
    /\ loaded => attribute = ToPython(kind, storage, seen)

USE DEF Empty

\* Whole seconds of a day survive, and no value leaves the day.
LEMMA SecondsOfDay ==
    ASSUME NEW x \in Int
    PROVE  /\ Truncate(x) \in Int
           /\ Truncate(x) % Day \in 0..(Day - 1)
           /\ x \in 0..(2 * Day - 1) /\ x % 2 = 0 => 2 * (Truncate(x) % Day) = x
<1>1. Day \in Nat /\ Day > 0
  BY DayAssumption
<1>2. Truncate(x) \in Int
  BY DEF Truncate
<1>3. \A n \in Int : n % Day \in 0..(Day - 1)
  BY <1>1
<1>4. ASSUME NEW n \in 0..(Day - 1) PROVE n % Day = n
  BY <1>1, <1>4
<1>5. ASSUME x \in 0..(2 * Day - 1), x % 2 = 0 PROVE 2 * (Truncate(x) % Day) = x
  <2>1. Truncate(x) = x \div 2 /\ x = 2 * (x \div 2)
    BY <1>5 DEF Truncate
  <2>2. x \div 2 \in 0..(Day - 1)
    BY <1>1, <1>5, <2>1
  <2>3. QED BY <1>4, <2>1, <2>2
<1>6. QED BY <1>2, <1>3, <1>5

\* The seconds of few half seconds.
LEMMA TruncateSmall ==
    /\ \A n \in (-3)..3 : Truncate(n) \in {-1, 0, 1}
    /\ Truncate(2) = 1
    /\ \A n \in Int : n + 2 = 0 => Truncate(n) + 1 = 0
<1>1. ASSUME NEW n \in (-3)..3 PROVE Truncate(n) \in {-1, 0, 1}
  <2>1. CASE n >= 0
    <3>1. n \div 2 \in {0, 1}
      BY <2>1
    <3>2. QED BY <2>1, <3>1 DEF Truncate
  <2>2. CASE n < 0
    <3>1. -n \in 1..3
      BY <2>2
    <3>2. (-n) \div 2 \in {0, 1}
      BY <3>1
    <3>3. Truncate(n) = -((-n) \div 2)
      BY <2>2 DEF Truncate
    <3>4. QED BY <3>2, <3>3
  <2>3. QED BY <2>1, <2>2
<1>2. 2 \div 2 = 1
  OBVIOUS
<1>3. ASSUME NEW n \in Int, n + 2 = 0 PROVE Truncate(n) + 1 = 0
  <2>1. n < 0 /\ -n = 2
    BY <1>3
  <2>2. Truncate(n) = -((-n) \div 2)
    BY <2>1 DEF Truncate
  <2>3. QED BY <1>2, <2>1, <2>2
<1>4. QED BY <1>1, <1>2, <1>3 DEF Truncate

\* The contents and the values of each type.
LEMMA ContentsOf ==
    /\ Contents("uuid") = {Null} \union 0..3
    /\ Contents("timestamp") = {Null} \union {-1, 0, 1}
    /\ Contents("time") = {Null} \union (-2 * Day)..(4 * Day)
    /\ Contents("geometry") = {Null, 1}
    /\ Contents("file") = {Null} \union ((-Longest)..Longest \ {-1, -2})
<1>1. (-1)..1 = {-1, 0, 1}
  OBVIOUS
<1>2. QED BY <1>1 DEF Contents

LEMMA ValuesOf ==
    /\ Values("uuid") = {PyNone} \union [type: {"uuid"}, value: 0..3]
    /\ Values("timestamp") =
          {PyNone} \union ([type: {"datetime"}, value: (-3)..3] \union [type: {"int"}, value: (-1)..1])
    /\ Values("time") = {PyNone} \union [type: {"time"}, value: 0..(2 * Day - 1)]
    /\ Values("geometry") = {PyNone} \union [type: {"json", "bytes"}, value: {1}]
    /\ Values("file") =
          {PyNone} \union ([type: {"str"}, value: 0..(Longest + 2)]
                           \union [type: {"url"}, value: 3..(Longest + 2)])
  BY DEF Values

\* The path of the url a file's content is loaded as: a slash is in front of it.
UrlPath(s, c) == IF c < 0 THEN -c ELSE FullPath(s, c)
LEMMA UrlPaths ==
    ASSUME NEW s, NEW c \in Contents("file"), c # Null, c # Empty
    PROVE  /\ c \in Int /\ UrlPath(s, c) \in 3..(Longest + 2)
           /\ c > 0 => UrlPath(s, c) \in {c, c + 2}
           /\ c > 0 /\ s = "base" => UrlPath(s, c) = c + 2
           /\ c > 0 /\ s # "base" /\ c \notin Bare => UrlPath(s, c) = c
<1>1. c \in (-Longest)..Longest /\ c \notin {-1, -2} /\ c # 0 /\ Longest \in Nat
  BY ContentsOf, LongestAssumption
<1>2. CASE c < 0
  BY <1>1, <1>2 DEF UrlPath
<1>3. CASE c > 0
  BY <1>1, <1>3 DEF UrlPath, FullPath, Bare
<1>4. QED BY <1>1, <1>2, <1>3

\* What each content is loaded as.
LEMMA LoadedAs ==
    ASSUME NEW s
    PROVE  /\ \A k \in Kinds : ToPython(k, s, Null) = PyNone
           /\ \A c \in 0..3 : ToPython("uuid", s, c) = [type |-> "uuid", value |-> c]
           /\ ToPython("timestamp", s, 0) = PyNone
           /\ \A c \in {-1, 1} : ToPython("timestamp", s, c) = [type |-> "datetime", value |-> 2 * c]
           /\ \A c \in Int : ToPython("time", s, c) = [type |-> "time", value |-> 2 * (Truncate(c) % Day)]
           /\ ToPython("geometry", s, 1) = [type |-> "bytes", value |-> 1]
           /\ ToPython("file", s, Empty) = [type |-> "str", value |-> Empty]
           /\ \A c \in Int : c # Empty => ToPython("file", s, c) = [type |-> "url", value |-> UrlPath(s, c)]
<1>1. \A k \in Kinds : ToPython(k, s, Null) = PyNone
  BY DEF ToPython
<1>2. \A c \in Int : c # Null
  BY NullAssumption
<1>3. \A c \in 0..3 : ToPython("uuid", s, c) = [type |-> "uuid", value |-> c]
  BY <1>2 DEF ToPython, UuidToPython
<1>4. /\ ToPython("timestamp", s, 0) = PyNone
      /\ \A c \in {-1, 1} : ToPython("timestamp", s, c) = [type |-> "datetime", value |-> 2 * c]
  BY <1>2 DEF ToPython, TimestampToPython
<1>5. ASSUME NEW c \in Int
      PROVE  ToPython("time", s, c) = [type |-> "time", value |-> 2 * (Truncate(c) % Day)]
  BY <1>2 DEF ToPython, TimeToPython
<1>6. ToPython("geometry", s, 1) = [type |-> "bytes", value |-> 1]
  BY <1>2 DEF ToPython, GeometryToPython
<1>7. ToPython("file", s, Empty) = [type |-> "str", value |-> Empty]
  BY <1>2 DEF ToPython, FileToPython
<1>8. ASSUME NEW c \in Int, c # Empty
      PROVE  ToPython("file", s, c) = [type |-> "url", value |-> UrlPath(s, c)]
  BY <1>2, <1>8 DEF ToPython, FileToPython, UrlPath
<1>9. QED BY <1>1, <1>3, <1>4, <1>5, <1>6, <1>7, <1>8

\* What each value is saved as.
LEMMA SavedAs ==
    /\ \A k \in Kinds : ToDb(k, PyNone) = IF k \in {"timestamp", "file"} THEN 0 ELSE Null
    /\ \A n \in Int : ToDb("uuid", [type |-> "uuid", value |-> n]) = n
    /\ \A n \in Int : ToDb("timestamp", [type |-> "datetime", value |-> n]) = Truncate(n)
    /\ \A n \in Int : ToDb("timestamp", [type |-> "int", value |-> n]) = n
    /\ \A n \in Int : ToDb("time", [type |-> "time", value |-> n]) = n
    /\ \A ty \in {"json", "bytes"}, n \in Int : ToDb("geometry", [type |-> ty, value |-> n]) = n
    /\ \A ty \in {"str", "url"}, n \in Int : ToDb("file", [type |-> ty, value |-> n]) = n
<1>1. ASSUME NEW k \in Kinds
      PROVE  ToDb(k, PyNone) = IF k \in {"timestamp", "file"} THEN 0 ELSE Null
  BY DEF ToDb, Kinds, UuidToDb, TimestampToDb, TimeToDb, GeometryToDb, FileToDb
<1>2. ASSUME NEW n \in Int PROVE ToDb("uuid", [type |-> "uuid", value |-> n]) = n
  BY DEF ToDb, UuidToDb, UuidToBin, PyNone
<1>3. ASSUME NEW n \in Int
      PROVE  /\ ToDb("timestamp", [type |-> "datetime", value |-> n]) = Truncate(n)
             /\ ToDb("timestamp", [type |-> "int", value |-> n]) = n
  BY DEF ToDb, TimestampToDb, PyNone
<1>4. ASSUME NEW n \in Int PROVE ToDb("time", [type |-> "time", value |-> n]) = n
  BY DEF ToDb, TimeToDb, PyNone
<1>5. ASSUME NEW ty \in {"json", "bytes"}, NEW n \in Int
      PROVE  ToDb("geometry", [type |-> ty, value |-> n]) = n
  BY DEF ToDb, GeometryToDb, PyNone
<1>6. ASSUME NEW ty \in {"str", "url"}, NEW n \in Int
      PROVE  ToDb("file", [type |-> ty, value |-> n]) = n
  BY DEF ToDb, FileToDb, PyNone
<1>7. QED BY <1>1, <1>2, <1>3, <1>4, <1>5, <1>6

\* What is loaded has the types of the field.
LEMMA LoadedType ==
    ASSUME NEW k \in Kinds, NEW s, NEW c \in Contents(k)
    PROVE  ToPython(k, s, c) \in Values(k)
<1>1. CASE c = Null
  BY <1>1, LoadedAs DEF Values
<1>2. CASE c # Null /\ k = "uuid"
  <2>1. c \in 0..3
    BY <1>2, ContentsOf
  <2>2. QED BY <1>2, <2>1, LoadedAs, ValuesOf
<1>3. CASE c # Null /\ k = "timestamp"
  <2>1. c \in {-1, 0, 1}
    BY <1>3, ContentsOf
  <2>2. 2 * c \in (-3)..3
    BY <2>1
  <2>3. CASE c = 0
    BY <1>3, <2>3, LoadedAs, ValuesOf
  <2>4. CASE c # 0
    <3>1. ToPython(k, s, c) = [type |-> "datetime", value |-> 2 * c]
      BY <1>3, <2>1, <2>4, LoadedAs
    <3>2. QED BY <1>3, <2>2, <3>1, ValuesOf
  <2>5. QED BY <2>3, <2>4
<1>4. CASE c # Null /\ k = "time"
  <2>1. c \in Int
    BY <1>4, ContentsOf, DayAssumption
  <2>2. 2 * (Truncate(c) % Day) \in 0..(2 * Day - 1)
    BY <2>1, SecondsOfDay, DayAssumption
  <2>3. ToPython(k, s, c) = [type |-> "time", value |-> 2 * (Truncate(c) % Day)]
    BY <1>4, <2>1, LoadedAs
  <2>4. QED BY <1>4, <2>2, <2>3, ValuesOf
<1>5. CASE c # Null /\ k = "geometry"
  <2>1. c = 1
    BY <1>5, ContentsOf
  <2>2. QED BY <1>5, <2>1, LoadedAs, ValuesOf
<1>6. CASE c # Null /\ k = "file"
  <2>1. CASE c = Empty
    <3>1. 0 \in 0..(Longest + 2)
      BY LongestAssumption
    <3>2. QED BY <1>6, <2>1, <3>1, LoadedAs, ValuesOf
  <2>2. CASE c # Empty
    <3>1. c \in Int /\ UrlPath(s, c) \in 3..(Longest + 2)
      BY <1>6, <2>2, UrlPaths
    <3>2. ToPython(k, s, c) = [type |-> "url", value |-> UrlPath(s, c)]
      BY <1>6, <2>2, <3>1, LoadedAs
    <3>3. QED BY <1>6, <3>1, <3>2, ValuesOf
  <2>3. QED BY <2>1, <2>2
<1>7. QED BY <1>1, <1>2, <1>3, <1>4, <1>5, <1>6 DEF Kinds

\* What is saved fits the column.
LEMMA SavedType ==
    ASSUME NEW k \in Kinds, NEW v \in Values(k), v.type \in {"str", "url"} => v.value <= Longest
    PROVE  ToDb(k, v) \in Contents(k)
<1>1. CASE v = PyNone
  <2>1. k \in {"timestamp", "file"} => 0 \in Contents(k)
    BY ContentsOf, LongestAssumption
  <2>2. QED BY <1>1, <2>1, SavedAs DEF Contents
<1>2. CASE v # PyNone /\ k = "uuid"
  <2>1. PICK n \in 0..3 : v = [type |-> "uuid", value |-> n]
    BY <1>2, ValuesOf
  <2>2. ToDb(k, v) = n
    BY <1>2, <2>1, SavedAs
  <2>3. QED BY <1>2, <2>1, <2>2, ContentsOf
<1>3. CASE v # PyNone /\ k = "timestamp"
  <2>1. CASE v \in [type: {"datetime"}, value: (-3)..3]
    <3>1. PICK n \in (-3)..3 : v = [type |-> "datetime", value |-> n]
      BY <2>1
    <3>2. ToDb(k, v) = Truncate(n)
      BY <1>3, <3>1, SavedAs
    <3>3. Truncate(n) \in {-1, 0, 1}
      BY <3>1, TruncateSmall
    <3>4. QED BY <1>3, <3>2, <3>3, ContentsOf
  <2>2. CASE v \in [type: {"int"}, value: (-1)..1]
    <3>1. PICK n \in (-1)..1 : v = [type |-> "int", value |-> n]
      BY <2>2
    <3>2. ToDb(k, v) = n /\ n \in {-1, 0, 1}
      BY <1>3, <3>1, SavedAs
    <3>3. QED BY <1>3, <3>2, ContentsOf
  <2>3. QED BY <1>3, <2>1, <2>2, ValuesOf
<1>4. CASE v # PyNone /\ k = "time"
  <2>1. PICK n \in 0..(2 * Day - 1) : v = [type |-> "time", value |-> n]
    BY <1>4, ValuesOf
  <2>2. ToDb(k, v) = n
    BY <1>4, <2>1, SavedAs
  <2>3. n \in (-2 * Day)..(4 * Day)
    BY <2>1, DayAssumption
  <2>4. QED BY <1>4, <2>2, <2>3, ContentsOf
<1>5. CASE v # PyNone /\ k = "geometry"
  <2>1. PICK ty \in {"json", "bytes"} : v = [type |-> ty, value |-> 1]
    BY <1>5, ValuesOf
  <2>2. ToDb(k, v) = 1
    BY <1>5, <2>1, SavedAs
  <2>3. QED BY <1>5, <2>2, ContentsOf
<1>6. CASE v # PyNone /\ k = "file"
  <2>1. PICK ty \in {"str", "url"}, n \in 0..(Longest + 2) : v = [type |-> ty, value |-> n]
    BY <1>6, ValuesOf, LongestAssumption
  <2>2. n <= Longest
    BY <2>1
  <2>3. ToDb(k, v) = n
    BY <1>6, <2>1, SavedAs, LongestAssumption
  <2>4. n \in (-Longest)..Longest \ {-1, -2}
    BY <2>1, <2>2, LongestAssumption
  <2>5. QED BY <1>6, <2>3, <2>4, ContentsOf
<1>7. QED BY <1>1, <1>2, <1>3, <1>4, <1>5, <1>6 DEF Kinds

\* A round of reading and writing back: the field's own contents return but for
\* a base path in front, and what comes of the others is the field's own.
LEMMA RoundOfField ==
    ASSUME NEW k \in Kinds, NEW s \in Storages, NEW c \in Contents(k), Accepted(ToPython(k, s, c))
    PROVE  /\ ~Unnormal(k, ToDb(k, ToPython(k, s, c)))
           /\ ~Unnormal(k, c) /\ ~Drifts(k, s, c) => ToDb(k, ToPython(k, s, c)) = c
           /\ Drifts(k, s, c) => ToDb(k, ToPython(k, s, c)) = c + 2
           /\ k = "geometry" => c = Null
<1>1. CASE c = Null
  <2>1. ToDb(k, ToPython(k, s, c)) = IF k \in {"timestamp", "file"} THEN 0 ELSE Null
    BY <1>1, LoadedAs, SavedAs
  <2>2. CASE k \in {"timestamp", "file"}
    BY <1>1, <2>1, <2>2, NullAssumption DEF Unnormal, Drifts, IsPath, Bare
  <2>3. CASE k \in {"uuid", "time", "geometry"}
    BY <1>1, <2>1, <2>3 DEF Unnormal, Drifts
  <2>4. QED BY <2>2, <2>3 DEF Kinds
<1>2. CASE c # Null /\ k = "uuid"
  <2>1. c \in 0..3
    BY <1>2, ContentsOf
  <2>2. ToDb(k, ToPython(k, s, c)) = c
    BY <1>2, <2>1, LoadedAs, SavedAs
  <2>3. QED BY <1>2, <2>2 DEF Unnormal, Drifts
<1>3. CASE c # Null /\ k = "timestamp"
  <2>1. c \in {-1, 0, 1}
    BY <1>3, ContentsOf
  <2>2. Truncate(2) = 1
    BY TruncateSmall
  <2>3. ToDb(k, ToPython(k, s, c)) = c
    <3>1. CASE c = 0
      BY <1>3, <3>1, LoadedAs, SavedAs
    <3>2. CASE c = 1
      <4>1. ToPython(k, s, c) = [type |-> "datetime", value |-> 2]
        BY <1>3, <3>2, LoadedAs
      <4>2. QED BY <1>3, <2>2, <3>2, <4>1, SavedAs
    <3>3. CASE c = -1
      <4>1. ToPython(k, s, c) = [type |-> "datetime", value |-> 2 * c]
        BY <1>3, <3>3, LoadedAs
      <4>2. 2 * c \in Int /\ 2 * c + 2 = 0
        BY <3>3
      <4>3. Truncate(2 * c) \in {-1, 0, 1} /\ Truncate(2 * c) + 1 = 0
        BY <4>2, TruncateSmall
      <4>4. ToDb(k, ToPython(k, s, c)) = Truncate(2 * c)
        BY <1>3, <4>1, <4>2, SavedAs
      <4>5. QED BY <3>3, <4>3, <4>4
    <3>4. QED BY <2>1, <3>1, <3>2, <3>3
  <2>4. QED BY <1>3, <2>3 DEF Unnormal, Drifts
<1>4. CASE c # Null /\ k = "time"
  <2>1. c \in Int
    BY <1>4, ContentsOf, DayAssumption
  <2> DEFINE w == 2 * (Truncate(c) % Day)
  <2>2. /\ w \in 0..(2 * Day - 1) /\ w % 2 = 0
        /\ c \in 0..(2 * Day - 1) /\ c % 2 = 0 => w = c
    BY <2>1, SecondsOfDay, DayAssumption
  <2>3. ToPython(k, s, c) = [type |-> "time", value |-> w]
    BY <1>4, <2>1, LoadedAs
  <2> HIDE DEF w
  <2>4. w \in Int
    BY <2>2, DayAssumption
  <2>5. ToDb(k, ToPython(k, s, c)) = w
    BY <1>4, <2>3, <2>4, SavedAs
  <2>6. ~Unnormal(k, w)
    BY <1>4, <2>2 DEF Unnormal
  <2>7. c % 2 \in {0, 1}
    BY <2>1
  <2>8. ~Drifts(k, s, c) /\ (Unnormal(k, c) \/ w = c)
    BY <1>4, <2>2, <2>7 DEF Unnormal, Drifts
  <2>9. QED BY <1>4, <2>5, <2>6, <2>8
<1>5. CASE c # Null /\ k = "geometry"
  <2>1. c = 1
    BY <1>5, ContentsOf
  <2>2. ToPython(k, s, c).type = "bytes"
    BY <1>5, <2>1, LoadedAs
  <2>3. QED BY <2>2 DEF Accepted
<1>6. CASE c # Null /\ k = "file"
  <2>1. CASE c = Empty
    <3>1. ToDb(k, ToPython(k, s, c)) = c
      BY <1>6, <2>1, LoadedAs, SavedAs
    <3>2. QED BY <1>6, <2>1, <3>1 DEF Unnormal, Drifts, IsPath, Bare
  <2>2. CASE c # Empty
    <3> DEFINE w == UrlPath(s, c)
    <3>1. /\ c \in Int /\ c # 0 /\ w \in 3..(Longest + 2)
          /\ c > 0 /\ s = "base" => w = c + 2
          /\ c > 0 /\ s # "base" /\ c \notin Bare => w = c
      BY <1>6, <2>2, UrlPaths
    <3>2. ToPython(k, s, c) = [type |-> "url", value |-> w]
      BY <1>6, <2>2, <3>1, LoadedAs
    <3> HIDE DEF w
    <3>3. w \in Int /\ w > 2
      BY <3>1, LongestAssumption
    <3>4. ToDb(k, ToPython(k, s, c)) = w
      BY <1>6, <3>2, <3>3, SavedAs
    <3>5. ~Unnormal(k, w)
      BY <1>6, <3>3, NullAssumption DEF Unnormal, Bare
    <3>6. Drifts(k, s, c) => w = c + 2
      BY <1>6, <3>1 DEF Drifts, IsPath
    <3>7. ~Unnormal(k, c) /\ ~Drifts(k, s, c) => w = c
      BY <1>6, <3>1 DEF Unnormal, Drifts, IsPath
    <3>8. QED BY <1>6, <3>4, <3>5, <3>6, <3>7
  <2>3. QED BY <2>1, <2>2
<1>7. QED BY <1>1, <1>2, <1>3, <1>4, <1>5, <1>6 DEF Kinds

LEMMA NextField == FieldInv /\ [FieldNext]_fieldVars => FieldInv'
<1> SUFFICES ASSUME FieldInv, [FieldNext]_fieldVars PROVE FieldInv'
  OBVIOUS
<1>1. CASE UNCHANGED fieldVars
  BY <1>1 DEF FieldInv, fieldVars
<1>2. CASE Assign
  BY <1>2 DEF FieldInv, Assign
<1>3. CASE Load
  <2>1. ToPython(kind, storage, column) \in Values(kind)
    BY LoadedType DEF FieldInv
  <2>2. CASE /\ attribute' = ToPython(kind, storage, column) /\ loaded' = TRUE /\ seen' = column
             /\ UNCHANGED <<kind, storage, extensions, column>>
    BY <2>1, <2>2 DEF FieldInv
  <2>3. CASE UNCHANGED <<kind, storage, extensions, column, attribute, loaded, seen>>
    BY <2>3 DEF FieldInv
  <2>4. QED BY <1>3, <2>2, <2>3, Zenon DEF Load
<1>4. CASE Save
  <2>1. ToDb(kind, attribute) \in Contents(kind)
    BY <1>4, SavedType DEF FieldInv, Save, Accepted, Fits
  <2>2. QED BY <1>4, <2>1 DEF FieldInv, Save
<1>5. CASE SaveRaises \/ Overwritten
  BY <1>5 DEF FieldInv, SaveRaises, Overwritten
<1>6. QED BY <1>1, <1>2, <1>3, <1>4, <1>5 DEF FieldNext

\* Saving what was loaded, any number of times, changes a column at most once,
\* unless its storage puts a base path in front: then each time, by that.
THEOREM RewritesSettle == FieldSpec => RewriteSettles
<1>1. FieldInit => FieldInv
  BY DEF FieldInit, FieldInv, Contents, Values
<1>2. ASSUME FieldInv, FieldNext
      PROVE  Save /\ loaded =>
                 /\ ~Unnormal(kind, column')
                 /\ ~Unnormal(kind, seen) /\ ~Drifts(kind, storage, seen) => column' = seen
                 /\ Drifts(kind, storage, seen) => column' = seen + 2
                 /\ kind = "geometry" => seen = Null
  <2>1. Save /\ loaded => /\ column' = ToDb(kind, ToPython(kind, storage, seen))
                          /\ Accepted(ToPython(kind, storage, seen))
    BY <1>2 DEF FieldInv, Save
  <2>2. QED BY <1>2, <2>1, RoundOfField DEF FieldInv
<1>3. QED BY <1>1, <1>2, NextField, PTL DEF FieldSpec, RewriteSettles

-----------------------------------------------------------------------------
(* ClickHouse: one listing. *)

HIDE DEF Empty

\* The letters of a text, one by one.
LEMMA LettersOf ==
    ASSUME NEW x \in Column
    PROVE  /\ x = 0 => Letters(x) = {0} /\ x \div 2 = 0 /\ x % 2 = 0
           /\ x = 1 => Letters(x) = {0, 1} /\ x \div 2 = 0 /\ x % 2 = 1
           /\ x = 2 => Letters(x) = {0, 1} /\ x \div 2 = 1 /\ x % 2 = 0
           /\ x = 3 => Letters(x) = {1} /\ x \div 2 = 1 /\ x % 2 = 1
<1>1. /\ 0 \div 2 = 0 /\ 0 % 2 = 0 /\ 1 \div 2 = 0 /\ 1 % 2 = 1
      /\ 2 \div 2 = 1 /\ 2 % 2 = 0 /\ 3 \div 2 = 1 /\ 3 % 2 = 1
  OBVIOUS
<1>2. QED BY <1>1 DEF Letters

\* A template about letters asks what it should.
LEMMA LikeAsks ==
    ASSUME NEW c \in Conditions, NEW x \in Column \union {SqlNull}, c.op \in Likes, ~c.bool
    PROVE  Holds(c.op, c, x) <=> Asked(c, x)
<1>1. c.value \in {0, 1}
  BY DEF Conditions, Comparisons, Likes
<1>2. CASE x = SqlNull
  <2>1. ~Holds(c.op, c, x)
    <3>1. CASE c.op = "like" BY <1>2, <3>1 DEF Holds
    <3>2. CASE c.op = "not_like" BY <1>2, <3>2 DEF Holds
    <3>3. CASE c.op = "left_like" BY <1>2, <3>3 DEF Holds
    <3>4. CASE c.op = "right_like" BY <1>2, <3>4 DEF Holds
    <3>5. QED BY <3>1, <3>2, <3>3, <3>4 DEF Likes
  <2>2. ~Asked(c, x)
    <3>1. CASE c.op = "like" BY <1>2, <3>1 DEF Asked, Nulls, SqlNull, Column
    <3>2. CASE c.op = "not_like" BY <1>1, <1>2, <3>2 DEF Asked, Nulls, SqlNull
    <3>3. CASE c.op = "left_like" BY <1>1, <1>2, <3>3 DEF Asked, Nulls, SqlNull
    <3>4. CASE c.op = "right_like" BY <1>1, <1>2, <3>4 DEF Asked, Nulls, SqlNull
    <3>5. QED BY <3>1, <3>2, <3>3, <3>4 DEF Likes
  <2>3. QED BY <2>1, <2>2
<1>3. CASE x \in Column
  <2>1. x # SqlNull /\ x \in {0, 1, 2, 3}
    BY <1>3 DEF Column, SqlNull
  <2>2. CASE c.op = "like"
    <3>1. Holds(c.op, c, x) <=> c.value \in Letters(x)
      BY <2>1, <2>2 DEF Holds
    <3>2. Asked(c, x) <=> \E a \in {0, 1} : x \in {2 * c.value + a, 2 * a + c.value}
      BY <1>3, <2>2 DEF Asked, Nulls
    <3>3. CASE c.value = 0
      BY <1>3, <2>1, <3>1, <3>2, <3>3, LettersOf
    <3>4. CASE c.value = 1
      BY <1>3, <2>1, <3>1, <3>2, <3>4, LettersOf
    <3>5. QED BY <1>1, <3>3, <3>4
  <2>3. CASE c.op = "not_like"
    <3>1. Holds(c.op, c, x) <=> c.value \notin Letters(x)
      BY <2>1, <2>3 DEF Holds
    <3>2. Asked(c, x) <=> x = 3 * (1 - c.value)
      BY <2>3 DEF Asked, Nulls
    <3>3. QED BY <1>1, <1>3, <2>1, <3>1, <3>2, LettersOf
  <2>4. CASE c.op = "left_like"
    <3>1. Holds(c.op, c, x) <=> x \div 2 = c.value
      BY <2>1, <2>4 DEF Holds
    <3>2. Asked(c, x) <=> x \in {2 * c.value, 2 * c.value + 1}
      BY <2>4 DEF Asked, Nulls
    <3>3. QED BY <1>1, <1>3, <2>1, <3>1, <3>2, LettersOf
  <2>5. CASE c.op = "right_like"
    <3>1. Holds(c.op, c, x) <=> x % 2 = c.value
      BY <2>1, <2>5 DEF Holds
    <3>2. Asked(c, x) <=> x \in {c.value, 2 + c.value}
      BY <2>5 DEF Asked, Nulls
    <3>3. QED BY <1>1, <1>3, <2>1, <3>1, <3>2, LettersOf
  <2>6. QED BY <2>2, <2>3, <2>4, <2>5 DEF Likes
<1>4. QED BY <1>2, <1>3

\* A template that compares asks what it should.
LEMMA ComparisonAsks ==
    ASSUME NEW c \in Conditions, NEW x \in Column \union {SqlNull},
           c.op \in Comparisons \union {"in"}, ~c.bool
    PROVE  Holds(c.op, c, x) <=> Asked(c, x)
<1>1. c.value \in Nat /\ c.value <= 3 /\ c.list \subseteq Column
  <2>1. c.value \in Column /\ c.list \subseteq Column
    <3>1. CASE c.op \in Comparisons
      BY <3>1 DEF Conditions, Comparisons, Likes
    <3>2. CASE c.op = "in"
      <4>1. c.value = 0 /\ c.list \subseteq Column
        BY <3>2 DEF Conditions, Comparisons, Likes
      <4>2. QED BY <4>1 DEF Column
    <3>3. QED BY <3>1, <3>2
  <2>2. QED BY <2>1 DEF Column
<1>2. /\ x \in Int /\ (x # SqlNull <=> x \in Column) /\ (x \in Column <=> x >= 0 /\ x <= 3)
  BY DEF Column, SqlNull
<1>3. CASE c.op = "eq"
  BY <1>1, <1>2, <1>3 DEF Holds, Asked, Nulls
<1>4. CASE c.op = "neq"
  BY <1>1, <1>2, <1>4 DEF Holds, Asked, Nulls
<1>5. CASE c.op = "gt"
  <2>1. Holds(c.op, c, x) <=> x # SqlNull /\ x > c.value
    BY <1>5 DEF Holds
  <2>2. Asked(c, x) <=> x \in (c.value + 1)..3
    BY <1>5 DEF Asked, Nulls
  <2>3. QED BY <1>1, <1>2, <2>1, <2>2
<1>6. CASE c.op = "gte"
  <2>1. Holds(c.op, c, x) <=> x # SqlNull /\ x >= c.value
    BY <1>6 DEF Holds
  <2>2. Asked(c, x) <=> x \in c.value..3
    BY <1>6 DEF Asked, Nulls
  <2>3. QED BY <1>1, <1>2, <2>1, <2>2
<1>7. CASE c.op = "lt"
  <2>1. Holds(c.op, c, x) <=> x # SqlNull /\ x < c.value
    BY <1>7 DEF Holds
  <2>2. Asked(c, x) <=> x \in 0..(c.value - 1)
    BY <1>7 DEF Asked, Nulls
  <2>3. QED BY <1>1, <1>2, <2>1, <2>2
<1>8. CASE c.op = "lte"
  <2>1. Holds(c.op, c, x) <=> x # SqlNull /\ x <= c.value
    BY <1>8 DEF Holds
  <2>2. Asked(c, x) <=> x \in 0..c.value
    BY <1>8 DEF Asked, Nulls
  <2>3. QED BY <1>1, <1>2, <2>1, <2>2
<1>9. CASE c.op = "in"
  BY <1>1, <1>2, <1>9 DEF Holds, Asked, Nulls
<1>10. QED BY <1>3, <1>4, <1>5, <1>6, <1>7, <1>8, <1>9 DEF Comparisons

\* A condition, rendered, asks what it should.
LEMMA RenderedAsks ==
    ASSUME NEW c \in Conditions, NEW x \in Column \union {SqlNull}, Rendered(c) \in Operators
    PROVE  Holds(Rendered(c), c, x) <=> Asked(c, x)
<1>1. CASE c.op \in Nulls
  <2>1. c.value \in {0, 1}
    BY <1>1 DEF Conditions, Nulls, Comparisons, Likes
  <2>2. CASE c.op = "isnull" /\ c.value = 1
    BY <2>2 DEF Rendered, Holds, Asked, Nulls
  <2>3. CASE c.op = "isnull" /\ c.value = 0
    BY <2>3 DEF Rendered, Holds, Asked, Nulls
  <2>4. CASE c.op = "isnotnull" /\ c.value = 1
    BY <2>4 DEF Rendered, Holds, Asked, Nulls
  <2>5. CASE c.op = "isnotnull" /\ c.value = 0
    BY <2>5 DEF Rendered, Holds, Asked, Nulls
  <2>6. QED BY <1>1, <2>1, <2>2, <2>3, <2>4, <2>5 DEF Nulls
<1>2. CASE c.op \notin Nulls /\ c.bool
  <2>1. c.value \in {0, 1}
    BY <1>2 DEF Conditions
  <2>2. Rendered(c) = "eq"
    BY <1>2 DEF Rendered, Equation, Nulls
  <2>3. Asked(c, x) <=> x = c.value
    BY <1>2 DEF Asked
  <2>4. Holds("eq", c, x) <=> x # SqlNull /\ x = c.value
    BY DEF Holds
  <2>5. QED BY <2>1, <2>2, <2>3, <2>4 DEF SqlNull
<1>3. CASE c.op \notin Nulls /\ ~c.bool
  <2>1. Rendered(c) = c.op
    BY <1>3 DEF Rendered, Equation, Nulls
  <2>2. c.op \in Comparisons \union Likes \union {"in"}
    BY <1>3, <2>1 DEF Operators
  <2>3. QED BY <1>3, <2>1, <2>2, LikeAsks, ComparisonAsks
<1>4. QED BY <1>1, <1>2, <1>3

\* The rows that the statements answer with are those the filter asks for.
LEMMA AnsweringIsSought ==
    ASSUME table \in [RowIds -> Row \union {Absent}], call \in Calls, Renderable(call.filter)
    PROVE  Sought = Answering
<1>1. call.filter \subseteq Conditions
  BY ClickHouseAssumption DEF Calls
<1>2. ASSUME NEW i \in Present, NEW c \in call.filter
      PROVE  Holds(Rendered(c), c, table[i].column) <=> Asked(c, table[i].column)
  <2>1. table[i].column \in Column \union {SqlNull}
    <3>1. table[i] \in Row
      BY <1>2 DEF Present
    <3>2. QED BY <3>1 DEF Row
  <2>2. Rendered(c) \in Operators
    BY DEF Renderable
  <2>3. QED BY <1>1, <2>1, <2>2, RenderedAsks
<1>3. QED BY <1>2 DEF Sought, Answering, Where

LEMMA AnsweringFinite ==
    /\ IsFiniteSet(Answering) /\ Cardinality(Answering) \in Nat
    /\ IsFiniteSet(Present) /\ Cardinality(Present) \in Nat
<1>1. Answering \subseteq RowIds /\ Present \subseteq RowIds
  BY DEF Answering, Present
<1>2. QED BY <1>1, ClickHouseAssumption, FS_Subset, FS_CardinalityType

LEMMA SameAnswers ==
    ASSUME UNCHANGED <<table, call>>
    PROVE  Answering' = Answering /\ \A n : PageSize(n)' = PageSize(n)
  BY DEF Answering, Present, Where, Visible, Joined, PageSize

\* The count and the page are those of one table unless somebody wrote between
\* them or a value changed their texts.
CountInv == CountAsWritten(call.filter) /\ quiet => total = Cardinality(Answering)
PageInv ==
    Reformattable(call.filter) =>
        /\ data \subseteq Answering
        /\ quiet => Cardinality(data) = PageSize(total)
ListingInv ==
    /\ table \in [RowIds -> Row \union {Absent}]
    /\ call \in Calls \union {NoCall}
    /\ step \in {"idle", "count", "fetch", "returned", "raised", "failed"}
    /\ step \in {"idle", "count"} => total = 0 /\ data = {}
    /\ step \in {"count", "fetch", "returned"} => call \in Calls /\ Renderable(call.filter)
    /\ step = "fetch" => total # 0 /\ data = {} /\ CountInv
    /\ step = "returned" => (total = 0 => data = {}) /\ CountInv /\ PageInv

\* A text that is plain is plain for both statements.
LEMMA PlainIsWritten == ASSUME NEW f, Reformattable(f) PROVE CountAsWritten(f)
  BY DEF Reformattable, CountAsWritten

LEMMA NextListing == ListingInv /\ [ClickHouseNext]_chVars => ListingInv'
<1> SUFFICES ASSUME ListingInv, [ClickHouseNext]_chVars PROVE ListingInv'
  OBVIOUS
<1>1. CASE UNCHANGED chVars
  <2>1. UNCHANGED <<table, call, step, total, data, quiet>>
    BY <1>1 DEF chVars
  <2>2. Answering' = Answering /\ PageSize(total)' = PageSize(total)
    BY <2>1, SameAnswers DEF PageSize
  <2>3. QED BY <2>1, <2>2 DEF ListingInv, CountInv, PageInv, Renderable, CountAsWritten, Reformattable
<1>2. CASE GetAll
  BY <1>2 DEF ListingInv, GetAll, Renderable
<1>3. CASE CountRows
  <2>1. Answering' = Answering /\ UNCHANGED <<table, call, data>>
    BY <1>3, SameAnswers DEF CountRows
  <2>2. call \in Calls /\ call.offset \in Nat /\ Renderable(call.filter) /\ data' = {}
    <3>1. call \in Calls /\ Renderable(call.filter) /\ data = {}
      BY <1>3 DEF ListingInv, CountRows
    <3>2. QED BY <2>1, <3>1, ClickHouseAssumption DEF Calls
  <2>3. /\ CountAsWritten(call.filter) => total' = Cardinality(Answering)
        /\ step' \in {"returned", "fetch", "raised"}
        /\ step' = "returned" => total' = 0
        /\ step' = "fetch" => total' # 0
    BY <1>3 DEF CountRows
  <2>4. CountInv'
    BY <2>1, <2>3 DEF CountInv, CountAsWritten
  <2>5. step' = "returned" => PageInv'
    <3>1. Cardinality(data') = 0
      BY <2>2, FS_EmptySet
    <3>2. total' = 0 => PageSize(total)' = 0
      BY <2>1, <2>2 DEF PageSize
    <3>3. QED BY <2>2, <2>3, <3>1, <3>2 DEF PageInv
  <2>6. Renderable(call'.filter)
    BY <2>1, <2>2
  <2>7. QED BY <2>1, <2>2, <2>3, <2>4, <2>5, <2>6 DEF ListingInv
<1>4. CASE FetchRows
  <2>1. Answering' = Answering /\ \A n : PageSize(n)' = PageSize(n)
    BY <1>4, SameAnswers DEF FetchRows
  <2>2. Reformattable(call.filter) =>
            data' \subseteq Answering /\ Cardinality(data') = PageSize(Cardinality(Answering))
    BY <1>4 DEF FetchRows, kSubset
  <2>3. UNCHANGED <<table, call, total, quiet>> /\ step' = "returned" /\ step = "fetch"
    BY <1>4 DEF FetchRows
  <2>4. CountInv /\ total # 0 /\ call \in Calls /\ Renderable(call.filter)
    BY <2>3 DEF ListingInv
  <2>5. CountInv'
    BY <2>1, <2>3, <2>4 DEF CountInv, CountAsWritten
  <2>6. PageSize(total)' = PageSize(total)
    BY <2>3 DEF PageSize
  <2>7. PageInv'
    <3> SUFFICES ASSUME Reformattable(call.filter)
                 PROVE  data' \subseteq Answering /\ (quiet => Cardinality(data') = PageSize(total))
      BY <2>1, <2>3, <2>6 DEF PageInv, Reformattable
    <3>1. quiet => total = Cardinality(Answering)
      BY <2>4, PlainIsWritten DEF CountInv
    <3>2. QED BY <2>2, <3>1
  <2>8. Renderable(call'.filter)
    BY <2>3, <2>4
  <2>9. QED BY <2>3, <2>4, <2>5, <2>7, <2>8 DEF ListingInv
<1>5. CASE StatementFails
  BY <1>5 DEF ListingInv, StatementFails
<1>6. CASE WriteRow
  <2>1. /\ step = "fetch" /\ quiet' = FALSE /\ UNCHANGED <<call, step, total, data>>
        /\ table' \in [RowIds -> Row \union {Absent}]
    BY <1>6 DEF ListingInv, WriteRow
  <2>2. Renderable(call'.filter) /\ CountInv'
    BY <2>1 DEF ListingInv, CountInv
  <2>3. QED BY <2>1, <2>2 DEF ListingInv
<1>7. QED BY <1>1, <1>2, <1>3, <1>4, <1>5, <1>6 DEF ClickHouseNext

\* Every operator of operator_sql_template that get_sql renders asks what the
\* filter asks, and a listing answers with those rows, with their number and a
\* page as full as it can be, when nobody writes between its two statements and
\* no value changes the text of a statement.
THEOREM ListingsAnswerTheFilter == ClickHouseSpec => []FilteredListing
<1>1. ClickHouseInit => ListingInv
  BY DEF ClickHouseInit, ListingInv
<1>2. ListingInv => FilteredListing
  <2> SUFFICES ASSUME ListingInv, step = "returned" PROVE FilteredListing
    BY DEF FilteredListing
  <2>1. Sought = Answering
    BY AnsweringIsSought DEF ListingInv
  <2>2. QED BY <2>1 DEF ListingInv, CountInv, PageInv, FilteredListing
<1>3. QED BY <1>1, <1>2, NextListing, PTL DEF ClickHouseSpec

-----------------------------------------------------------------------------
(* Logging. *)

HandlerKinds == {"none", "intercept", "stream", "null"}

\* What is left to do of a start.
Rests(a, b, c, d) == {<<a, b, c, d>>, <<b, c, d>>, <<c, d>>, <<d>>, <<>>}
StagesOf(by) ==
    IF by = "main" THEN Rests("setup", "arbiter", "worker", "serve")
                   ELSE Rests("arbiter", "worker", "setup", "serve")
Ahead(s) == \E i \in DOMAIN stages : stages[i] = s

LogTypeOK ==
    /\ launch \in Launches /\ stages \in StagesOf(launch.by)
    /\ handler \in [Loggers -> [kind: HandlerKinds, level: {0, 10, 20}]]
    /\ propagate \in [Loggers -> BOOLEAN]
    /\ threshold \in [Loggers -> {0, 10, 20, 30}]
    /\ sink \in {10, 20} /\ record \in Records \union {NoRecord}

\* Nobody gives uvicorn a handler; root always has a level; only Python's warnings
\* get a handler that writes nothing, once loguru is set up.
HandlersInv ==
    /\ handler["uvicorn"] = NoHandler /\ threshold["root"] # 0
    /\ \A l \in Loggers : /\ handler[l].kind = "none" <=> handler[l] = NoHandler
                          /\ handler[l].kind = "null" <=> l = "py.warnings" /\ ~Ahead("setup")
    /\ propagate["py.warnings"] /\ propagate["uvicorn"]

\* A logger with a handler hands its records on only while root has none, unless
\* main.py starts gunicorn with GunicornLogger.
OneHandler ==
    /\ Ahead("arbiter") /\ launch.by = "gunicorn" => \A l \in Loggers : handler[l] = NoHandler
    /\ launch.class = "default" => handler["root"] = NoHandler
    /\ ~(launch.by = "main" /\ launch.class = "GunicornLogger") =>
          \A l \in Loggers \ {"root"} :
             handler[l] # NoHandler /\ propagate[l] => handler["root"] = NoHandler

LogInv == LogTypeOK /\ HandlersInv /\ OneHandler /\ WrittenOnce /\ WarningsArrive

\* What is ahead of each rest of a start.
LEMMA StagesAhead ==
    ASSUME NEW a, NEW b, NEW c, NEW d, NEW x
    PROVE  /\ (\E i \in DOMAIN <<a, b, c, d>> : <<a, b, c, d>>[i] = x) <=> x \in {a, b, c, d}
           /\ (\E i \in DOMAIN <<b, c, d>> : <<b, c, d>>[i] = x) <=> x \in {b, c, d}
           /\ (\E i \in DOMAIN <<c, d>> : <<c, d>>[i] = x) <=> x \in {c, d}
           /\ (\E i \in DOMAIN <<d>> : <<d>>[i] = x) <=> x \in {d}
           /\ ~\E i \in DOMAIN <<>> : <<>>[i] = x
           /\ Head(<<a, b, c, d>>) = a /\ Tail(<<a, b, c, d>>) = <<b, c, d>>
           /\ Head(<<b, c, d>>) = b /\ Tail(<<b, c, d>>) = <<c, d>>
           /\ Head(<<c, d>>) = c /\ Tail(<<c, d>>) = <<d>>
           /\ Head(<<d>>) = d /\ Tail(<<d>>) = <<>>
<1>1. (\E i \in DOMAIN <<a, b, c, d>> : <<a, b, c, d>>[i] = x) <=> x \in {a, b, c, d}
  <2>1. /\ DOMAIN <<a, b, c, d>> = 1..4
        /\ <<a, b, c, d>>[1] = a /\ <<a, b, c, d>>[2] = b /\ <<a, b, c, d>>[3] = c /\ <<a, b, c, d>>[4] = d
    OBVIOUS
  <2> QED BY <2>1
<1>2. (\E i \in DOMAIN <<b, c, d>> : <<b, c, d>>[i] = x) <=> x \in {b, c, d}
  <2>1. DOMAIN <<b, c, d>> = 1..3 /\ <<b, c, d>>[1] = b /\ <<b, c, d>>[2] = c /\ <<b, c, d>>[3] = d
    OBVIOUS
  <2> QED BY <2>1
<1>3. (\E i \in DOMAIN <<c, d>> : <<c, d>>[i] = x) <=> x \in {c, d}
  <2>1. DOMAIN <<c, d>> = 1..2 /\ <<c, d>>[1] = c /\ <<c, d>>[2] = d
    OBVIOUS
  <2> QED BY <2>1
<1>4. (\E i \in DOMAIN <<d>> : <<d>>[i] = x) <=> x \in {d}
  <2>1. DOMAIN <<d>> = 1..1 /\ <<d>>[1] = d
    OBVIOUS
  <2> QED BY <2>1
<1>5. ~\E i \in DOMAIN <<>> : <<>>[i] = x
  OBVIOUS
<1>6. /\ Head(<<a, b, c, d>>) = a /\ Tail(<<a, b, c, d>>) = <<b, c, d>>
      /\ Head(<<b, c, d>>) = b /\ Tail(<<b, c, d>>) = <<c, d>>
      /\ Head(<<c, d>>) = c /\ Tail(<<c, d>>) = <<d>>
      /\ Head(<<d>>) = d /\ Tail(<<d>>) = <<>>
  OBVIOUS
<1> QED BY <1>1, <1>2, <1>3, <1>4, <1>5, <1>6

\* A step of the start takes itself off what is left to do, and nothing else.
LEMMA StageLeaves ==
    ASSUME LogTypeOK, NEW s, Stage(s), launch' = launch
    PROVE  /\ stages' \in StagesOf(launch'.by)
           /\ Ahead(s) /\ \A x : Ahead(x)' <=> Ahead(x) /\ x # s
<1>1. ASSUME NEW a, NEW b, NEW c, NEW d, a # b, a # c, a # d, b # c, b # d, c # d,
             stages \in Rests(a, b, c, d)
      PROVE  /\ stages' \in Rests(a, b, c, d)
             /\ Ahead(s) /\ \A x : Ahead(x)' <=> Ahead(x) /\ x # s
  <2>1. stages # <<>> /\ Head(stages) = s /\ stages' = Tail(stages)
    BY DEF Stage
  <2>2. CASE stages = <<a, b, c, d>>
    BY <1>1, <2>1, <2>2, StagesAhead DEF Ahead, Rests
  <2>3. CASE stages = <<b, c, d>>
    BY <1>1, <2>1, <2>3, StagesAhead DEF Ahead, Rests
  <2>4. CASE stages = <<c, d>>
    BY <1>1, <2>1, <2>4, StagesAhead DEF Ahead, Rests
  <2>5. CASE stages = <<d>>
    BY <1>1, <2>1, <2>5, StagesAhead DEF Ahead, Rests
  <2> QED BY <1>1, <2>1, <2>2, <2>3, <2>4, <2>5 DEF Rests
<1>2. /\ "setup" # "arbiter" /\ "setup" # "worker" /\ "setup" # "serve" /\ "arbiter" # "worker"
      /\ "arbiter" # "serve" /\ "worker" # "serve"
  OBVIOUS
<1>3. CASE launch.by = "main"
  BY <1>1, <1>2, <1>3 DEF LogTypeOK, StagesOf
<1>4. CASE launch.by # "main"
  BY <1>1, <1>2, <1>4 DEF LogTypeOK, StagesOf
<1> QED BY <1>3, <1>4

\* After a step of the start no record is on its way.
LEMMA ForgetsRecord ==
    ASSUME Forget
    PROVE  record' = NoRecord /\ WrittenOnce' /\ WarningsArrive'
<1>1. record' = NoRecord /\ DOMAIN fate' = {} /\ record'.level = 0
  BY DEF Forget, Nothing, NoRecord
<1> QED BY <1>1 DEF WrittenOnce, WarningsArrive, Written

LEMMA LogInitInv == LogInit => LogInv
<1> SUFFICES ASSUME LogInit PROVE LogInv
  OBVIOUS
<1>1. launch \in Launches /\ launch.by \in {"main", "gunicorn"}
  BY DEF LogInit, Launches
<1>2. stages \in StagesOf(launch.by) /\ Ahead("setup") /\ Ahead("arbiter")
  <2>1. CASE launch.by = "main"
    BY <2>1, StagesAhead DEF LogInit, StagesOf, Rests, Order, Ahead
  <2>2. CASE launch.by = "gunicorn"
    BY <2>2, StagesAhead DEF LogInit, StagesOf, Rests, Order, Ahead
  <2> QED BY <1>1, <2>1, <2>2
<1>3. /\ handler = [l \in Loggers |-> NoHandler] /\ NoHandler \in [kind: HandlerKinds, level: {0, 10, 20}]
      /\ NoHandler.kind = "none"
  BY DEF LogInit, NoHandler, HandlerKinds
<1>4. LogTypeOK
  BY <1>1, <1>2, <1>3 DEF LogInit, LogTypeOK
<1>5. HandlersInv
  BY <1>2, <1>3 DEF LogInit, HandlersInv, Loggers
<1>6. OneHandler
  BY <1>3 DEF OneHandler, Loggers
<1>7. WrittenOnce /\ WarningsArrive
  <2>1. DOMAIN fate = {} /\ record.level = 0
    BY DEF LogInit, Nothing, NoRecord
  <2> QED BY <2>1 DEF WrittenOnce, WarningsArrive, Written
<1> QED BY <1>4, <1>5, <1>6, <1>7 DEF LogInv

LEMMA SetupLoguruInv == LogInv /\ SetupLoguru => LogInv'
<1> SUFFICES ASSUME LogInv, SetupLoguru PROVE LogInv'
  OBVIOUS
<1>1. UNCHANGED <<launch, propagate>> /\ LogTypeOK /\ HandlersInv /\ OneHandler
  BY DEF SetupLoguru, LogInv
<1>2. /\ stages' \in StagesOf(launch'.by)
      /\ Ahead("setup") /\ \A x : Ahead(x)' <=> Ahead(x) /\ x # "setup"
  BY <1>1, StageLeaves DEF SetupLoguru
<1>3. /\ record' = NoRecord /\ WrittenOnce' /\ WarningsArrive'
  BY ForgetsRecord DEF SetupLoguru
<1>4. launch.level \in {10, 20} /\ launch.by \in {"main", "gunicorn"}
  BY <1>1 DEF LogTypeOK, Launches
<1> DEFINE null == [kind |-> "null", level |-> 0]
           to == Intercept(launch.level)
<1>5. /\ null \in [kind: HandlerKinds, level: {0, 10, 20}] /\ null.kind = "null" /\ null # NoHandler
      /\ to \in [kind: HandlerKinds, level: {0, 10, 20}] /\ to.kind = "intercept" /\ to # NoHandler
      /\ NoHandler \in [kind: HandlerKinds, level: {0, 10, 20}] /\ NoHandler.kind = "none"
  BY <1>4 DEF HandlerKinds, NoHandler, Intercept
<1>6. handler' = [l \in Loggers |-> IF l = "py.warnings" THEN null
                                    ELSE IF l \in {"root", "uvicorn"} THEN NoHandler
                                    ELSE IF l \in Intercepting THEN to ELSE handler[l]]
  BY DEF SetupLoguru, AfterSetup, Intercepted, Loggers, Intercepting
<1>7. threshold' = [l \in Loggers |-> IF l \in Intercepting \union {"root"} THEN launch.level ELSE threshold[l]]
  BY DEF SetupLoguru, Intercepted
<1> HIDE DEF null, to
<1>8. LogTypeOK'
  <2>1. handler' \in [Loggers -> [kind: HandlerKinds, level: {0, 10, 20}]]
    BY <1>1, <1>5, <1>6 DEF LogTypeOK
  <2>2. threshold' \in [Loggers -> {0, 10, 20, 30}] /\ sink' \in {10, 20}
    BY <1>1, <1>4, <1>7 DEF LogTypeOK, SetupLoguru
  <2> QED BY <1>1, <1>2, <1>3, <2>1, <2>2 DEF LogTypeOK
<1>9. HandlersInv'
  <2>1. "root" \in Loggers /\ "uvicorn" \in Loggers /\ "py.warnings" \notin Intercepting
    BY DEF Loggers, Intercepting
  <2>2. \A l \in Loggers : /\ handler'[l].kind = "none" <=> handler'[l] = NoHandler
                           /\ handler'[l].kind = "null" <=> l = "py.warnings"
    BY <1>1, <1>2, <1>5, <1>6 DEF HandlersInv
  <2>3. handler'["uvicorn"] = NoHandler /\ threshold'["root"] # 0
    BY <1>4, <1>6, <1>7, <2>1
  <2> QED BY <1>1, <1>2, <2>2, <2>3 DEF HandlersInv
<1>10. OneHandler'
  <2>1. handler'["root"] = NoHandler
    BY <1>6 DEF Loggers
  <2>2. ~(Ahead("arbiter") /\ launch.by = "gunicorn")
    <3>1. SUFFICES ASSUME launch.by = "gunicorn" PROVE ~Ahead("arbiter")
      OBVIOUS
    <3>2. stages \in Rests("arbiter", "worker", "setup", "serve")
      BY <1>1, <3>1 DEF LogTypeOK, StagesOf
    <3>3. stages # <<>> /\ Head(stages) = "setup"
      BY DEF SetupLoguru, Stage
    <3>4. stages = <<"setup", "serve">>
      BY <3>2, <3>3, StagesAhead DEF Rests
    <3> QED BY <3>4, StagesAhead DEF Ahead
  <2> QED BY <1>1, <1>2, <2>1, <2>2 DEF OneHandler
<1> QED BY <1>3, <1>8, <1>9, <1>10 DEF LogInv

LEMMA ArbiterInv == LogInv /\ Arbiter => LogInv'
<1> SUFFICES ASSUME LogInv, Arbiter PROVE LogInv'
  OBVIOUS
<1>1. UNCHANGED <<launch, sink>> /\ LogTypeOK /\ HandlersInv /\ OneHandler
  BY DEF Arbiter, LogInv
<1>2. /\ stages' \in StagesOf(launch'.by)
      /\ Ahead("arbiter") /\ \A x : Ahead(x)' <=> Ahead(x) /\ x # "arbiter"
  BY <1>1, StageLeaves DEF Arbiter
<1>3. /\ record' = NoRecord /\ WrittenOnce' /\ WarningsArrive'
  BY ForgetsRecord DEF Arbiter
<1>4. launch.level \in {10, 20} /\ launch.by \in {"main", "gunicorn"} /\ launch.class \in {"default", "GunicornLogger"}
  BY <1>1 DEF LogTypeOK, Launches
<1>5. propagate' = [l \in Loggers |-> l \notin ServerLoggers /\ propagate[l]]
  BY DEF Arbiter
<1> DEFINE stream == [kind |-> "stream", level |-> 0]
           to == Intercept(20)
<1>6. /\ stream \in [kind: HandlerKinds, level: {0, 10, 20}] /\ stream.kind = "stream" /\ stream # NoHandler
      /\ to \in [kind: HandlerKinds, level: {0, 10, 20}] /\ to.kind = "intercept" /\ to # NoHandler
  BY DEF HandlerKinds, NoHandler, Intercept
<1>7. \/ /\ launch.class = "GunicornLogger"
         /\ handler' = [l \in Loggers |-> IF l \in ServerLoggers \union {"root"} THEN to ELSE handler[l]]
         /\ threshold' = [l \in Loggers |-> IF l \in ServerLoggers \union {"root"} THEN 20 ELSE threshold[l]]
      \/ /\ launch.class = "default"
         /\ handler' = [handler EXCEPT !["gunicorn.error"] = stream]
         /\ threshold' = [threshold EXCEPT
                            !["gunicorn.error"] = IF launch.by = "main" THEN launch.level ELSE 20,
                            !["gunicorn.access"] = 20]
  BY <1>4 DEF Arbiter, Intercepted
<1> HIDE DEF stream, to
<1>8. LogTypeOK'
  <2>1. handler' \in [Loggers -> [kind: HandlerKinds, level: {0, 10, 20}]]
    BY <1>1, <1>6, <1>7 DEF LogTypeOK
  <2>2. threshold' \in [Loggers -> {0, 10, 20, 30}]
    BY <1>1, <1>4, <1>7 DEF LogTypeOK
  <2>3. propagate' \in [Loggers -> BOOLEAN]
    BY <1>1, <1>5 DEF LogTypeOK
  <2> QED BY <1>1, <1>2, <1>3, <2>1, <2>2, <2>3 DEF LogTypeOK
<1>9. HandlersInv'
  <2>1. /\ {"root", "uvicorn", "py.warnings", "gunicorn.error"} \subseteq Loggers
        /\ "py.warnings" \notin ServerLoggers \union {"root"} /\ "uvicorn" \notin ServerLoggers \union {"root"}
        /\ "root" \notin ServerLoggers
    BY DEF Loggers, ServerLoggers
  <2>2. \A l \in Loggers : /\ handler'[l].kind = "none" <=> handler'[l] = NoHandler
                           /\ handler'[l].kind = "null" <=> handler[l].kind = "null"
    BY <1>1, <1>6, <1>7, <2>1 DEF HandlersInv, LogTypeOK
  <2>3. handler'["uvicorn"] = NoHandler /\ threshold'["root"] # 0
    BY <1>1, <1>7, <2>1 DEF HandlersInv, LogTypeOK
  <2>4. propagate'["py.warnings"] /\ propagate'["uvicorn"]
    BY <1>1, <1>5, <2>1 DEF HandlersInv
  <2> QED BY <1>1, <1>2, <2>2, <2>3, <2>4 DEF HandlersInv
<1>10. OneHandler'
  <2>1. launch.class = "default" => handler'["root"] = NoHandler
    BY <1>1, <1>7 DEF OneHandler, LogTypeOK, Loggers
  <2>2. ASSUME launch.class = "GunicornLogger", launch.by = "gunicorn", NEW l \in Loggers \ {"root"},
               handler'[l] # NoHandler, propagate'[l]
        PROVE  FALSE
    <3>1. handler[l] = NoHandler
      BY <1>1, <1>2, <2>2 DEF OneHandler
    <3>2. l \in ServerLoggers
      BY <1>7, <2>2, <3>1
    <3> QED BY <1>5, <2>2, <3>2
  <2> QED BY <1>1, <1>2, <1>4, <2>1, <2>2 DEF OneHandler
<1> QED BY <1>3, <1>8, <1>9, <1>10 DEF LogInv

LEMMA WorkerInv == LogInv /\ Worker => LogInv'
<1> SUFFICES ASSUME LogInv, Worker PROVE LogInv'
  OBVIOUS
<1>1. UNCHANGED <<launch, sink>> /\ LogTypeOK /\ HandlersInv /\ OneHandler
  BY DEF Worker, LogInv
<1>2. /\ stages' \in StagesOf(launch'.by)
      /\ \A x : Ahead(x)' <=> Ahead(x) /\ x # "worker"
  BY <1>1, StageLeaves DEF Worker
<1>3. /\ record' = NoRecord /\ WrittenOnce' /\ WarningsArrive'
  BY ForgetsRecord DEF Worker
<1> DEFINE From(l) == IF l = "uvicorn.error" THEN "gunicorn.error"
                      ELSE IF l = "uvicorn.access" THEN "gunicorn.access" ELSE l
<1>4. /\ handler' = [l \in Loggers |-> handler[From(l)]]
      /\ threshold' = [l \in Loggers |-> threshold[From(l)]]
      /\ propagate' = [l \in Loggers |-> propagate[From(l)]]
  BY <1>1 DEF Worker, LogTypeOK
<1>5. \A l \in Loggers : /\ From(l) \in Loggers
                         /\ From(l) = "root" <=> l = "root"
                         /\ From(l) = "py.warnings" <=> l = "py.warnings"
                         /\ l = "uvicorn" => From(l) = l
  BY DEF Loggers
<1> HIDE DEF From
<1>6. {"root", "uvicorn", "py.warnings"} \subseteq Loggers
  BY DEF Loggers
<1>7. LogTypeOK'
  BY <1>1, <1>2, <1>3, <1>4, <1>5 DEF LogTypeOK
<1>8. HandlersInv'
  BY <1>1, <1>2, <1>4, <1>5, <1>6 DEF HandlersInv
<1>9. OneHandler'
  BY <1>1, <1>2, <1>4, <1>5, <1>6 DEF OneHandler
<1> QED BY <1>3, <1>7, <1>8, <1>9 DEF LogInv

LEMMA ServeInv == LogInv /\ Serve => LogInv'
<1> SUFFICES ASSUME LogInv, Serve PROVE LogInv'
  OBVIOUS
<1>1. UNCHANGED <<launch, handler, propagate, threshold, sink>> /\ LogTypeOK /\ HandlersInv /\ OneHandler
  BY DEF Serve, LogInv
<1>2. /\ stages' \in StagesOf(launch'.by)
      /\ \A x : Ahead(x)' <=> Ahead(x) /\ x # "serve"
  BY <1>1, StageLeaves DEF Serve
<1>3. /\ record' = NoRecord /\ WrittenOnce' /\ WarningsArrive'
  BY ForgetsRecord DEF Serve
<1>4. LogTypeOK' /\ HandlersInv' /\ OneHandler'
  BY <1>1, <1>2, <1>3 DEF LogTypeOK, HandlersInv, OneHandler
<1> QED BY <1>3, <1>4 DEF LogInv

-----------------------------------------------------------------------------
(* Records. *)

\* What a handler that writes does with a warning or an error.
LEMMA Delivered ==
    ASSUME LogTypeOK, NEW r \in Records, Speaks(r), r.level >= 30,
           NEW m \in Loggers, handler[m].kind \notin {"none", "null"}
    PROVE  /\ At(m, r) \in {"loguru", "stdout", "stderr", "IndexError"}
           /\ r.exc = "none" => At(m, r) \in {"loguru", "stderr"}
<1>1. /\ handler[m].kind \in {"intercept", "stream"} /\ handler[m].level \in {0, 10, 20}
      /\ sink \in {10, 20}
  BY DEF LogTypeOK, HandlerKinds
<1>2. r.level \in {30, 40} /\ r.exc \in {"none", "caught", "elsewhere"}
  BY DEF Records, Levels
<1>3. ~Ignored(r.logger)
  BY <1>2 DEF Speaks, Ignored
<1>4. Emit(r) \in {"loguru", "stdout", "IndexError"} /\ (r.exc = "none" => Emit(r) = "loguru")
  <2>1. CASE r.exc = "elsewhere"
    BY <1>3, <2>1 DEF Emit
  <2>2. CASE r.exc = "caught"
    BY <1>3, <2>2 DEF Emit
  <2>3. CASE r.exc = "none"
    BY <1>1, <1>2, <1>3, <2>3 DEF Emit
  <2> QED BY <1>2, <2>1, <2>2, <2>3
<1>5. At(m, r) = IF handler[m].kind = "stream" THEN "stderr" ELSE Emit(r)
  BY <1>1, <1>2 DEF At, Does
<1> QED BY <1>1, <1>4, <1>5

\* Of some loggers of a line one is nearest.
LEMMA Nearest ==
    ASSUME NEW l \in Loggers, NEW S \in SUBSET Line(l), S # {}
    PROVE  \E m \in S : S \subseteq Line(m) /\ \A n \in S : ~Beyond(n, m)
<1>1. CASE l \in S
  BY <1>1 DEF Line, Beyond
<1>2. CASE l \notin S /\ "uvicorn" \in S
  BY <1>2 DEF Line, Beyond
<1>3. CASE l \notin S /\ "uvicorn" \notin S
  BY <1>3 DEF Line, Beyond
<1> QED BY <1>1, <1>2, <1>3

\* A warning passes the levels of its line.
LEMMA WarningsEnabled ==
    ASSUME LogTypeOK, HandlersInv, NEW r \in Records, r.level >= 30
    PROVE  Enabled(r)
<1> DEFINE own == {m \in Line(r.logger) : threshold[m] # 0}
<1>1. r.logger \in Loggers /\ r.level \in {30, 40} /\ Line(r.logger) \subseteq Loggers
  BY DEF Records, Levels, Line, Loggers
<1>2. "root" \in own
  BY DEF Line, HandlersInv
<1>3. PICK m \in own : own \subseteq Line(m)
  <2>1. own \in SUBSET Line(r.logger) /\ own # {}
    BY <1>2
  <2> HIDE DEF own
  <2>2. \E m \in own : own \subseteq Line(m) /\ \A n \in own : ~Beyond(n, m)
    BY <1>1, <2>1, Nearest
  <2> QED BY <2>2
<1>4. threshold[m] \in {0, 10, 20, 30}
  BY <1>1 DEF LogTypeOK
<1> QED BY <1>1, <1>3, <1>4 DEF Enabled

LEMMA LogStepInv == LogInv /\ Log => LogInv'
<1> SUFFICES ASSUME LogInv, Log PROVE LogInv'
  OBVIOUS
<1>1. UNCHANGED <<launch, stages, handler, propagate, threshold, sink>> /\ LogTypeOK /\ HandlersInv /\ OneHandler
  BY DEF Log, LogInv
<1>2. PICK r \in Records :
        Speaks(r) /\ record' = r /\ fate' = IF Enabled(r) THEN Fate(r) ELSE Nothing
  BY DEF Log
<1> DEFINE l == r.logger
           met == Met(l)
           ran == {m \in met : \A n \in met : Beyond(n, m) => ~Raised(At(n, r))}
<1>3. l \in Loggers /\ met \subseteq Line(l) /\ Line(l) \subseteq Loggers
  BY DEF Records, Met, Reached, Line, Loggers
<1>4. Fate(r) = IF met = {} THEN [m \in (IF r.level >= 30 THEN {"lastResort"} ELSE {}) |-> "stderr"]
                            ELSE [m \in ran |-> At(m, r)]
  BY DEF Fate
<1>5. LogTypeOK' /\ HandlersInv' /\ OneHandler'
  BY <1>1, <1>2 DEF LogTypeOK, HandlersInv, OneHandler, Ahead
<1> HIDE DEF ran
<1>6. WrittenOnce'
  <2> SUFFICES ASSUME NEW i \in Written', NEW j \in Written', i # j,
                      ~(launch.by = "main" /\ launch.class = "GunicornLogger")
               PROVE  FALSE
    BY <1>1 DEF WrittenOnce
  <2>1. i \in DOMAIN fate' /\ j \in DOMAIN fate'
    BY DEF Written
  <2>2. i \in met /\ j \in met
    BY <1>2, <1>4, <2>1 DEF Nothing, ran
  <2>3. i # "uvicorn" /\ j # "uvicorn"
    BY <1>1, <2>2 DEF Met, HandlersInv
  <2>4. l # "root" /\ l \in met /\ "root" \in met
    BY <1>3, <2>2, <2>3 DEF Line
  <2>5. handler[l] # NoHandler /\ handler["root"] # NoHandler /\ propagate[l]
    BY <2>4 DEF Met, Reached, Beyond, Line
  <2> QED BY <1>1, <1>3, <2>4, <2>5 DEF OneHandler
<1>7. WarningsArrive'
  <2> SUFFICES ASSUME r.level >= 30
               PROVE  IF l = "py.warnings" THEN Written' # {} <=> handler["root"] # NoHandler
                      ELSE Written' # {} \/ \E i \in DOMAIN fate' : Raised(fate'[i])
    BY <1>1, <1>2 DEF WarningsArrive
  <2>1. fate' = Fate(r)
    BY <1>1, <1>2, WarningsEnabled
  <2>2. CASE l = "py.warnings"
    <3>1. ~Ahead("setup") /\ r.exc = "none"
      BY <1>2, <2>2 DEF Speaks, Ahead
    <3>2. handler[l].kind = "null" /\ handler[l] # NoHandler /\ propagate[l]
      BY <1>1, <1>3, <2>2, <3>1 DEF HandlersInv, NoHandler
    <3>3. met = {l} \union (IF handler["root"] # NoHandler THEN {"root"} ELSE {})
      BY <2>2, <3>2 DEF Met, Reached, Line, Beyond
    <3>4. At(l, r) = "dropped"
      BY <3>2 DEF At, Does
    <3>5. ran = met
      BY <2>2, <3>3, <3>4 DEF ran, Beyond, Line, Raised
    <3>6. fate' = [m \in met |-> At(m, r)]
      BY <1>4, <2>1, <3>3, <3>5
    <3>7. handler["root"] # NoHandler => At("root", r) \in {"loguru", "stderr"}
      <4>1. "root" \in Loggers /\ "root" # "py.warnings"
        BY DEF Loggers
      <4>2. handler["root"] # NoHandler => handler["root"].kind \notin {"none", "null"}
        BY <1>1, <4>1 DEF HandlersInv
      <4> QED BY <1>1, <1>2, <3>1, <4>1, <4>2, Delivered
    <3>8. Written' = IF handler["root"] # NoHandler THEN {"root"} ELSE {}
      BY <2>2, <3>3, <3>4, <3>6, <3>7 DEF Written
    <3> QED BY <2>2, <3>8
  <2>3. CASE l # "py.warnings" /\ met = {}
    <3>1. DOMAIN fate' = {"lastResort"} /\ fate'["lastResort"] = "stderr"
      BY <1>4, <2>1, <2>3
    <3> QED BY <2>3, <3>1 DEF Written
  <2>4. CASE l # "py.warnings" /\ met # {}
    <3>1. PICK m \in met : \A n \in met : ~Beyond(n, m)
      <4>1. met \in SUBSET Line(l) /\ l \in Loggers
        BY <1>3
      <4> HIDE DEF met, l
      <4>2. \E m \in met : met \subseteq Line(m) /\ \A n \in met : ~Beyond(n, m)
        BY <2>4, <4>1, Nearest
      <4> QED BY <4>2
    <3>2. m \in ran
      BY <3>1 DEF ran
    <3>3. m \in Loggers /\ m # "py.warnings" /\ handler[m] # NoHandler
      BY <1>3, <2>4, <3>1 DEF Met, Line
    <3>4. handler[m].kind \notin {"none", "null"}
      BY <1>1, <3>3 DEF HandlersInv
    <3>5. m \in DOMAIN fate' /\ fate'[m] = At(m, r)
      BY <1>4, <2>1, <2>4, <3>2
    <3>6. At(m, r) \in {"loguru", "stdout", "stderr", "IndexError"}
      BY <1>1, <1>2, <3>3, <3>4, Delivered
    <3> QED BY <2>4, <3>5, <3>6 DEF Written, Raised
  <2> QED BY <2>2, <2>3, <2>4
<1> QED BY <1>5, <1>6, <1>7 DEF LogInv

LEMMA LogNextInv == LogInv /\ [LogNext]_logVars => LogInv'
<1> SUFFICES ASSUME LogInv, [LogNext]_logVars PROVE LogInv'
  OBVIOUS
<1>1. CASE UNCHANGED logVars
  BY <1>1 DEF logVars, LogInv, LogTypeOK, HandlersInv, OneHandler, WrittenOnce, WarningsArrive, Written, Ahead
<1> QED BY <1>1, SetupLoguruInv, ArbiterInv, WorkerInv, ServeInv, LogStepInv DEF LogNext

\* At every point of every start the handlers are as InterceptHandler, gunicorn and
\* uvicorn leave them, and so no record is written twice and no warning vanishes.
THEOREM LogInvariant == LogSpec => []LogInv
BY LogInitInv, LogNextInv, PTL DEF LogSpec

\* No record is written twice, however and at whatever level the service is
\* started, unless main.py starts gunicorn with GunicornLogger.
THEOREM RecordsWrittenOnce == LogSpec => []WrittenOnce
<1>1. LogInv => WrittenOnce
  BY DEF LogInv
<1> QED BY LogInvariant, <1>1, PTL

\* No warning and no error vanishes at any point of any start, but for the
\* warnings of Python while root has no handler.
THEOREM WarningsAreWritten == LogSpec => []WarningsArrive
<1>1. LogInv => WarningsArrive
  BY DEF LogInv
<1> QED BY LogInvariant, <1>1, PTL

=============================================================================

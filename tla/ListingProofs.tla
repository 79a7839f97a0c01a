---------------------------- MODULE ListingProofs ----------------------------
(***************************************************************************)
(* What a list endpoint promises for every value of the constants of       *)
(* Paging and Schemas: any table, page size and walk, any models, calls    *)
(* and selections of fields.                                               *)
(***************************************************************************)
EXTENDS Paging, Schemas, TLAPS, FiniteSetTheorems, SequenceTheorems, NaturalsInduction, WellFoundedInduction

-----------------------------------------------------------------------------
(* Pages are counted. *)

LEMMA Multiples ==
    ASSUME NEW a \in Int, NEW b \in Int, NEW c \in Nat, a <= b
    PROVE  /\ a * c \in Int /\ b * c \in Int
           /\ a * c <= b * c
           /\ (a + 1) * c = a * c + c /\ (a - 1) * c = a * c - c
<1>1. (b - a) * c \in Int /\ (b - a) * c >= 0
  <2>1. b - a \in Nat
    OBVIOUS
  <2> DEFINE d == b - a
  <2> HIDE DEF d
  <2>2. d \in Nat => d * c \in Int /\ d * c >= 0
    OBVIOUS
  <2> QED BY <2>1, <2>2 DEF d
<1>2. (b - a) * c = b * c - a * c
  OBVIOUS
<1>3. /\ a * c \in Int /\ b * c \in Int
      /\ (a + 1) * c = a * c + c /\ (a - 1) * c = a * c - c
  OBVIOUS
<1> QED BY <1>1, <1>2, <1>3

LEMMA Quotient ==
    ASSUME NEW a \in Nat, NEW c \in Nat \ {0}
    PROVE  /\ a \div c \in Nat
           /\ (a \div c) * c \in Nat
           /\ (a \div c) * c <= a
           /\ a < (a \div c) * c + c
OBVIOUS

\* A number of whole pages divided by the size of one.
LEMMA WholePages ==
    ASSUME NEW p \in Nat, NEW c \in Nat \ {0}
    PROVE  (p * c) \div c = p
<1> DEFINE q == (p * c) \div c
<1>1. p * c \in Nat
  OBVIOUS
<1>2. /\ q \in Nat /\ q * c \in Nat
      /\ q * c <= p * c /\ p * c < q * c + c
  BY <1>1, Quotient
<1> HIDE DEF q
<1>3. CASE q + 1 <= p
  <2>1. (q + 1) * c <= p * c /\ (q + 1) * c = q * c + c
    BY <1>2, <1>3, Multiples
  <2> QED BY <1>1, <1>2, <2>1
<1>4. CASE p + 1 <= q
  <2>1. (p + 1) * c <= q * c /\ (p + 1) * c = p * c + c
    BY <1>2, <1>4, Multiples
  <2> QED BY <1>1, <1>2, <2>1
<1> QED BY <1>2, <1>3, <1>4 DEF q

\* How many pages hold n rows: page p begins before the last of them exactly if
\* it is one of the pages.
LEMMA PagesNeeded ==
    ASSUME NEW n \in Nat, NEW c \in Nat \ {0}, NEW p \in Nat
    PROVE  /\ (n + c - 1) \div c \in Nat
           /\ p <= (n + c - 1) \div c <=> (p - 1) * c < n
<1> DEFINE q == (n + c - 1) \div c
<1>1. /\ q \in Nat /\ q * c \in Nat
      /\ q * c <= n + c - 1 /\ n + c - 1 < q * c + c
  <2>1. n + c - 1 \in Nat
    OBVIOUS
  <2> QED BY <2>1, Quotient
<1> HIDE DEF q
<1>2. (p - 1) * c \in Int /\ p * c \in Int /\ (p - 1) * c = p * c - c
  BY Multiples
<1>3. CASE p <= q
  BY <1>1, <1>2, <1>3, Multiples
<1>4. CASE q + 1 <= p
  <2>1. (q + 1) * c <= p * c /\ (q + 1) * c = q * c + c
    BY <1>1, <1>4, Multiples
  <2> QED BY <1>1, <1>2, <1>4, <2>1
<1> QED BY <1>1, <1>3, <1>4 DEF q

-----------------------------------------------------------------------------
(* Places in the list. *)

\* The types of the variables; always is a part of the list.
PagingTypeOK ==
    /\ row \in [Ids -> {"absent", "in", "out"}]
    /\ created \in [Ids -> Times]
    /\ writes \in Nat
    /\ order \in {"default", "created_at", "-created_at"}
    /\ size \in 1..MaxSize
    /\ page \in Nat \ {0}
    /\ data \in Seq(Ids)
    /\ total \in Nat
    /\ pc \in {"rows", "count", "page", "done"}
    /\ seen \in Seq(Ids)
    /\ always \subseteq Selected
    /\ added \in BOOLEAN /\ left \in BOOLEAN /\ drift \in Int

\* The rows up to i in the order of the list, and the place of i among them.
Upto(i) == {j \in Selected : j = i \/ Precedes(j, i)}
Place(i) == Cardinality(Upto(i))

\* The page size is a positive number, offsets are natural numbers, and the list
\* is finite.
LEMMA Sizes ==
    ASSUME PagingTypeOK
    PROVE  /\ Limit \in Nat \ {0}
           /\ Offset \in Nat /\ Offset = (page - 1) * Limit
           /\ page * Limit \in Nat /\ page * Limit = Offset + Limit
           /\ IsFiniteSet(Selected) /\ Cardinality(Selected) \in Nat
<1>1. Limit \in Nat \ {0}
  BY SizeAssumption DEF Limit, PagingTypeOK
<1>2. page - 1 \in Nat /\ page \in Nat
  BY DEF PagingTypeOK
<1>3. (page - 1) * Limit \in Nat
  BY <1>1, <1>2
<1>4. page * Limit \in Nat /\ (page - 1) * Limit = page * Limit - Limit
  BY <1>1, <1>2, Multiples
<1>5. IsFiniteSet(Selected) /\ Cardinality(Selected) \in Nat
  BY IdsAssumption, FS_Subset, FS_CardinalityType DEF Selected
<1> QED BY <1>1, <1>3, <1>4, <1>5 DEF Offset

\* The places are numbers, from 1 to the number of rows.
LEMMA PlaceType ==
    ASSUME PagingTypeOK, NEW i \in Selected
    PROVE  Place(i) \in 1..Cardinality(Selected)
<1>1. Upto(i) \in SUBSET Selected /\ i \in Upto(i)
  BY DEF Upto
<1>2. IsFiniteSet(Upto(i)) /\ Place(i) <= Cardinality(Selected)
  BY <1>1, Sizes, FS_Subset DEF Place
<1>3. Place(i) \in Nat /\ Place(i) # 0
  BY <1>1, <1>2, FS_CardinalityType, FS_EmptySet DEF Place
<1> QED BY <1>2, <1>3, Sizes

\* Any place is a number, also that of a row to come.
LEMMA PlaceNumber ==
    ASSUME PagingTypeOK', NEW i
    PROVE  Place(i)' \in Nat
<1>1. IsFiniteSet(Selected')
  BY IdsAssumption, FS_Subset DEF Selected
<1>2. Upto(i)' \in SUBSET Selected'
  BY DEF Upto
<1>3. Cardinality(Upto(i)') \in Nat
  BY <1>1, <1>2, FS_Subset, FS_CardinalityType
<1> QED BY <1>3 DEF Place

\* An order without ties is total on the rows.
LEMMA OrderTotal ==
    ASSUME PagingTypeOK, ~Tied, NEW i \in Selected, NEW j \in Selected,
           Precedes(i, j), Precedes(j, i)
    PROVE  i = j
<1>1. i \in Ids /\ j \in Ids /\ i \in Nat /\ j \in Nat
  BY IdsAssumption DEF Selected
<1>2. created[i] \in Nat /\ created[j] \in Nat
  BY <1>1, IdsAssumption DEF PagingTypeOK
<1>3. CASE order = "default"
  BY <1>1, <1>3 DEF Precedes
<1>4. CASE order # "default"
  <2>1. order \in {"created_at", "-created_at"}
    BY <1>4 DEF PagingTypeOK
  <2>2. CASE order = "created_at"
    <3>1. created[i] <= created[j] /\ created[j] <= created[i]
      BY <2>2 DEF Precedes
    <3> QED BY <1>1, <1>2, <1>4, <3>1 DEF Tied
  <2>3. CASE order = "-created_at"
    <3>1. created[i] >= created[j] /\ created[j] >= created[i]
      BY <2>3 DEF Precedes
    <3> QED BY <1>1, <1>2, <1>4, <3>1 DEF Tied
  <2> QED BY <2>1, <2>2, <2>3
<1> QED BY <1>3, <1>4

\* In any ordering of the rows, the row at p has place p, whatever the database
\* chose, and every row is somewhere.
LEMMA PlaceInOrdering ==
    ASSUME PagingTypeOK, NEW s \in Orderings
    PROVE  /\ s \in Seq(Ids) /\ Len(s) = Cardinality(Selected)
           /\ DOMAIN s = 1..Cardinality(Selected)
           /\ \A p, q \in DOMAIN s : s[p] = s[q] => p = q
           /\ \A i \in Selected : \E p \in DOMAIN s : s[p] = i
           /\ \A p \in DOMAIN s : s[p] \in Selected
           /\ ~Tied => \A p \in DOMAIN s : Place(s[p]) = p
<1> DEFINE n == Cardinality(Selected)
<1>1. n \in Nat /\ IsFiniteSet(Selected)
  BY Sizes
<1>2. /\ s \in [1..n -> Selected] /\ \A p, q \in 1..n : p # q => s[p] # s[q]
      /\ \A p, q \in 1..n : p < q => Precedes(s[p], s[q])
  BY DEF Orderings, SetToSeqs
<1> HIDE DEF n
<1>3. s \in Seq(Ids) /\ Len(s) = n /\ DOMAIN s = 1..n
  <2>1. s \in [1..n -> Ids]
    BY <1>2 DEF Selected
  <2> QED BY <1>1, <2>1
<1>4. s \in Surjection(1..n, Selected)
  <2>1. IsFiniteSet(1..n) /\ Cardinality(1..n) = n
    BY <1>1, FS_Interval
  <2>2. s \in Injection(1..n, Selected)
    BY <1>2 DEF Injection, IsInjective
  <2> QED BY <1>1, <2>1, <2>2, FS_Injection DEF n
<1>5. \A i \in Selected : \E p \in 1..n : s[p] = i
  BY <1>4 DEF Surjection
<1>6. ASSUME ~Tied, NEW p \in 1..n PROVE Place(s[p]) = p
  <2> DEFINE f == [q \in 1..p |-> s[q]]
  <2>0. p \in Nat /\ p \in Int /\ s[p] \in Selected /\ \A q \in 1..p : q \in 1..n
    BY <1>1, <1>2, <1>6
  <2>1. \A q \in 1..p : f[q] \in Upto(s[p])
    <3>1. ASSUME NEW q \in 1..p PROVE s[q] \in Upto(s[p])
      BY <1>2, <2>0, <3>1 DEF Upto
    <3> QED BY <3>1
  <2>2. \A j \in Upto(s[p]) : \E q \in 1..p : f[q] = j
    <3>1. SUFFICES ASSUME NEW j \in Upto(s[p]) PROVE \E q \in 1..p : s[q] = j
      OBVIOUS
    <3>2. PICK q \in 1..n : s[q] = j
      BY <1>5 DEF Upto
    <3>3. CASE q > p
      <4>1. Precedes(s[p], s[q]) /\ s[q] # s[p] /\ s[q] \in Selected
        BY <1>2, <2>0, <3>3
      <4>2. Precedes(s[q], s[p])
        BY <3>2, <4>1 DEF Upto
      <4> QED BY <1>6, <2>0, <4>1, <4>2, OrderTotal
    <3>4. CASE q <= p
      BY <2>0, <3>2, <3>4
    <3> QED BY <2>0, <3>3, <3>4
  <2>3. f \in Bijection(1..p, Upto(s[p]))
    <3>1. f \in [1..p -> Upto(s[p])]
      BY <2>1
    <3>2. \A q, r \in 1..p : f[q] = f[r] => q = r
      BY <1>2, <2>0
    <3> HIDE DEF f
    <3> QED BY <2>2, <3>1, <3>2 DEF Bijection, Injection, Surjection, IsInjective
  <2>4. IsFiniteSet(1..p) /\ Cardinality(1..p) = p
    BY <2>0, <1>6, FS_Interval
  <2> QED BY <2>3, <2>4, FS_Bijection DEF Place, ExistsBijection
<1> QED BY <1>2, <1>3, <1>5, <1>6 DEF n

-----------------------------------------------------------------------------
(* The invariant. *)

\* Pages fetched so far reach to this place.
Reach == (IF pc = "rows" THEN page - 1 ELSE page) * Limit

\* As long as no row came into the list, no row was handed out twice, and those
\* handed out that are still in it have places on the pages fetched.
RepeatInv ==
    ~added /\ ~Tied =>
        /\ \A p, q \in DOMAIN seen : seen[p] = seen[q] => p = q
        /\ \A i \in Selected : i \in Range(seen) => Place(i) <= Reach

\* As long as no row left the list, the rows that were in it all the time and
\* were not handed out yet have places on the pages to come; there is such a
\* page by the number of rows that was counted last, and the walk goes on.
SkipInv ==
    ~left /\ ~Tied =>
        \A i \in always : i \notin Range(seen) =>
            /\ Place(i) > Reach
            /\ pc = "page" => total > Reach
            /\ pc # "done"

\* The rows of the page are those of as many rows as there were when they were
\* read: what came in since is subtracted, what left is added.
InfoInv ==
    /\ pc = "count" => /\ Cardinality(Selected) - drift \in Nat
                       /\ Len(data) = OnPage(Cardinality(Selected) - drift)
    /\ pc = "page" => total - drift \in Nat /\ Len(data) = OnPage(total - drift)

WalkInv == RepeatInv /\ SkipInv /\ InfoInv

\* What is on a page.
LEMMA PageRows ==
    ASSUME PagingTypeOK, NEW s \in Orderings
    PROVE  /\ PageOf(s) \in Seq(Ids)
           /\ Len(PageOf(s)) = OnPage(Cardinality(Selected))
           /\ \A p, q \in DOMAIN PageOf(s) : PageOf(s)[p] = PageOf(s)[q] => p = q
           /\ \A p \in DOMAIN PageOf(s) : PageOf(s)[p] \in Selected
           /\ ~Tied => /\ \A p \in DOMAIN PageOf(s) : /\ Place(PageOf(s)[p]) > Offset
                                                      /\ Place(PageOf(s)[p]) <= Offset + Limit
                       /\ \A i \in Selected :
                             Place(i) > Offset /\ Place(i) <= Offset + Limit
                                => \E p \in DOMAIN PageOf(s) : PageOf(s)[p] = i
<1> DEFINE n == Cardinality(Selected)
           last == IF Offset + Limit < n THEN Offset + Limit ELSE n
           t == SubSeq(s, Offset + 1, last)
<1>1. /\ n \in Nat /\ Offset \in Nat /\ Limit \in Nat \ {0} /\ last \in Nat
      /\ last <= n /\ last <= Offset + Limit
  BY Sizes
<1>2. /\ s \in Seq(Ids) /\ Len(s) = n /\ DOMAIN s = 1..n
      /\ \A p, q \in 1..n : s[p] = s[q] => p = q
      /\ \A i \in Selected : \E p \in 1..n : s[p] = i
      /\ \A p \in 1..n : s[p] \in Selected
      /\ ~Tied => \A p \in 1..n : Place(s[p]) = p
  BY PlaceInOrdering
<1>3. PageOf(s) = t
  BY <1>2 DEF PageOf
<1>4. last <= Offset \/ last - Offset \in Nat \ {0}
  BY <1>1
<1> HIDE DEF n
<1>5. \A i \in (Offset + 1)..last : s[i] \in Ids /\ i \in 1..n
  BY <1>1, <1>2
<1>6. /\ t \in Seq(Ids)
      /\ Len(t) = IF Offset + 1 <= last THEN last - (Offset + 1) + 1 ELSE 0
      /\ \A p \in 1..(last - (Offset + 1) + 1) : t[p] = s[Offset + 1 + p - 1]
  BY <1>1, <1>5, SubSeqProperties
<1>7. Len(t) = OnPage(n)
  <2>1. last = IF Offset + Limit < n THEN Offset + Limit ELSE n
    OBVIOUS
  <2> HIDE DEF last, t
  <2>2. CASE n <= Offset
    BY <1>1, <1>6, <2>1, <2>2 DEF OnPage
  <2>3. CASE n > Offset /\ n <= Offset + Limit
    BY <1>1, <1>6, <2>1, <2>3 DEF OnPage
  <2>4. CASE n > Offset + Limit
    BY <1>1, <1>6, <2>1, <2>4 DEF OnPage
  <2> QED BY <1>1, <2>2, <2>3, <2>4
<1> HIDE DEF last, t
<1>8. \A p \in DOMAIN t : p \in Nat \ {0} /\ Offset + p \in 1..n /\ Offset + p <= last
                          /\ t[p] = s[Offset + p]
  <2>1. SUFFICES ASSUME NEW p \in DOMAIN t
                 PROVE  p \in Nat \ {0} /\ Offset + p \in 1..n /\ Offset + p <= last /\ t[p] = s[Offset + p]
    OBVIOUS
  <2>2. t \in Seq(Ids) /\ DOMAIN t = 1..Len(t) /\ Len(t) \in Nat
    BY <1>6
  <2>3. Offset + 1 <= last /\ Len(t) = last - (Offset + 1) + 1
    BY <1>1, <1>6, <2>2
  <2>4. p \in 1..(last - (Offset + 1) + 1) /\ Offset + 1 + p - 1 = Offset + p
    BY <1>1, <2>2, <2>3
  <2>5. t[p] = s[Offset + p]
    BY <1>6, <2>4
  <2> QED BY <1>1, <2>4, <2>5
<1>9. ASSUME NEW p \in Nat, p > Offset, p <= last
      PROVE  p - Offset \in DOMAIN t /\ t[p - Offset] = s[p]
  <2>1. DOMAIN t = 1..(last - (Offset + 1) + 1)
    <3>1. Offset + 1 <= last
      BY <1>1, <1>9
    <3>2. Len(t) = last - (Offset + 1) + 1
      BY <1>6, <3>1
    <3>3. t \in Seq(Ids)
      BY <1>6
    <3>4. DOMAIN t = 1..Len(t)
      BY <3>3
    <3> QED BY <3>2, <3>4
  <2>2. p - Offset \in 1..(last - (Offset + 1) + 1) /\ Offset + 1 + (p - Offset) - 1 = p
    BY <1>1, <1>9
  <2> QED BY <1>6, <2>1, <2>2
<1>10. \A p, q \in DOMAIN t : t[p] = t[q] => p = q
  BY <1>1, <1>2, <1>8
<1>11. \A p \in DOMAIN t : t[p] \in Selected
  BY <1>2, <1>8
<1>12. ASSUME ~Tied, NEW p \in DOMAIN t PROVE Place(t[p]) > Offset /\ Place(t[p]) <= Offset + Limit
  BY <1>1, <1>2, <1>8, <1>12
<1>13. ASSUME ~Tied, NEW i \in Selected, Place(i) > Offset, Place(i) <= Offset + Limit
       PROVE  \E p \in DOMAIN t : t[p] = i
  <2>1. PICK p \in 1..n : s[p] = i /\ Place(i) = p
    BY <1>2, <1>13
  <2>2. p > Offset /\ p <= last
    BY <1>1, <1>13, <2>1 DEF last
  <2> QED BY <1>1, <1>9, <2>1, <2>2
<1> QED BY <1>3, <1>6, <1>7, <1>10, <1>11, <1>12, <1>13 DEF n

-----------------------------------------------------------------------------
(* Writers move rows. *)

\* When no row comes in, places go down; when none goes, they go up.
LEMMA FewerBefore ==
    ASSUME PagingTypeOK, PagingTypeOK', UNCHANGED <<created, order>>, NEW i,
           Selected' \subseteq Selected
    PROVE  Place(i)' <= Place(i) /\ Cardinality(Selected)' <= Cardinality(Selected)
<1>1. Upto(i)' \in SUBSET Upto(i)
  BY DEF Upto, Precedes
<1>2. IsFiniteSet(Selected) /\ IsFiniteSet(Upto(i))
  BY Sizes, FS_Subset DEF Upto
<1>3. Cardinality(Upto(i)') <= Cardinality(Upto(i))
  BY <1>1, <1>2, FS_Subset
<1>4. Cardinality(Selected') <= Cardinality(Selected)
  BY <1>2, FS_Subset
<1> QED BY <1>3, <1>4 DEF Place

LEMMA MoreBefore ==
    ASSUME PagingTypeOK, PagingTypeOK', UNCHANGED <<created, order>>, NEW i,
           Selected \subseteq Selected'
    PROVE  Place(i) <= Place(i)'
<1>1. Upto(i) \in SUBSET Upto(i)'
  BY DEF Upto, Precedes
<1>2. IsFiniteSet(Selected') /\ IsFiniteSet(Upto(i)')
  <2>1. IsFiniteSet(Selected')
    BY IdsAssumption, FS_Subset DEF Selected
  <2>2. Upto(i)' \in SUBSET Selected'
    BY DEF Upto
  <2> QED BY <2>1, <2>2, FS_Subset
<1>3. Cardinality(Upto(i)) <= Cardinality(Upto(i)')
  BY <1>1, <1>2, FS_Subset
<1> QED BY <1>3 DEF Place

-----------------------------------------------------------------------------
(* The steps. *)

LEMMA InitPaging == Init => PagingTypeOK /\ WalkInv
<1> SUFFICES ASSUME Init PROVE PagingTypeOK /\ WalkInv
  OBVIOUS
<1>1. PagingTypeOK
  <2>1. <<>> \in Seq(Ids) /\ 0 \in Nat /\ 0 \in Int /\ 1 \in Nat \ {0}
    OBVIOUS
  <2>2. always \subseteq Selected
    BY DEF Init
  <2> QED BY <2>1, <2>2 DEF Init, PagingTypeOK
<1>2. Reach = 0
  BY <1>1, Sizes DEF Reach, Init
<1>3. \A i \in Selected : Place(i) > 0
  BY <1>1, PlaceType, Sizes
<1>4. \A x : x \notin Range(<<>>)
  BY DEF Range
<1>5. RepeatInv
  BY <1>4 DEF Init, RepeatInv
<1>6. SkipInv
  BY <1>2, <1>3 DEF Init, SkipInv
<1>7. InfoInv
  BY DEF Init, InfoInv
<1> QED BY <1>1, <1>5, <1>6, <1>7 DEF WalkInv

LEMMA RowsStep ==
    ASSUME PagingTypeOK, WalkInv, Rows
    PROVE  PagingTypeOK' /\ WalkInv'
<1>1. PICK s \in Orderings : data' = PageOf(s) /\ seen' = seen \o PageOf(s)
  BY DEF Rows
<1> DEFINE t == PageOf(s)
<1>2. /\ pc = "rows" /\ pc' = "count" /\ drift' = 0
      /\ UNCHANGED <<row, created, writes, order, size, page, total, always, added, left>>
  BY DEF Rows
<1>3. /\ t \in Seq(Ids)
      /\ Len(t) = OnPage(Cardinality(Selected))
      /\ \A p, q \in DOMAIN t : t[p] = t[q] => p = q
      /\ \A p \in DOMAIN t : t[p] \in Selected
      /\ ~Tied => /\ \A p \in DOMAIN t : Place(t[p]) > Offset /\ Place(t[p]) <= Offset + Limit
                  /\ \A i \in Selected : Place(i) > Offset /\ Place(i) <= Offset + Limit
                                            => \E p \in DOMAIN t : t[p] = i
  BY PageRows
<1> HIDE DEF t
<1>4. /\ Selected' = Selected /\ Limit' = Limit /\ Offset' = Offset /\ Tied' = Tied
      /\ \A i : Place(i)' = Place(i)
  BY <1>2 DEF Selected, Limit, Offset, Tied, Place, Upto, Precedes
<1>5. /\ Limit \in Nat \ {0} /\ Offset \in Nat
      /\ Reach = Offset /\ Reach' = Offset + Limit
  BY <1>2, <1>4, Sizes DEF Reach
<1>6. /\ seen' = seen \o t /\ seen \in Seq(Ids) /\ seen' \in Seq(Ids)
      /\ Len(seen') = Len(seen) + Len(t)
      /\ \A i \in 1..(Len(seen) + Len(t)) :
            seen'[i] = IF i <= Len(seen) THEN seen[i] ELSE t[i - Len(seen)]
  BY <1>1, <1>3, ConcatProperties DEF t, PagingTypeOK
<1>7. Range(seen') = Range(seen) \union Range(t)
  BY <1>1, <1>3, RangeConcatenation DEF t, PagingTypeOK
<1>8. PagingTypeOK'
  BY <1>1, <1>2, <1>3, <1>4, <1>6 DEF PagingTypeOK, t
<1>9. RepeatInv'
  <2> SUFFICES ASSUME ~added, ~Tied PROVE RepeatInv'
    BY <1>2, <1>4 DEF RepeatInv
  <2>1. /\ \A p, q \in DOMAIN seen : seen[p] = seen[q] => p = q
        /\ \A i \in Selected : i \in Range(seen) => Place(i) <= Offset
    BY <1>5 DEF WalkInv, RepeatInv
  <2>2. \A i \in Range(t) : i \in Selected /\ Place(i) > Offset /\ Place(i) <= Offset + Limit
    BY <1>3 DEF Range
  <2>3. \A i \in Range(seen) : i \notin Range(t)
    <3>1. \A i \in Selected : Place(i) \in Nat
      BY PlaceType, Sizes
    <3> QED BY <1>5, <2>1, <2>2, <3>1
  <2>4. \A p, q \in DOMAIN seen' : seen'[p] = seen'[q] => p = q
    <3>1. SUFFICES ASSUME NEW p \in DOMAIN seen', NEW q \in DOMAIN seen', seen'[p] = seen'[q]
                   PROVE  p = q
      OBVIOUS
    <3>2. /\ Len(seen) \in Nat /\ Len(t) \in Nat
          /\ DOMAIN seen = 1..Len(seen) /\ DOMAIN t = 1..Len(t)
          /\ p \in 1..(Len(seen) + Len(t)) /\ q \in 1..(Len(seen) + Len(t))
      BY <1>3, <1>6
    <3>3. \A k \in {p, q} : \/ k \in DOMAIN seen /\ seen'[k] = seen[k]
                            \/ k - Len(seen) \in DOMAIN t /\ seen'[k] = t[k - Len(seen)]
      BY <1>6, <3>2
    <3>4. /\ \A k \in DOMAIN seen : seen[k] \in Range(seen)
          /\ \A k \in DOMAIN t : t[k] \in Range(t)
      BY DEF Range
    <3>5. \/ p \in DOMAIN seen /\ q \in DOMAIN seen /\ seen[p] = seen[q]
          \/ /\ p - Len(seen) \in DOMAIN t /\ q - Len(seen) \in DOMAIN t
             /\ t[p - Len(seen)] = t[q - Len(seen)]
      BY <2>3, <3>1, <3>3, <3>4
    <3>6. p = q \/ p - Len(seen) = q - Len(seen)
      BY <1>3, <2>1, <3>5
    <3> QED BY <3>2, <3>6
  <2>5. \A i \in Selected : i \in Range(seen') => Place(i) <= Offset + Limit
    <3>1. \A i \in Selected : Place(i) \in Nat
      BY PlaceType, Sizes
    <3> QED BY <1>5, <1>7, <2>1, <2>2, <3>1
  <2> QED BY <1>4, <1>5, <2>4, <2>5 DEF RepeatInv
<1>10. SkipInv'
  <2> SUFFICES ASSUME ~left, ~Tied, NEW i \in always, i \notin Range(seen')
               PROVE  Place(i) > Offset + Limit
    BY <1>2, <1>4, <1>5 DEF SkipInv
  <2>1. i \in Selected /\ Place(i) \in Nat /\ Place(i) > Offset
    BY <1>5, <1>7, PlaceType, Sizes DEF PagingTypeOK, WalkInv, SkipInv
  <2>2. ~\E p \in DOMAIN t : t[p] = i
    BY <1>7 DEF Range
  <2> QED BY <1>3, <1>5, <2>1, <2>2
<1>11. InfoInv'
  <2>1. Cardinality(Selected') - drift' = Cardinality(Selected) /\ Cardinality(Selected) \in Nat
    BY <1>2, <1>4, Sizes
  <2>2. OnPage(Cardinality(Selected) - drift)' = OnPage(Cardinality(Selected))
    BY <1>4, <2>1 DEF OnPage
  <2> QED BY <1>1, <1>2, <1>3, <2>1, <2>2 DEF InfoInv, t
<1> QED BY <1>8, <1>9, <1>10, <1>11 DEF WalkInv

LEMMA CountStep ==
    ASSUME PagingTypeOK, WalkInv, Count
    PROVE  PagingTypeOK' /\ WalkInv'
<1>1. /\ pc = "count" /\ pc' = "page" /\ total' = Cardinality(Selected)
      /\ UNCHANGED <<row, created, writes, order, size, page, data, seen, always, added, left, drift>>
  BY DEF Count
<1>2. /\ Selected' = Selected /\ Limit' = Limit /\ Offset' = Offset /\ Tied' = Tied
      /\ \A i : Place(i)' = Place(i)
  BY <1>1 DEF Selected, Limit, Offset, Tied, Place, Upto, Precedes
<1>3. Reach' = Reach /\ Reach \in Nat /\ Cardinality(Selected) \in Nat
  BY <1>1, <1>2, Sizes DEF Reach
<1>4. PagingTypeOK'
  BY <1>1, <1>2, <1>3 DEF PagingTypeOK
<1>5. RepeatInv'
  BY <1>1, <1>2, <1>3 DEF WalkInv, RepeatInv
<1>6. SkipInv'
  <2> SUFFICES ASSUME ~left, ~Tied, NEW i \in always, i \notin Range(seen)
               PROVE  Place(i) > Reach /\ Cardinality(Selected) > Reach
    BY <1>1, <1>2, <1>3 DEF SkipInv
  <2>1. Place(i) > Reach /\ Place(i) \in 1..Cardinality(Selected)
    BY PlaceType DEF WalkInv, SkipInv, PagingTypeOK
  <2> QED BY <1>3, <2>1
<1>7. InfoInv'
  <2>1. OnPage(total - drift)' = OnPage(Cardinality(Selected) - drift)
    BY <1>1, <1>2 DEF OnPage
  <2> QED BY <1>1, <2>1 DEF WalkInv, InfoInv
<1> QED BY <1>4, <1>5, <1>6, <1>7 DEF WalkInv

LEMMA NextPageStep ==
    ASSUME PagingTypeOK, WalkInv, NextPage
    PROVE  PagingTypeOK' /\ WalkInv'
<1>1. /\ pc = "page"
      /\ UNCHANGED <<row, created, writes, order, size, data, total, seen, always, added, left, drift>>
      /\ \/ page' = page + 1 /\ pc' = "rows"
         \/ page' = page /\ pc' = "done" /\ ~(page < TotalPage)
  BY DEF NextPage
<1>2. /\ Selected' = Selected /\ Limit' = Limit /\ Tied' = Tied
      /\ \A i : Place(i)' = Place(i)
  BY <1>1 DEF Selected, Limit, Tied, Place, Upto, Precedes
<1>3. /\ page \in Nat /\ Reach = page * Limit /\ Reach' = page * Limit /\ Reach \in Nat
      /\ Limit \in Nat \ {0}
  BY <1>1, <1>2, Sizes DEF Reach, PagingTypeOK
<1>4. PagingTypeOK'
  BY <1>1, <1>2 DEF PagingTypeOK
<1>5. RepeatInv'
  BY <1>1, <1>2, <1>3 DEF WalkInv, RepeatInv
<1>6. SkipInv'
  <2> SUFFICES ASSUME ~left, ~Tied, NEW i \in always, i \notin Range(seen)
               PROVE  Place(i) > Reach /\ pc' # "done"
    BY <1>1, <1>2, <1>3 DEF SkipInv
  <2>1. Place(i) > Reach /\ total > page * Limit
    BY <1>1, <1>3 DEF WalkInv, SkipInv
  <2>2. page + 1 <= TotalPage
    <3>1. total \in Nat /\ page + 1 \in Nat /\ (page + 1) - 1 = page
      BY <1>3 DEF PagingTypeOK
    <3> QED BY <1>3, <2>1, <3>1, PagesNeeded DEF TotalPage
  <2>3. TotalPage \in Nat
    BY <1>3, PagesNeeded DEF TotalPage, PagingTypeOK
  <2> QED BY <1>1, <1>3, <2>1, <2>2, <2>3
<1>7. InfoInv'
  BY <1>1 DEF InfoInv
<1> QED BY <1>4, <1>5, <1>6, <1>7 DEF WalkInv

LEMMA WriteStep ==
    ASSUME PagingTypeOK, WalkInv, Write
    PROVE  PagingTypeOK' /\ WalkInv'
<1>1. PICK i \in Ids, v \in {"in", "out"} :
        /\ row[i] # v
        /\ row' = [row EXCEPT ![i] = v]
        /\ always' = always \ {i}
        /\ added' = (added \/ v = "in")
        /\ left' = (left \/ row[i] = "in")
        /\ drift' = IF pc # "count" THEN drift
                    ELSE IF v = "in" THEN drift + 1
                    ELSE IF row[i] = "in" THEN drift - 1 ELSE drift
  BY DEF Write
<1>2. /\ writes' = writes + 1 /\ pc # "done"
      /\ UNCHANGED <<created, order, size, page, data, total, pc, seen>>
  BY DEF Write
<1>3. /\ Limit' = Limit /\ Tied' = Tied /\ Reach' = Reach
  BY <1>2 DEF Limit, Tied, Reach
<1>4. Selected' = IF v = "in" THEN Selected \union {i} ELSE Selected \ {i}
  BY <1>1 DEF Selected, PagingTypeOK
<1>5. PagingTypeOK'
  <2>1. row' \in [Ids -> {"absent", "in", "out"}]
    BY <1>1 DEF PagingTypeOK
  <2>2. always' \subseteq Selected'
    BY <1>1, <1>4 DEF PagingTypeOK
  <2>3. added' \in BOOLEAN /\ left' \in BOOLEAN /\ drift' \in Int
    BY <1>1 DEF PagingTypeOK
  <2>4. writes' \in Nat
    BY <1>2 DEF PagingTypeOK
  <2>5. /\ created \in [Ids -> Times] /\ order \in {"default", "created_at", "-created_at"} /\ size \in 1..MaxSize
        /\ page \in Nat \ {0} /\ data \in Seq(Ids) /\ total \in Nat
        /\ pc \in {"rows", "count", "page", "done"} /\ seen \in Seq(Ids)
    BY DEF PagingTypeOK
  <2> QED BY <1>2, <2>1, <2>2, <2>3, <2>4, <2>5 DEF PagingTypeOK
<1>6. Reach \in Nat
  BY Sizes DEF Reach, PagingTypeOK
<1>7. RepeatInv'
  <2> SUFFICES ASSUME ~added', ~Tied PROVE RepeatInv'
    BY <1>3 DEF RepeatInv
  <2>1. ~added /\ Selected' \subseteq Selected
    BY <1>1, <1>4
  <2>2. ASSUME NEW j \in Selected', j \in Range(seen) PROVE Place(j)' <= Reach
    <3>1. Place(j)' <= Place(j)
      BY <1>2, <1>5, <2>1, FewerBefore
    <3>2. Place(j) <= Reach
      BY <2>1, <2>2 DEF WalkInv, RepeatInv
    <3>3. Place(j) \in Nat /\ Place(j)' \in Nat
      BY <1>5, <2>1, <2>2, PlaceType, PlaceNumber, Sizes
    <3> QED BY <1>6, <3>1, <3>2, <3>3
  <2> QED BY <1>2, <1>3, <2>1, <2>2 DEF WalkInv, RepeatInv
<1>8. SkipInv'
  <2> SUFFICES ASSUME ~left', ~Tied, NEW j \in always', j \notin Range(seen)
               PROVE  Place(j)' > Reach /\ (pc = "page" => total > Reach)
    BY <1>2, <1>3 DEF SkipInv
  <2>1. ~left /\ Selected \subseteq Selected' /\ j \in always /\ j \in Selected
    BY <1>1, <1>4 DEF Selected, PagingTypeOK
  <2>2. Place(j) > Reach /\ (pc = "page" => total > Reach)
    BY <2>1 DEF WalkInv, SkipInv
  <2>3. Place(j) <= Place(j)'
    BY <1>2, <1>5, <2>1, MoreBefore
  <2>4. Place(j) \in Nat /\ Place(j)' \in Nat
    BY <1>5, <2>1, PlaceType, PlaceNumber, Sizes
  <2> QED BY <1>6, <2>2, <2>3, <2>4
<1>9. InfoInv'
  <2>1. Offset' = Offset
    BY <1>2, <1>3 DEF Offset
  <2>2. CASE pc = "count"
    <3>1. Cardinality(Selected') - drift' = Cardinality(Selected) - drift
      <4>1. /\ IsFiniteSet(Selected) /\ Cardinality(Selected) \in Nat /\ drift \in Int
            /\ (row[i] = "in" <=> i \in Selected)
        BY Sizes DEF PagingTypeOK, Selected
      <4>2. CASE v = "in"
        <5>1. i \notin Selected /\ drift' = drift + 1 /\ Selected' = Selected \union {i}
          BY <1>1, <1>4, <2>2, <4>1, <4>2
        <5>2. Cardinality(Selected') = Cardinality(Selected) + 1
          BY <4>1, <5>1, FS_AddElement
        <5> QED BY <4>1, <5>1, <5>2
      <4>3. CASE v = "out" /\ i \in Selected
        <5>1. drift' = drift - 1 /\ Selected' = Selected \ {i}
          BY <1>1, <1>4, <2>2, <4>1, <4>3
        <5>2. Cardinality(Selected') = Cardinality(Selected) - 1
          BY <4>1, <4>3, <5>1, FS_RemoveElement
        <5> QED BY <4>1, <5>1, <5>2
      <4>4. CASE v = "out" /\ i \notin Selected
        <5>1. drift' = drift /\ Selected' = Selected
          BY <1>1, <1>4, <2>2, <4>1, <4>4
        <5> QED BY <5>1
      <4> QED BY <1>1, <4>2, <4>3, <4>4
    <3>2. OnPage(Cardinality(Selected) - drift)' = OnPage(Cardinality(Selected) - drift)
      BY <1>3, <2>1, <3>1 DEF OnPage
    <3> QED BY <1>2, <2>2, <3>1, <3>2 DEF WalkInv, InfoInv
  <2>3. CASE pc # "count"
    <3>1. drift' = drift /\ total' = total /\ pc' = pc /\ data' = data
      BY <1>1, <1>2, <2>3
    <3>2. OnPage(total - drift)' = OnPage(total - drift)
      BY <1>3, <2>1, <3>1 DEF OnPage
    <3> QED BY <2>3, <3>1, <3>2 DEF WalkInv, InfoInv
  <2> QED BY <2>2, <2>3
<1> QED BY <1>5, <1>7, <1>8, <1>9 DEF WalkInv

LEMMA PagingStep ==
    ASSUME PagingTypeOK, WalkInv, [Next]_vars
    PROVE  PagingTypeOK' /\ WalkInv'
<1>1. CASE Rows
  BY <1>1, RowsStep
<1>2. CASE Count
  BY <1>2, CountStep
<1>3. CASE NextPage
  BY <1>3, NextPageStep
<1>4. CASE Write
  BY <1>4, WriteStep
<1>5. CASE UNCHANGED vars
  <2>1. /\ Selected' = Selected /\ Limit' = Limit /\ Offset' = Offset /\ Tied' = Tied /\ Reach' = Reach
        /\ \A i : Place(i)' = Place(i)
    BY <1>5 DEF vars, Selected, Limit, Offset, Tied, Reach, Place, Upto, Precedes
  <2>2. PagingTypeOK'
    BY <1>5, <2>1 DEF vars, PagingTypeOK
  <2>3. RepeatInv' /\ SkipInv'
    BY <1>5, <2>1 DEF vars, WalkInv, RepeatInv, SkipInv
  <2>4. InfoInv'
    BY <1>5, <2>1 DEF vars, WalkInv, InfoInv, OnPage
  <2> QED BY <2>2, <2>3, <2>4 DEF WalkInv
<1> QED BY <1>1, <1>2, <1>3, <1>4, <1>5 DEF Next

\* Whatever pages are asked for and whoever writes meanwhile, the variables keep
\* their types, and rows handed out and rows still to come have places on the two
\* sides of where the walk has come to (paginate, get_all, generate_page_info).
THEOREM WalkIsInvariant == Spec => [](PagingTypeOK /\ WalkInv)
<1>1. PagingTypeOK /\ WalkInv /\ [Next]_vars => (PagingTypeOK /\ WalkInv)'
  BY PagingStep
<1> QED BY InitPaging, <1>1, PTL DEF Spec

-----------------------------------------------------------------------------
(* What the client sees. *)

\* A walk to the last page shows every row that was in the list all the time, if
\* no row left the list and the order has no ties, however many rows came in
\* between two pages or between the rows of a page and their number (get_all).
THEOREM NothingIsSkipped == Spec => []NothingSkipped
<1>1. PagingTypeOK /\ WalkInv => NothingSkipped
  BY DEF WalkInv, SkipInv, NothingSkipped
<1> QED BY WalkIsInvariant, <1>1, PTL

\* No row is on two pages, or twice on one, as long as none came into the list and
\* the order has no ties, whatever rows left it (get_all).
THEOREM RepeatsOnlyAfterInsert == Spec => []RepeatsOnlyByShift
<1>1. PagingTypeOK /\ WalkInv => RepeatsOnlyByShift
  BY DEF WalkInv, RepeatInv, RepeatsOnlyByShift
<1> QED BY WalkIsInvariant, <1>1, PTL

\* The page info generate_page_info computes from the number of rows fits the
\* rows of the page, for every page size, every page and every number of rows,
\* up to what others wrote between the two statements: rows that left in between
\* never make it promise rows the page has not, rows that came in never make it
\* deny the page.
THEOREM PageInfoIsRight == Spec => []PageInfoAgrees
<1>1. PagingTypeOK /\ WalkInv => PageInfoAgrees
  <2> SUFFICES ASSUME PagingTypeOK, WalkInv, pc = "page"
               PROVE  /\ PageNumber = page
                      /\ Len(data) = OnPage(total - drift)
                      /\ drift <= 0 =>
                            /\ page <= TotalPage => data # <<>>
                            /\ page < TotalPage => Len(data) = Limit
                      /\ drift >= 0 /\ data # <<>> => page <= TotalPage
    BY DEF PageInfoAgrees
  <2>1. /\ Limit \in Nat \ {0} /\ Offset \in Nat /\ Offset = (page - 1) * Limit
        /\ page * Limit = Offset + Limit
    BY Sizes
  <2>2. /\ page \in Nat /\ page - 1 \in Nat /\ (page + 1) - 1 = page
        /\ total \in Nat /\ drift \in Int /\ data \in Seq(Ids)
    BY DEF PagingTypeOK
  <2>3. PageNumber = page
    <3>1. Offset \div Limit = page - 1
      BY <2>1, <2>2, WholePages
    <3> QED BY <2>2, <3>1 DEF PageNumber
  <2>4. TotalPage \in Nat /\ (page <= TotalPage <=> Offset < total)
    BY <2>1, <2>2, PagesNeeded DEF TotalPage
  <2>5. page + 1 <= TotalPage <=> Offset + Limit < total
    <3>1. page + 1 \in Nat
      BY <2>2
    <3> QED BY <2>1, <2>2, <3>1, PagesNeeded DEF TotalPage
  <2>6. total - drift \in Nat /\ Len(data) = OnPage(total - drift)
    BY DEF WalkInv, InfoInv
  <2>7. data = <<>> <=> Len(data) = 0
    BY <2>2
  <2> DEFINE n == total - drift
  <2> HIDE DEF n
  <2>8. Len(data) = 0 <=> total - drift <= Offset
    <3>1. n \in Nat /\ Len(data) = OnPage(n)
      BY <2>6 DEF n
    <3>2. Len(data) = 0 <=> n <= Offset
      BY <2>1, <3>1 DEF OnPage
    <3> QED BY <3>2 DEF n
  <2>9. total - drift > Offset + Limit => Len(data) = Limit
    <3>1. n \in Nat /\ Len(data) = OnPage(n)
      BY <2>6 DEF n
    <3>2. n > Offset + Limit => Len(data) = Limit
      BY <2>1, <3>1 DEF OnPage
    <3> QED BY <3>2 DEF n
  <2>10. drift <= 0 =>
           /\ page <= TotalPage => data # <<>>
           /\ page < TotalPage => Len(data) = Limit
    <3> SUFFICES ASSUME drift <= 0
                 PROVE  /\ page <= TotalPage => data # <<>>
                        /\ page < TotalPage => Len(data) = Limit
      OBVIOUS
    <3>1. total <= total - drift
      BY <2>2
    <3>2. Offset < total => total - drift > Offset
      BY <2>1, <2>2, <3>1
    <3>3. Offset + Limit < total => total - drift > Offset + Limit
      BY <2>1, <2>2, <3>1
    <3>4. page <= TotalPage => data # <<>>
      BY <2>1, <2>4, <2>6, <2>7, <2>8, <3>2
    <3>5. page < TotalPage => page + 1 <= TotalPage
      BY <2>2, <2>4
    <3> QED BY <2>5, <2>9, <3>3, <3>4, <3>5
  <2>11. drift >= 0 /\ data # <<>> => page <= TotalPage
    <3> SUFFICES ASSUME drift >= 0, data # <<>> PROVE page <= TotalPage
      OBVIOUS
    <3>1. total - drift > Offset
      BY <2>1, <2>6, <2>7, <2>8
    <3>2. total > Offset
      BY <2>1, <2>2, <3>1
    <3> QED BY <2>4, <3>2
  <2>12. Len(data) = OnPage(total - drift)
    BY <2>6
  <2> QED BY <2>3, <2>10, <2>11, <2>12
<1> QED BY WalkIsInvariant, <1>1, PTL

-----------------------------------------------------------------------------
(* Relations and what is prefetched of them. *)

\* A path names at least one field.
IsPath(p) == p \in Seq(Range(p)) /\ p # <<>>

\* Every relation is on the way of something that is fetched.
Covered(rels, fetch) ==
    /\ \A r \in rels \union fetch : IsPath(r)
    /\ \A r \in rels : \E p \in fetch : IsPrefix(r, p)

FrameFields == {"cls", "name", "include", "exclude", "cycles", "stack", "todo", "paths", "rels", "fetch"}
FrameCovered(fr) == DOMAIN fr = FrameFields /\ Covered(fr.rels, fr.fetch)

\* A schema made by this creator.
SchemaCovered(s) == s.family = "repo" /\ Covered(s.rels, s.fetch)

\* The schemas of calls in progress, of the index and of the answers fetch every
\* relation; a selection does as well, unless its schema came from the library.
FetchInv ==
    /\ frames \in Seq(Range(frames)) /\ \A fr \in Range(frames) : FrameCovered(fr)
    /\ index \in [DOMAIN index -> Range(index)]
    /\ \A n \in DOMAIN index : SchemaCovered(index[n])
    /\ made \in Seq(Range(made))
    /\ \A s \in Range(made) : s = KeyError \/ SchemaCovered(s)
    /\ Unfetched(selection.schema) = IF selection.of = "library" THEN selection.schema.rels ELSE {}

\* A sequence and one that is longer by an element are sequences of their elements.
LEMMA OwnAppend ==
    ASSUME NEW s, s \in Seq(Range(s)), NEW x
    PROVE  /\ Append(s, x) \in Seq(Range(Append(s, x)))
           /\ Range(Append(s, x)) = Range(s) \union {x}
<1> DEFINE S == Range(s) \union {x}
<1>1. s \in Seq(S) /\ x \in S
  BY SeqMonotonic
<1> HIDE DEF S
<1>2. /\ Append(s, x) \in Seq(S) /\ Len(Append(s, x)) = Len(s) + 1
      /\ \A i \in 1..Len(s) : Append(s, x)[i] = s[i]
      /\ Append(s, x)[Len(s) + 1] = x
  BY <1>1, AppendProperties
<1>3. Range(Append(s, x)) = {Append(s, x)[i] : i \in 1..Len(Append(s, x))} /\ Range(s) = {s[i] : i \in 1..Len(s)}
  BY <1>1, <1>2, RangeEquality
<1>4. Len(s) \in Nat
  BY <1>1
<1>5. Range(Append(s, x)) = Range(s) \union {x}
  BY <1>2, <1>3, <1>4
<1> QED BY <1>2, <1>5, SeqOfRange

\* So are one whose first element is replaced, one without it, and one with another
\* in front.
LEMMA OwnReplace ==
    ASSUME NEW s, s \in Seq(Range(s)), s # <<>>, NEW x
    PROVE  /\ [s EXCEPT ![1] = x] \in Seq(Range([s EXCEPT ![1] = x]))
           /\ Range([s EXCEPT ![1] = x]) \subseteq Range(s) \union {x}
<1> DEFINE S == Range(s) \union {x}
<1>1. s \in Seq(S) /\ x \in S
  BY SeqMonotonic
<1> HIDE DEF S
<1>2. 1 \in 1..Len(s)
  BY <1>1, EmptySeq
<1>3. [s EXCEPT ![1] = x] \in Seq(S)
  BY <1>1, <1>2, ExceptSeq
<1> QED BY <1>3, SeqOfRange, RangeOfSeq DEF S

LEMMA OwnTail ==
    ASSUME NEW s, s \in Seq(Range(s)), s # <<>>
    PROVE  Tail(s) \in Seq(Range(Tail(s))) /\ Range(Tail(s)) \subseteq Range(s)
<1>1. Tail(s) \in Seq(Range(s))
  BY HeadTailProperties
<1> QED BY <1>1, SeqOfRange, RangeOfSeq

LEMMA OwnPush ==
    ASSUME NEW s, s \in Seq(Range(s)), NEW x
    PROVE  /\ <<x>> \o s \in Seq(Range(<<x>> \o s))
           /\ Range(<<x>> \o s) = {x} \union Range(s)
<1> DEFINE S == Range(s) \union {x}
<1>1. s \in Seq(S) /\ <<x>> \in Seq(S) /\ Range(<<x>>) = {x}
  <2>1. s \in Seq(S)
    BY SeqMonotonic
  <2>2. <<x>> \in Seq(S) /\ Len(<<x>>) = 1 /\ <<x>>[1] = x
    OBVIOUS
  <2>3. Range(<<x>>) = {<<x>>[i] : i \in 1..1}
    BY <2>2, RangeEquality
  <2> QED BY <2>1, <2>2, <2>3
<1> HIDE DEF S
<1>2. <<x>> \o s \in Seq(S)
  BY <1>1, ConcatProperties
<1>3. <<x>> \o s \in Seq(Range(<<x>> \o s))
  BY <1>2, SeqOfRange
<1>4. Range(<<x>> \o s) = Range(<<x>>) \union Range(s)
  <2> DEFINE one == <<x>>
  <2>1. one \in Seq(S) /\ s \in Seq(S)
    BY <1>1
  <2> HIDE DEF one
  <2>2. Range(one \o s) = Range(one) \union Range(s)
    BY <2>1, RangeConcatenation
  <2> QED BY <2>2 DEF one
<1> QED BY <1>1, <1>3, <1>4

\* Going into a nested schema makes a path longer by its first field.
LEMMA PathStep ==
    ASSUME NEW f, NEW p, IsPath(p)
    PROVE  /\ IsPath(<<f>>) /\ IsPath(<<f>> \o p)
           /\ Len(<<f>> \o p) = Len(p) + 1 /\ Len(p) \in Nat \ {0}
           /\ (<<f>> \o p)[1] = f
           /\ \A i \in 1..Len(p) : (<<f>> \o p)[i + 1] = p[i]
<1> DEFINE S == Range(p) \union {f}
<1>1. p \in Seq(S) /\ p # <<>>
  BY SeqMonotonic DEF IsPath
<1>2. <<f>> \in Seq(S) /\ Len(<<f>>) = 1 /\ <<f>>[1] = f /\ <<f>> # <<>>
  OBVIOUS
<1> HIDE DEF S
<1>3. Len(p) \in Nat \ {0}
  BY <1>1, EmptySeq
<1>4. /\ <<f>> \o p \in Seq(S) /\ Len(<<f>> \o p) = Len(p) + 1
      /\ \A i \in 1..(1 + Len(p)) : (<<f>> \o p)[i] = IF i <= 1 THEN <<f>>[i] ELSE p[i - 1]
  BY <1>1, <1>2, <1>3, ConcatProperties
<1>5. (<<f>> \o p)[1] = f
  BY <1>2, <1>3, <1>4
<1>6. \A i \in 1..Len(p) : (<<f>> \o p)[i + 1] = p[i]
  BY <1>3, <1>4
<1>7. <<f>> \o p # <<>>
  BY <1>3, <1>4
<1> QED BY <1>2, <1>3, <1>4, <1>5, <1>6, <1>7, SeqOfRange DEF IsPath

LEMMA PrefixIs ==
    ASSUME NEW r, NEW p, IsPath(r), IsPath(p)
    PROVE  IsPrefix(r, p) <=> Len(r) <= Len(p) /\ \A i \in 1..Len(r) : r[i] = p[i]
<1> DEFINE S == Range(r) \union Range(p)
<1>1. r \in Seq(S) /\ p \in Seq(S) /\ Len(r) \in Nat /\ Len(p) \in Nat
  BY SeqMonotonic DEF IsPath
<1> HIDE DEF S
<1>2. ASSUME Len(r) <= Len(p)
      PROVE  SubSeq(r, 1, Len(r)) = SubSeq(p, 1, Len(r)) <=> \A i \in 1..Len(r) : r[i] = p[i]
  <2>1. /\ SubSeq(r, 1, Len(r)) = [i \in 1..Len(r) |-> r[i]]
        /\ SubSeq(p, 1, Len(r)) = [i \in 1..Len(r) |-> p[i]]
    BY <1>1, <1>2
  <2> QED BY <2>1
<1> QED BY <1>1, <1>2 DEF IsPrefix

LEMMA NestPrefix ==
    ASSUME NEW f, NEW p, IsPath(p)
    PROVE  /\ IsPrefix(<<f>>, <<f>>) /\ IsPrefix(<<f>>, <<f>> \o p)
           /\ \A r : IsPath(r) /\ IsPrefix(r, p) => IsPrefix(<<f>> \o r, <<f>> \o p)
<1>1. /\ IsPath(<<f>>) /\ IsPath(<<f>> \o p)
      /\ Len(<<f>> \o p) = Len(p) + 1 /\ Len(p) \in Nat \ {0}
      /\ (<<f>> \o p)[1] = f
      /\ \A i \in 1..Len(p) : (<<f>> \o p)[i + 1] = p[i]
  BY PathStep
<1>2. Len(<<f>>) = 1 /\ <<f>>[1] = f
  OBVIOUS
<1>3. IsPrefix(<<f>>, <<f>>) /\ IsPrefix(<<f>>, <<f>> \o p)
  <2> DEFINE one == <<f>>
             longer == one \o p
  <2>1. /\ IsPath(one) /\ IsPath(longer) /\ Len(one) = 1 /\ Len(longer) \in Nat \ {0}
        /\ one[1] = f /\ longer[1] = f
    BY <1>1, <1>2
  <2> HIDE DEF one, longer
  <2>2. \A i \in 1..Len(one) : one[i] = longer[i]
    BY <2>1
  <2>3. IsPrefix(one, longer)
    BY <2>1, <2>2, PrefixIs
  <2>4. IsPrefix(one, one)
    BY <2>1, PrefixIs
  <2> QED BY <2>3, <2>4 DEF one, longer
<1>4. ASSUME NEW r, IsPath(r), IsPrefix(r, p) PROVE IsPrefix(<<f>> \o r, <<f>> \o p)
  <2>1. /\ IsPath(<<f>> \o r) /\ Len(<<f>> \o r) = Len(r) + 1 /\ Len(r) \in Nat \ {0}
        /\ (<<f>> \o r)[1] = f
        /\ \A i \in 1..Len(r) : (<<f>> \o r)[i + 1] = r[i]
    BY <1>4, PathStep
  <2>2. Len(r) <= Len(p) /\ \A i \in 1..Len(r) : r[i] = p[i]
    BY <1>4, PrefixIs
  <2>3. ASSUME NEW i \in 1..(Len(r) + 1) PROVE (<<f>> \o r)[i] = (<<f>> \o p)[i]
    <3>1. CASE i = 1
      BY <1>1, <2>1, <3>1
    <3>2. CASE i # 1
      <4>1. i - 1 \in 1..Len(r) /\ i - 1 \in 1..Len(p) /\ (i - 1) + 1 = i
        BY <1>1, <2>1, <2>2, <2>3, <3>2
      <4> QED BY <1>1, <2>1, <2>2, <4>1
    <3> QED BY <3>1, <3>2
  <2>4. Len(<<f>> \o r) <= Len(<<f>> \o p)
    BY <1>1, <2>1, <2>2
  <2> QED BY <1>1, <2>1, <2>3, <2>4, PrefixIs
<1> QED BY <1>3, <1>4

\* With a nested schema, its relations are fetched through it, and it is fetched
\* itself if it has none.
LEMMA CoveredNest ==
    ASSUME NEW rels, NEW fetch, Covered(rels, fetch), NEW s, SchemaCovered(s), NEW f
    PROVE  Covered(rels \union {<<f>>} \union Nest(f, s.rels), fetch \union Fetch(f, s))
<1>1. /\ s.family = "repo"
      /\ \A r \in s.rels \union s.fetch : IsPath(r)
      /\ \A r \in s.rels : \E p \in s.fetch : IsPrefix(r, p)
  BY DEF SchemaCovered, Covered
<1>2. IsPath(<<f>>)
  <2>1. <<f>> \in Seq({f}) /\ <<f>> # <<>>
    OBVIOUS
  <2> QED BY <2>1, SeqOfRange DEF IsPath
<1>3. CASE s.fetch = {}
  <2>1. Nest(f, s.rels) = {} /\ Fetch(f, s) = {<<f>>}
    BY <1>1, <1>3 DEF Nest, Fetch
  <2>2. IsPrefix(<<f>>, <<f>>)
    BY <1>2, NestPrefix
  <2> QED BY <1>2, <2>1, <2>2 DEF Covered
<1>4. CASE s.fetch # {}
  <2>1. Fetch(f, s) = Nest(f, s.fetch)
    BY <1>1, <1>4 DEF Fetch
  <2>2. \A r \in Nest(f, s.rels) \union Nest(f, s.fetch) : IsPath(r)
    <3>1. \A r \in s.rels \union s.fetch : IsPath(<<f>> \o r)
      BY <1>1, PathStep
    <3> QED BY <3>1 DEF Nest
  <2>3. ASSUME NEW r \in Nest(f, s.rels) PROVE \E p \in Nest(f, s.fetch) : IsPrefix(r, p)
    <3>1. PICK q \in s.rels : r = <<f>> \o q
      BY <2>3 DEF Nest
    <3>2. PICK p \in s.fetch : IsPrefix(q, p)
      BY <1>1
    <3>3. IsPrefix(<<f>> \o q, <<f>> \o p)
      BY <1>1, <3>2, NestPrefix
    <3> QED BY <3>1, <3>3 DEF Nest
  <2>4. \E p \in Nest(f, s.fetch) : IsPrefix(<<f>>, p)
    <3>1. PICK p \in s.fetch : TRUE
      BY <1>4
    <3> QED BY <1>1, <3>1, NestPrefix DEF Nest
  <2> QED BY <1>2, <2>1, <2>2, <2>3, <2>4 DEF Covered
<1> QED BY <1>3, <1>4

\* A selection takes the fields of a relation as a whole, and what is fetched of it.
LEMMA SelectionFetches ==
    ASSUME NEW s, SchemaCovered(s), NEW fields
    PROVE  Unfetched(SubFields(s, fields)) = {}
<1> DEFINE In(paths) == {p \in paths : p[1] \in fields}
           t == SubFields(s, fields)
<1>1. t.family = "repo" /\ t.rels = In(s.rels) /\ t.fetch = In(s.fetch)
  BY DEF SubFields, Schema
<1>2. ASSUME NEW r \in In(s.rels) PROVE \E p \in In(s.fetch) : IsPrefix(r, p)
  <2>1. PICK p \in s.fetch : IsPrefix(r, p)
    BY DEF SchemaCovered, Covered
  <2>2. IsPath(r) /\ IsPath(p)
    BY DEF SchemaCovered, Covered
  <2>3. Len(r) \in Nat \ {0} /\ \A i \in 1..Len(r) : r[i] = p[i]
    <3>1. Len(r) \in Nat \ {0}
      BY <2>2, EmptySeq DEF IsPath
    <3> QED BY <2>1, <2>2, <3>1, PrefixIs
  <2>4. p[1] = r[1]
    BY <2>3
  <2> QED BY <2>1, <2>4
<1> HIDE DEF t
<1> QED BY <1>1, <1>2 DEF Unfetched, Prefetches, t

-----------------------------------------------------------------------------
(* The steps. *)

LEMMA NoneCovered == Covered({}, {})
  BY DEF Covered

\* The schema of a frame that has no relations left to follow is registered, or
\* one that is there under its name: either fetches every relation.
LEMMA AnswerCovered ==
    ASSUME FetchInv, frames # <<>>, index' = Answer
    PROVE  /\ index' \in [DOMAIN index' -> Range(index')]
           /\ \A n \in DOMAIN index' : SchemaCovered(index'[n])
           /\ Name(Top) \in DOMAIN index'
<1> DEFINE s == Schema("repo", Top.cls, Top.paths, Top.rels, Top.fetch)
           name == Name(Top)
<1>1. SchemaCovered(s)
  <2>1. Top \in Range(frames)
    <3>1. Len(frames) \in Nat \ {0} /\ DOMAIN frames = 1..Len(frames)
      BY EmptySeq, LenProperties DEF FetchInv
    <3> QED BY <3>1 DEF Range, Top
  <2> QED BY <2>1 DEF FetchInv, FrameCovered, SchemaCovered, Schema
<1>2. index' = [n \in DOMAIN index \union {name} |-> IF n \in DOMAIN index THEN index[n] ELSE s]
  BY DEF Answer, Register
<1> HIDE DEF s, name
<1>3. \A n \in DOMAIN index' : SchemaCovered(index'[n])
  BY <1>1, <1>2 DEF FetchInv
<1>4. index' \in [DOMAIN index' -> Range(index')]
  BY <1>2 DEF Range
<1>5. name \in DOMAIN index'
  BY <1>2
<1> QED BY <1>3, <1>4, <1>5 DEF name

LEMMA NewFrameCovered ==
    ASSUME NEW c, NEW name, NEW include, NEW exclude, NEW readonly, NEW cycles, NEW stack
    PROVE  FrameCovered(Frame(c, name, include, exclude, readonly, cycles, stack))
BY NoneCovered DEF Frame, FrameCovered, FrameFields

LEMMA SchemaInitFetch == SchemaInit => FetchInv
<1> SUFFICES ASSUME SchemaInit PROVE FetchInv
  OBVIOUS
<1>1. frames = <<>> /\ made = <<>> /\ Range(<<>>) = {} /\ <<>> \in Seq(Range(<<>>))
  BY DEF SchemaInit, Range
<1>2. DOMAIN index = {} /\ index \in [DOMAIN index -> Range(index)]
  BY DEF SchemaInit, Range
<1>3. Unfetched(selection.schema) = {} /\ selection.of # "library"
  BY DEF SchemaInit, Unfetched, KeyError, Schema
<1> QED BY <1>1, <1>2, <1>3 DEF FetchInv

LEMMA CallFetch == FetchInv /\ Call => FetchInv'
<1> SUFFICES ASSUME FetchInv, Call PROVE FetchInv'
  OBVIOUS
<1>1. UNCHANGED <<index, selection>> /\ Unfetched(selection.schema)' = Unfetched(selection.schema)
  BY DEF Call, Unfetched, Prefetches
<1>2. PICK c \in Calls :
        \/ made' = Append(made, KeyError) /\ UNCHANGED frames
        \/ /\ frames' = <<Frame(c.cls, c.name, c.include, c.exclude, c.readonly, c.cycles, <<>>)>>
           /\ UNCHANGED made
  BY DEF Call
<1>3. /\ made' \in Seq(Range(made')) /\ \A s \in Range(made') : s = KeyError \/ SchemaCovered(s)
  <2>1. /\ Append(made, KeyError) \in Seq(Range(Append(made, KeyError)))
        /\ Range(Append(made, KeyError)) = Range(made) \union {KeyError}
    BY OwnAppend DEF FetchInv
  <2> QED BY <1>2, <2>1 DEF FetchInv
<1>4. /\ frames' \in Seq(Range(frames')) /\ \A fr \in Range(frames') : FrameCovered(fr)
  <2>1. ASSUME NEW fr, FrameCovered(fr)
        PROVE  <<fr>> \in Seq(Range(<<fr>>)) /\ \A e \in Range(<<fr>>) : FrameCovered(e)
    <3>1. <<fr>> \in Seq({fr})
      OBVIOUS
    <3>2. Range(<<fr>>) \in SUBSET {fr}
      BY <3>1, RangeOfSeq
    <3>3. <<fr>> \in Seq(Range(<<fr>>))
      BY <3>1, SeqOfRange
    <3> QED BY <2>1, <3>2, <3>3
  <2>2. FrameCovered(Frame(c.cls, c.name, c.include, c.exclude, c.readonly, c.cycles, <<>>))
    BY NewFrameCovered
  <2> QED BY <1>2, <2>1, <2>2 DEF FetchInv
<1> QED BY <1>1, <1>3, <1>4 DEF FetchInv

LEMMA LeaveOutFetch == FetchInv /\ LeaveOut => FetchInv'
<1> SUFFICES ASSUME FetchInv, LeaveOut PROVE FetchInv'
  OBVIOUS
<1>1. /\ UNCHANGED <<index, asked, made, selection>> /\ frames # <<>>
      /\ Unfetched(selection.schema)' = Unfetched(selection.schema)
  BY DEF LeaveOut, Unfetched, Prefetches
<1> DEFINE fr == [[Top EXCEPT !.todo = @ \ {Field}] EXCEPT !.exclude = @ \union {<<Field>>}]
<1>2. 1 \in DOMAIN frames /\ Top \in Range(frames)
  <2>1. Len(frames) \in Nat \ {0} /\ DOMAIN frames = 1..Len(frames)
    BY <1>1, EmptySeq, LenProperties DEF FetchInv
  <2> QED BY <2>1 DEF Range, Top
<1>3. FrameCovered(fr)
  BY <1>2 DEF FetchInv, FrameCovered, FrameFields
<1>4. frames' = [frames EXCEPT ![1] = fr]
  BY <1>2 DEF LeaveOut, Top
<1> HIDE DEF fr
<1>5. frames' \in Seq(Range(frames')) /\ \A e \in Range(frames') : FrameCovered(e)
  <2>1. /\ [frames EXCEPT ![1] = fr] \in Seq(Range([frames EXCEPT ![1] = fr]))
        /\ Range([frames EXCEPT ![1] = fr]) \subseteq Range(frames) \union {fr}
    BY <1>1, OwnReplace DEF FetchInv
  <2> QED BY <1>3, <1>4, <2>1 DEF FetchInv
<1> QED BY <1>1, <1>5 DEF FetchInv

LEMMA DescendFetch == FetchInv /\ Descend => FetchInv'
<1> SUFFICES ASSUME FetchInv, Descend PROVE FetchInv'
  OBVIOUS
<1>1. UNCHANGED <<index, selection>> /\ Unfetched(selection.schema)' = Unfetched(selection.schema)
  BY DEF Descend, Unfetched, Prefetches
<1> DEFINE fr == Frame(Nested, NoName, Under(Field, Top.include), Under(Field, Top.exclude), FALSE,
                       Allowed(Top.cycles), NewStack)
<1>2. \/ made' = Append(made, KeyError) /\ frames' = <<>>
      \/ frames' = <<fr>> \o frames /\ UNCHANGED made
  BY DEF Descend
<1>3. FrameCovered(fr)
  BY NewFrameCovered
<1> HIDE DEF fr
<1>4. /\ made' \in Seq(Range(made')) /\ \A s \in Range(made') : s = KeyError \/ SchemaCovered(s)
  <2>1. /\ Append(made, KeyError) \in Seq(Range(Append(made, KeyError)))
        /\ Range(Append(made, KeyError)) = Range(made) \union {KeyError}
    BY OwnAppend DEF FetchInv
  <2> QED BY <1>2, <2>1 DEF FetchInv
<1>5. frames' \in Seq(Range(frames')) /\ \A e \in Range(frames') : FrameCovered(e)
  <2>1. Range(<<>>) = {} /\ <<>> \in Seq(Range(<<>>))
    BY DEF Range
  <2>2. <<fr>> \o frames \in Seq(Range(<<fr>> \o frames)) /\ Range(<<fr>> \o frames) = {fr} \union Range(frames)
    BY OwnPush DEF FetchInv
  <2> QED BY <1>2, <1>3, <2>1, <2>2 DEF FetchInv
<1> QED BY <1>1, <1>4, <1>5 DEF FetchInv

LEMMA NestsFetch == FetchInv /\ Nests => FetchInv'
<1> SUFFICES ASSUME FetchInv, Nests PROVE FetchInv'
  OBVIOUS
<1>1. /\ UNCHANGED <<asked, made, selection>> /\ index' = Answer
      /\ Unfetched(selection.schema)' = Unfetched(selection.schema)
  BY DEF Nests, Unfetched, Prefetches
<1>2. Len(frames) \in Nat /\ Len(frames) > 1 /\ DOMAIN frames = 1..Len(frames) /\ frames # <<>>
  BY LenProperties DEF Nests, FetchInv
<1>3. /\ index' \in [DOMAIN index' -> Range(index')]
      /\ \A n \in DOMAIN index' : SchemaCovered(index'[n])
      /\ Name(Top) \in DOMAIN index'
  BY <1>1, <1>2, AnswerCovered
<1> DEFINE s == index'[Name(Top)]
           f == Last(Top.stack)[2]
           rest == Tail(frames)
           old == rest[1]
           fr == [old EXCEPT !.todo = @ \ {f},
                             !.paths = @ \union {<<f>>} \union Nest(f, s.paths),
                             !.rels = @ \union {<<f>>} \union Nest(f, s.rels),
                             !.fetch = @ \union Fetch(f, s)]
<1>4. /\ rest \in Seq(Range(rest)) /\ Range(rest) \subseteq Range(frames)
      /\ rest # <<>> /\ 1 \in DOMAIN rest /\ old \in Range(rest)
  <2>1. rest \in Seq(Range(rest)) /\ Range(rest) \subseteq Range(frames)
    BY <1>2, OwnTail DEF FetchInv
  <2>2. Len(rest) = Len(frames) - 1 /\ DOMAIN rest = 1..Len(rest)
    BY <1>2, <2>1, HeadTailProperties, LenProperties DEF FetchInv
  <2> HIDE DEF rest
  <2>3. Len(rest) \in Nat \ {0} /\ 1 \in DOMAIN rest
    BY <1>2, <2>2
  <2>4. rest # <<>>
    BY <2>3
  <2> QED BY <2>1, <2>3, <2>4 DEF Range
<1>5. frames' = [rest EXCEPT ![1] = fr]
  <2>1. frames' = [rest EXCEPT ![1].todo = @ \ {f},
                               ![1].paths = @ \union {<<f>>} \union Nest(f, s.paths),
                               ![1].rels = @ \union {<<f>>} \union Nest(f, s.rels),
                               ![1].fetch = @ \union Fetch(f, s)]
    BY DEF Nests
  <2> HIDE DEF rest, f, s
  <2> QED BY <1>4, <2>1
<1>6. FrameCovered(fr)
  <2>1. FrameCovered(old) /\ SchemaCovered(s)
    BY <1>3, <1>4 DEF FetchInv
  <2>2. Covered(old.rels \union {<<f>>} \union Nest(f, s.rels), old.fetch \union Fetch(f, s))
    BY <2>1, CoveredNest DEF FrameCovered
  <2> HIDE DEF old, f, s
  <2>3. DOMAIN fr = FrameFields /\ fr.rels = old.rels \union {<<f>>} \union Nest(f, s.rels)
        /\ fr.fetch = old.fetch \union Fetch(f, s)
    BY <2>1 DEF FrameCovered, FrameFields
  <2> QED BY <2>2, <2>3 DEF FrameCovered
<1> HIDE DEF fr, rest
<1>7. frames' \in Seq(Range(frames')) /\ \A e \in Range(frames') : FrameCovered(e)
  <2>1. /\ [rest EXCEPT ![1] = fr] \in Seq(Range([rest EXCEPT ![1] = fr]))
        /\ Range([rest EXCEPT ![1] = fr]) \subseteq Range(rest) \union {fr}
    BY <1>4, OwnReplace
  <2> QED BY <1>4, <1>5, <1>6, <2>1 DEF FetchInv
<1> QED BY <1>1, <1>3, <1>7 DEF FetchInv

LEMMA ReturnFetch == FetchInv /\ Return => FetchInv'
<1> SUFFICES ASSUME FetchInv, Return PROVE FetchInv'
  OBVIOUS
<1>1. /\ UNCHANGED <<asked, selection>> /\ index' = Answer /\ frames' = <<>>
      /\ made' = Append(made, index'[Name(Top)])
      /\ Unfetched(selection.schema)' = Unfetched(selection.schema)
  BY DEF Return, Unfetched, Prefetches
<1>2. frames # <<>>
  BY DEF Return
<1>3. /\ index' \in [DOMAIN index' -> Range(index')]
      /\ \A n \in DOMAIN index' : SchemaCovered(index'[n])
      /\ Name(Top) \in DOMAIN index'
  BY <1>1, <1>2, AnswerCovered
<1>4. made' \in Seq(Range(made')) /\ \A s \in Range(made') : s = KeyError \/ SchemaCovered(s)
  BY <1>1, <1>3, OwnAppend DEF FetchInv
<1>5. frames' \in Seq(Range(frames')) /\ \A e \in Range(frames') : FrameCovered(e)
  BY <1>1 DEF Range
<1> QED BY <1>1, <1>3, <1>4, <1>5 DEF FetchInv

\* What was answered is fetched as a whole.
LEMMA MadeCovered == FetchInv => \A s \in Made : SchemaCovered(s)
  BY DEF FetchInv, Made, Range

LEMMA SelectFetch == FetchInv /\ Select => FetchInv'
<1> SUFFICES ASSUME FetchInv, Select PROVE FetchInv'
  OBVIOUS
<1>1. UNCHANGED <<frames, index, asked, made>>
  BY DEF Select
<1>2. PICK s \in Declared \union Made, fields \in Selections :
        selection' = [of |-> s.family, schema |-> SubFields(s, fields \union {"id"})]
  BY DEF Select
<1> DEFINE t == SubFields(s, fields \union {"id"})
<1>3. CASE s \in Declared
  <2>1. s.family = "library" /\ s.fetch = {}
    BY <1>3, DeclaredAssumption
  <2>2. t.family = "repo" /\ t.fetch = {}
    BY <2>1 DEF SubFields, Schema
  <2> HIDE DEF t
  <2>3. Unfetched(t) = t.rels
    BY <2>2 DEF Unfetched, Prefetches
  <2> QED BY <1>1, <1>2, <2>1, <2>3 DEF FetchInv, t
<1>4. CASE s \in Made
  <2>1. SchemaCovered(s)
    BY <1>4, MadeCovered
  <2>2. s.family = "repo" /\ Unfetched(t) = {}
    BY <2>1, SelectionFetches DEF SchemaCovered
  <2> HIDE DEF t
  <2> QED BY <1>1, <1>2, <2>2 DEF FetchInv, t
<1> QED BY <1>2, <1>3, <1>4

LEMMA SchemaStepFetch == FetchInv /\ [SchemaNext]_schemaVars => FetchInv'
<1> SUFFICES ASSUME FetchInv, [SchemaNext]_schemaVars PROVE FetchInv'
  OBVIOUS
<1>1. CASE UNCHANGED schemaVars
  BY <1>1 DEF schemaVars, FetchInv, Unfetched, Prefetches
<1> QED BY <1>1, CallFetch, LeaveOutFetch, DescendFetch, NestsFetch, ReturnFetch, SelectFetch DEF SchemaNext

\* from_queryset prefetches every relation of every schema made by this creator, at
\* every depth, whatever calls and names made it, and of a selection from it; of a
\* selection from a schema of the library it prefetches none.
THEOREM RelationsAreFetched == SchemaSpec => []UnfetchedOnlyInSelections
<1>1. FetchInv => UnfetchedOnlyInSelections
  <2>1. ASSUME NEW s, SchemaCovered(s) PROVE Unfetched(s) = {}
    BY <2>1 DEF SchemaCovered, Covered, Unfetched, Prefetches
  <2> QED BY <2>1, MadeCovered DEF FetchInv, UnfetchedOnlyInSelections
<1> QED BY SchemaInitFetch, SchemaStepFetch, <1>1, PTL DEF SchemaSpec

-----------------------------------------------------------------------------
(* Ways: the relations that a call follows, one after the other. *)

\* The names that occur in the parameters of calls and in ways.
Names ==
    (UNION {Range(p) : p \in UNION {c.include \union c.exclude : c \in Calls}})
    \union UNION {DOMAIN Model[d].to : d \in DOMAIN Model}
\* The paths of parameters.
Paths == Seq(Names) \ {<<>>}

LEMMA ParametersArePaths == \A c \in Calls : c.include \subseteq Paths /\ c.exclude \subseteq Paths
<1> SUFFICES ASSUME NEW c \in Calls, NEW p \in c.include \union c.exclude PROVE p \in Paths
  OBVIOUS
<1>1. p \in Seq(Range(p)) /\ p # <<>>
  BY CallsAssumption
<1>2. Range(p) \subseteq Names
  BY DEF Names
<1> QED BY <1>1, <1>2, SeqMonotonic DEF Paths

LEMMA StepParts ==
    ASSUME NEW s \in Steps
    PROVE  /\ s = <<s[1], s[2]>> /\ s[1] \in DOMAIN Model /\ s[2] \in DOMAIN Model[s[1]].to
           /\ s[2] \in Names
<1>1. PICK d \in DOMAIN Model : s \in {<<d, f>> : f \in DOMAIN Model[d].to}
  BY DEF Steps
<1>2. PICK f \in DOMAIN Model[d].to : s = <<d, f>>
  BY <1>1
<1>3. f \in Names
  BY DEF Names
<1> QED BY <1>2, <1>3

LEMMA FieldsOfWay ==
    ASSUME NEW w \in Seq(Steps)
    PROVE  /\ Fields(w) \in Seq(Names) /\ Len(Fields(w)) = Len(w)
           /\ \A i \in 1..Len(w) : Fields(w)[i] = w[i][2]
<1>1. DOMAIN w = 1..Len(w) /\ Len(w) \in Nat
  BY LenProperties
<1>2. \A i \in 1..Len(w) : w[i][2] \in Names
  BY ElementOfSeq, StepParts
<1>3. Fields(w) = [i \in 1..Len(w) |-> w[i][2]]
  BY <1>1 DEF Fields
<1> QED BY <1>1, <1>2, <1>3

LEMMA FieldsOfStep ==
    ASSUME NEW s \in Steps PROVE <<s>> \in Seq(Steps) /\ Fields(<<s>>) = <<s[2]>>
<1>1. <<s>> \in Seq(Steps) /\ Len(<<s>>) = 1 /\ <<s>>[1] = s
  OBVIOUS
<1>2. /\ Fields(<<s>>) \in Seq(Names) /\ Len(Fields(<<s>>)) = Len(<<s>>)
      /\ \A i \in 1..Len(<<s>>) : Fields(<<s>>)[i] = <<s>>[i][2]
  BY <1>1, FieldsOfWay
<1>3. s[2] \in Names
  BY StepParts
<1> DEFINE f == Fields(<<s>>)
           g == <<s[2]>>
<1>4. f \in Seq(Names) /\ g \in Seq(Names) /\ Len(f) = 1 /\ Len(g) = 1 /\ f[1] = g[1]
  BY <1>1, <1>2, <1>3
<1> HIDE DEF f, g
<1>5. f = g
  BY <1>4, SeqEqual
<1> QED BY <1>1, <1>5 DEF f, g

LEMMA FieldsOfConcat ==
    ASSUME NEW w \in Seq(Steps), NEW x \in Seq(Steps)
    PROVE  Fields(w \o x) = Fields(w) \o Fields(x)
<1>1. /\ w \o x \in Seq(Steps) /\ Len(w \o x) = Len(w) + Len(x)
      /\ \A i \in 1..(Len(w) + Len(x)) : (w \o x)[i] = IF i <= Len(w) THEN w[i] ELSE x[i - Len(w)]
      /\ Len(w) \in Nat /\ Len(x) \in Nat
  BY ConcatProperties
<1>2. /\ Fields(w \o x) \in Seq(Names) /\ Len(Fields(w \o x)) = Len(w) + Len(x)
      /\ \A i \in 1..(Len(w) + Len(x)) : Fields(w \o x)[i] = (w \o x)[i][2]
  BY <1>1, FieldsOfWay
<1>3. /\ Fields(w) \in Seq(Names) /\ Len(Fields(w)) = Len(w)
      /\ Fields(x) \in Seq(Names) /\ Len(Fields(x)) = Len(x)
      /\ \A i \in 1..Len(w) : Fields(w)[i] = w[i][2]
      /\ \A i \in 1..Len(x) : Fields(x)[i] = x[i][2]
  BY FieldsOfWay
<1>4. /\ Fields(w) \o Fields(x) \in Seq(Names) /\ Len(Fields(w) \o Fields(x)) = Len(w) + Len(x)
      /\ \A i \in 1..(Len(w) + Len(x)) : (Fields(w) \o Fields(x))[i] =
                IF i <= Len(w) THEN Fields(w)[i] ELSE Fields(x)[i - Len(w)]
  <2> DEFINE u == Fields(w)
             v == Fields(x)
  <2>1. u \in Seq(Names) /\ v \in Seq(Names) /\ Len(u) = Len(w) /\ Len(v) = Len(x)
    BY <1>3
  <2> HIDE DEF u, v
  <2>2. /\ u \o v \in Seq(Names) /\ Len(u \o v) = Len(u) + Len(v)
        /\ \A i \in 1..(Len(u) + Len(v)) : (u \o v)[i] = IF i <= Len(u) THEN u[i] ELSE v[i - Len(u)]
    BY <2>1, ConcatProperties
  <2> QED BY <2>1, <2>2 DEF u, v
<1>5. \A i \in 1..(Len(w) + Len(x)) : Fields(w \o x)[i] = (Fields(w) \o Fields(x))[i]
  <2> TAKE i \in 1..(Len(w) + Len(x))
  <2>1. CASE i <= Len(w)
    BY <1>1, <1>2, <1>3, <1>4, <2>1
  <2>2. CASE ~(i <= Len(w))
    <3>1. i - Len(w) \in 1..Len(x)
      BY <1>1, <2>2
    <3> QED BY <1>1, <1>2, <1>3, <1>4, <2>2, <3>1
  <2> QED BY <2>1, <2>2
<1> QED BY <1>2, <1>4, <1>5, SeqEqual

\* The parameters of the schema at the end of a way.
LEMMA BelowIs ==
    ASSUME NEW w \in Seq(Steps), NEW P \in SUBSET Paths, NEW q
    PROVE  q \in Below(w, P) <=> q \in Paths /\ Fields(w) \o q \in P
<1> DEFINE u == Fields(w)
<1>1. u \in Seq(Names)
  BY FieldsOfWay
<1>2. Below(w, P) = {SubSeq(p, Len(w) + 1, Len(p)) : p \in {p \in P : IsStrictPrefix(u, p)}}
  BY DEF Below
<1>3. Len(u) = Len(w) /\ Len(w) \in Nat
  BY FieldsOfWay, LenProperties
<1> HIDE DEF u
<1>4. ASSUME NEW p \in P, IsStrictPrefix(u, p)
      PROVE  SubSeq(p, Len(w) + 1, Len(p)) \in Paths /\ u \o SubSeq(p, Len(w) + 1, Len(p)) = p
  <2>1. p \in Seq(Names) /\ Len(p) \in Nat
    BY LenProperties DEF Paths
  <2>2. Len(u) <= Len(p) /\ SubSeq(u, 1, Len(u)) = SubSeq(p, 1, Len(u)) /\ u # p
    BY <1>4 DEF IsStrictPrefix, IsPrefix
  <2>3. u = SubSeq(p, 1, Len(u))
    BY <1>1, <2>2, SubSeqFull
  <2>4. p = SubSeq(p, 1, Len(p))
    BY <2>1, SubSeqFull
  <2>5. Len(u) < Len(p)
    BY <1>3, <2>1, <2>2, <2>3, <2>4
  <2>6. SubSeq(p, 1, Len(u)) \o SubSeq(p, Len(u) + 1, Len(p)) = SubSeq(p, 1, Len(p))
    <3>1. 1 \in 1..(Len(p) + 1) /\ Len(u) \in (1 - 1)..Len(p) /\ Len(p) \in Len(u)..Len(p)
      BY <1>3, <2>1, <2>5
    <3> QED BY <2>1, <3>1, ConcatAdjacentSubSeq
  <2>7. \A i \in (Len(u) + 1)..Len(p) : p[i] \in Names
    BY <1>3, <2>1, ElementOfSeq
  <2>8. SubSeq(p, Len(u) + 1, Len(p)) \in Seq(Names) /\ Len(SubSeq(p, Len(u) + 1, Len(p))) = Len(p) - Len(u)
    BY <1>3, <2>1, <2>5, <2>7, SubSeqProperties
  <2> DEFINE r == SubSeq(p, Len(u) + 1, Len(p))
  <2>9. r \in Seq(Names) /\ Len(r) > 0
    BY <1>3, <2>1, <2>5, <2>8
  <2> HIDE DEF r
  <2>10. r # <<>>
    BY <2>9, EmptySeq
  <2> QED BY <1>3, <2>3, <2>4, <2>6, <2>9, <2>10 DEF Paths, r
<1>5. ASSUME NEW r \in Paths, u \o r \in P
      PROVE  IsStrictPrefix(u, u \o r) /\ SubSeq(u \o r, Len(w) + 1, Len(u \o r)) = r
  <2>1. r \in Seq(Names) /\ Len(r) \in Nat \ {0}
    BY EmptySeq DEF Paths
  <2>2. u \o r \in Seq(Names) /\ Len(u \o r) = Len(u) + Len(r)
    BY <1>1, <2>1, ConcatProperties
  <2>3. SubSeq(u \o r, Len(u) + 1, Len(u) + Len(r)) = SubSeq(r, 1, Len(r))
    <3>1. Len(u) + 1 \in (Len(u) + 1)..(Len(u) + Len(r)) /\ Len(u) + Len(r) \in (Len(u) + 1)..(Len(u) + Len(r))
      BY <1>3, <2>1
    <3>2. SubSeq(u \o r, Len(u) + 1, Len(u) + Len(r))
            = SubSeq(r, Len(u) + 1 - Len(u), Len(u) + Len(r) - Len(u))
      BY <1>1, <2>1, <3>1, SubSeqOfConcat2
    <3>3. Len(u) + 1 - Len(u) = 1 /\ Len(u) + Len(r) - Len(u) = Len(r)
      BY <1>3, <2>1
    <3> QED BY <3>2, <3>3
  <2>4. SubSeq(u \o r, 1, Len(u)) = SubSeq(u, 1, Len(u))
    <3>1. CASE Len(u) = 0
      BY <3>1, SubSeqEmpty
    <3>2. CASE Len(u) # 0
      <4>1. 1 \in 1..Len(u) /\ Len(u) \in 1..Len(u)
        BY <1>3, <3>2
      <4> QED BY <1>1, <2>1, <4>1, SubSeqOfConcat1
    <3> QED BY <3>1, <3>2
  <2>5. u # u \o r
    BY <1>3, <2>1, <2>2
  <2> QED BY <1>3, <2>1, <2>2, <2>3, <2>4, <2>5, SubSeqFull DEF IsStrictPrefix, IsPrefix
<1>6. q \in Below(w, P) => q \in Paths /\ u \o q \in P
  BY <1>2, <1>4
<1>7. q \in Paths /\ u \o q \in P => q \in Below(w, P)
  BY <1>2, <1>5
<1> QED BY <1>6, <1>7 DEF u

LEMMA InBounded ==
    ASSUME NEW S, NEW n \in Nat, NEW x
    PROVE  x \in BoundedSeq(S, n) <=> x \in Seq(S) /\ Len(x) <= n
<1>1. ASSUME x \in BoundedSeq(S, n) PROVE x \in Seq(S) /\ Len(x) <= n
  <2>1. PICK m \in 0..n : x \in [1..m -> S]
    BY <1>1 DEF BoundedSeq, SeqOf
  <2> QED BY <2>1
<1>2. ASSUME x \in Seq(S), Len(x) <= n PROVE x \in BoundedSeq(S, n)
  <2>1. Len(x) \in 0..n /\ x \in [1..Len(x) -> S]
    BY <1>2, LenProperties
  <2> QED BY <2>1 DEF BoundedSeq, SeqOf
<1> QED BY <1>1, <1>2

\* No way is too long for the bound.
LEMMA WaysAre ==
    ASSUME NEW c \in Calls, NEW w
    PROVE  w \in Ways[c] <=> w \in Seq(Steps) /\ IsWay(c, w)
<1>1. Ways[c] = {v \in BoundedSeq(Steps, MaxRecursion + 1) : IsWay(c, v)}
  BY DEF Ways
<1>2. MaxRecursion \in Nat
  BY BoundsAssumption
<1>3. ASSUME w \in Seq(Steps), IsWay(c, w) PROVE Len(w) <= MaxRecursion + 1
  <2>1. Len(w) \in Nat /\ DOMAIN w = 1..Len(w)
    BY <1>3, LenProperties
  <2>2. CASE Len(w) <= 1
    BY <1>2, <2>1, <2>2
  <2>3. CASE Len(w) > 1
    <3> DEFINE v == SubSeq(w, 1, Len(w) - 1)
    <3>1. Len(w) \in DOMAIN w
      BY <2>1, <2>3
    <3>2. w[Len(w)][2] \in Follows(c, v)
      BY <1>3, <3>1 DEF IsWay
    <3>3. Len(v) = Len(w) - 1
      <4>1. \A i \in 1..(Len(w) - 1) : w[i] \in Steps
        BY <1>3, <2>1, ElementOfSeq
      <4> QED BY <2>1, <2>3, <4>1, SubSeqProperties
    <3> HIDE DEF v
    <3>4. v # <<>>
      <4>1. Len(<<>>) = 0
        BY EmptySeq
      <4> QED BY <2>1, <2>3, <3>3, <4>1
    <3>5. w[Len(w)][2] \in Relations(ClassAt(c, v)) /\ w[Len(w)][2] \notin RefusedAt(c, v)
      BY <3>2 DEF Follows, KeptAt
    <3>6. ~(Len(v) >= MaxRecursion)
      BY <3>4, <3>5 DEF RefusedAt
    <3> QED BY <1>2, <2>1, <3>3, <3>6
  <2> QED BY <2>1, <2>2, <2>3
<1> QED BY <1>1, <1>2, <1>3, InBounded

\* A step that the way of a call may take next.
Takes(c, w, s) == s[1] = ClassAt(c, w) /\ s[2] \in Follows(c, w)

LEMMA WayTakes ==
    ASSUME NEW c \in Calls, NEW w \in Seq(Steps)
    PROVE  w \in Ways[c] <=> \A i \in 1..Len(w) : Takes(c, SubSeq(w, 1, i - 1), w[i])
<1>1. DOMAIN w = 1..Len(w)
  BY LenProperties
<1> QED BY <1>1, WaysAre DEF IsWay, Takes

\* How a way goes on.
LEMMA WayGoesOn ==
    ASSUME NEW c \in Calls, NEW w \in Ways[c], NEW x \in Seq(Steps)
    PROVE  w \o x \in Ways[c] <=> \A i \in 1..Len(x) : Takes(c, w \o SubSeq(x, 1, i - 1), x[i])
<1>1. w \in Seq(Steps)
  BY WaysAre
<1> DEFINE v == w \o x
           m == Len(w)
           n == Len(x)
<1>2. m \in Nat /\ n \in Nat
  BY <1>1, LenProperties
<1>3. /\ v \in Seq(Steps) /\ Len(v) = m + n
      /\ \A i \in 1..(m + n) : v[i] = IF i <= m THEN w[i] ELSE x[i - m]
  BY <1>1, ConcatProperties
<1>4. \A i \in 1..m : SubSeq(v, 1, i - 1) = SubSeq(w, 1, i - 1)
  <2> TAKE i \in 1..m
  <2>1. CASE i = 1
    BY <1>2, <2>1, SubSeqEmpty
  <2>2. CASE i # 1
    <3>1. 1 \in 1..m /\ i - 1 \in 1..m
      BY <1>2, <2>2
    <3> QED BY <1>1, <3>1, SubSeqOfConcat1
  <2> QED BY <2>1, <2>2
<1>5. \A i \in 1..n : SubSeq(v, 1, m + i - 1) = w \o SubSeq(x, 1, i - 1)
  <2> TAKE i \in 1..n
  <2> DEFINE y == SubSeq(x, 1, i - 1)
             z == SubSeq(v, 1, m + i - 1)
  <2>1. /\ y \in Seq(Steps) /\ Len(y) = i - 1 /\ \A j \in 1..(i - 1) : y[j] = x[j]
    <3>1. \A j \in 1..(i - 1) : x[j] \in Steps
      BY <1>2, ElementOfSeq
    <3>2. /\ y \in Seq(Steps) /\ Len(y) = IF 1 <= i - 1 THEN i - 1 - 1 + 1 ELSE 0
          /\ \A j \in 1..(i - 1 - 1 + 1) : y[j] = x[1 + j - 1]
      BY <1>2, <3>1, SubSeqProperties
    <3> HIDE DEF y
    <3> QED BY <1>2, <3>2
  <2>2. /\ z \in Seq(Steps) /\ Len(z) = m + i - 1 /\ \A j \in 1..(m + i - 1) : z[j] = v[j]
    <3>1. \A j \in 1..(m + i - 1) : v[j] \in Steps
      BY <1>2, <1>3, ElementOfSeq
    <3>2. /\ z \in Seq(Steps) /\ Len(z) = IF 1 <= m + i - 1 THEN m + i - 1 - 1 + 1 ELSE 0
          /\ \A j \in 1..(m + i - 1 - 1 + 1) : z[j] = v[1 + j - 1]
      BY <1>2, <3>1, SubSeqProperties
    <3> HIDE DEF z, v
    <3> QED BY <1>2, <3>2
  <2> HIDE DEF y, z, v
  <2>3. /\ w \o y \in Seq(Steps) /\ Len(w \o y) = m + (i - 1)
        /\ \A j \in 1..(m + (i - 1)) : (w \o y)[j] = IF j <= m THEN w[j] ELSE y[j - m]
    <3>1. /\ w \o y \in Seq(Steps) /\ Len(w \o y) = Len(w) + Len(y)
          /\ \A j \in 1..(Len(w) + Len(y)) : (w \o y)[j] = IF j <= Len(w) THEN w[j] ELSE y[j - Len(w)]
      BY <1>1, <2>1, ConcatProperties
    <3> QED BY <1>1, <2>1, <3>1
  <2>4. \A j \in 1..(m + i - 1) : z[j] = (w \o y)[j]
    <3> TAKE j \in 1..(m + i - 1)
    <3>1. CASE j <= m
      BY <1>2, <1>3, <2>2, <2>3, <3>1
    <3>2. CASE ~(j <= m)
      <4>1. j - m \in 1..(i - 1) /\ j \in 1..(m + n) /\ j \in 1..(m + (i - 1))
        BY <1>2, <3>2
      <4> QED BY <1>2, <1>3, <2>1, <2>2, <2>3, <3>2, <4>1
    <3> QED BY <3>1, <3>2
  <2>5. Len(z) = Len(w \o y)
    BY <1>2, <2>2, <2>3
  <2>6. z = w \o y
    BY <2>2, <2>3, <2>4, <2>5, SeqEqual
  <2> QED BY <2>6 DEF y, z
<1>6. \A i \in 1..m : Takes(c, SubSeq(v, 1, i - 1), v[i])
  <2>1. \A i \in 1..m : Takes(c, SubSeq(w, 1, i - 1), w[i])
    BY <1>1, WayTakes
  <2>2. \A i \in 1..m : v[i] = w[i]
    BY <1>2, <1>3
  <2> QED BY <1>4, <2>1, <2>2
<1>7. v \in Ways[c] <=> \A i \in 1..(m + n) : Takes(c, SubSeq(v, 1, i - 1), v[i])
  BY <1>3, WayTakes
<1> HIDE DEF v
<1>8. ASSUME \A i \in 1..n : Takes(c, w \o SubSeq(x, 1, i - 1), x[i])
      PROVE  \A i \in 1..(m + n) : Takes(c, SubSeq(v, 1, i - 1), v[i])
  <2> TAKE i \in 1..(m + n)
  <2>1. CASE i <= m
    BY <1>2, <1>6, <2>1
  <2>2. CASE ~(i <= m)
    <3>1. i - m \in 1..n /\ m + (i - m) - 1 = i - 1
      BY <1>2, <2>2
    <3>2. v[i] = x[i - m]
      BY <1>3, <2>2
    <3>3. SubSeq(v, 1, i - 1) = w \o SubSeq(x, 1, i - m - 1)
      BY <1>5, <3>1
    <3> QED BY <1>8, <3>1, <3>2, <3>3
  <2> QED BY <2>1, <2>2
<1>9. ASSUME \A i \in 1..(m + n) : Takes(c, SubSeq(v, 1, i - 1), v[i])
      PROVE  \A i \in 1..n : Takes(c, w \o SubSeq(x, 1, i - 1), x[i])
  <2> TAKE i \in 1..n
  <2>1. m + i \in 1..(m + n) /\ m + i - m = i /\ ~(m + i <= m)
    BY <1>2
  <2>2. v[m + i] = x[i]
    BY <1>3, <2>1
  <2>3. Takes(c, SubSeq(v, 1, m + i - 1), v[m + i])
    BY <1>9, <2>1
  <2> QED BY <1>5, <2>2, <2>3
<1> QED BY <1>7, <1>8, <1>9 DEF v

LEMMA WayTakesStep ==
    ASSUME NEW c \in Calls, NEW w \in Ways[c], NEW s \in Steps
    PROVE  w \o <<s>> \in Ways[c] <=> Takes(c, w, s)
<1>1. <<s>> \in Seq(Steps) /\ Len(<<s>>) = 1 /\ <<s>>[1] = s
  OBVIOUS
<1>2. w \o SubSeq(<<s>>, 1, 1 - 1) = w
  <2>1. SubSeq(<<s>>, 1, 1 - 1) = <<>>
    BY SubSeqEmpty
  <2>2. w \in Seq(Steps)
    BY WaysAre
  <2> QED BY <2>1, <2>2, ConcatEmptySeq
<1>3. w \o <<s>> \in Ways[c] <=> \A i \in 1..1 : Takes(c, w \o SubSeq(<<s>>, 1, i - 1), <<s>>[i])
  BY <1>1, WayGoesOn
<1>4. Takes(c, w \o SubSeq(<<s>>, 1, 1 - 1), <<s>>[1]) <=> Takes(c, w, s)
  BY <1>1, <1>2
<1>5. \A i \in 1..1 : i = 1
  OBVIOUS
<1> QED BY <1>3, <1>4, <1>5

LEMMA NoWay == ASSUME NEW c \in Calls PROVE <<>> \in Ways[c] /\ <<>> \in Seq(Steps)
<1>1. <<>> \in Seq(Steps) /\ Len(<<>>) = 0
  OBVIOUS
<1>2. 1..Len(<<>>) = {}
  BY <1>1
<1>3. <<>> \in Ways[c] <=> \A i \in 1..Len(<<>>) : Takes(c, SubSeq(<<>>, 1, i - 1), <<>>[i])
  BY <1>1, WayTakes
<1> QED BY <1>1, <1>2, <1>3

-----------------------------------------------------------------------------
(* What a call asks for from the end of a way on. *)

\* The relation f at the end of a way, as a step and with the way to it.
StepOf(c, w, f) == <<ClassAt(c, w), f>>
Onto(c, w, f) == Append(w, StepOf(c, w, f))

\* What a call asks for from the end of a way on.
Rest(c, w) == {x \in Seq(Steps) : w \o x \in Ways[c]}
RelsFrom(c, w) == {Fields(x) : x \in Rest(c, w) \ {<<>>}}
PathsFrom(c, w) ==
    RelsFrom(c, w) \union UNION {{Append(Fields(x), n) : n \in OwnAt(c, w \o x)} : x \in Rest(c, w)}
ChanceFrom(c, w) == UNION {{Append(Fields(x), n) : n \in ChanceAt(c, w \o x)} : x \in Rest(c, w)}
MissingAt(c, w) ==
    RawMissing(ClassAt(c, w), Below(w, c.include), Below(w, c.exclude), c.readonly)
Complete(c, w) == \A x \in Rest(c, w) : ~MissingAt(c, w \o x)

LEMMA ClassOfWay ==
    ASSUME NEW c \in Calls, NEW w \in Ways[c] PROVE ClassAt(c, w) \in DOMAIN Model
<1>1. w \in Seq(Steps)
  BY WaysAre
<1>2. CASE w = <<>>
  BY <1>2, CallsAssumption DEF ClassAt
<1>3. CASE w # <<>>
  <2>1. w[Len(w)] \in Steps
    BY <1>1, <1>3, EmptySeq, ElementOfSeq
  <2>2. w[Len(w)][1] \in DOMAIN Model /\ w[Len(w)][2] \in DOMAIN Model[w[Len(w)][1]].to
    BY <2>1, StepParts
  <2> QED BY <1>3, <2>2, ModelAssumption DEF ClassAt, Last
<1> QED BY <1>2, <1>3

LEMMA StepOn ==
    ASSUME NEW c \in Calls, NEW w \in Ways[c], NEW f \in Follows(c, w)
    PROVE  /\ StepOf(c, w, f) \in Steps /\ f \in Names
           /\ Onto(c, w, f) = w \o <<StepOf(c, w, f)>> /\ Onto(c, w, f) \in Ways[c]
<1> DEFINE d == ClassAt(c, w)
           s == <<d, f>>
<1>1. d \in DOMAIN Model
  BY ClassOfWay
<1>2. f \in DOMAIN Model[d].to
  BY DEF Follows, KeptAt, Relations
<1>3. s \in Steps /\ s[1] = d /\ s[2] = f
  BY <1>1, <1>2 DEF Steps
<1>4. f \in Names
  BY <1>1, <1>2 DEF Names
<1> HIDE DEF s, d
<1>5. w \in Seq(Steps)
  BY WaysAre
<1>6. Append(w, s) = w \o <<s>>
  BY <1>3, <1>5, AppendIsConcat
<1>7. Takes(c, w, s)
  BY <1>3 DEF Takes, d
<1>8. w \o <<s>> \in Ways[c]
  BY <1>3, <1>7, WayTakesStep
<1> QED BY <1>3, <1>4, <1>6, <1>8 DEF StepOf, Onto, s, d

\* The rest of a way is nothing, or a relation with the rest of the way after it.
LEMMA RestUnfolds ==
    ASSUME NEW c \in Calls, NEW w \in Ways[c], NEW x
    PROVE  x \in Rest(c, w) <=>
              \/ x = <<>>
              \/ \E f \in Follows(c, w) : \E y \in Rest(c, Onto(c, w, f)) : x = <<StepOf(c, w, f)>> \o y
<1>1. w \in Seq(Steps)
  BY WaysAre
<1>2. <<>> \in Rest(c, w)
  BY <1>1, ConcatEmptySeq DEF Rest
<1>3. ASSUME NEW f \in Follows(c, w), NEW y \in Seq(Steps)
      PROVE  /\ <<StepOf(c, w, f)>> \o y \in Seq(Steps)
             /\ w \o (<<StepOf(c, w, f)>> \o y) = Onto(c, w, f) \o y
  <2>1. StepOf(c, w, f) \in Steps /\ Onto(c, w, f) = w \o <<StepOf(c, w, f)>>
    BY StepOn
  <2> DEFINE z == <<StepOf(c, w, f)>>
  <2>2. z \in Seq(Steps)
    BY <2>1
  <2> HIDE DEF z
  <2>3. z \o y \in Seq(Steps) /\ (w \o z) \o y = w \o (z \o y)
    BY <1>1, <2>2, ConcatProperties, ConcatAssociative
  <2> QED BY <2>1, <2>3 DEF z
<1>4. ASSUME x \in Rest(c, w), x # <<>>
      PROVE  \E f \in Follows(c, w) : \E y \in Rest(c, Onto(c, w, f)) : x = <<StepOf(c, w, f)>> \o y
  <2> DEFINE s == Head(x)
             y == Tail(x)
  <2>1. x \in Seq(Steps) /\ w \o x \in Ways[c]
    BY <1>4 DEF Rest
  <2>2. s \in Steps /\ y \in Seq(Steps) /\ x = <<s>> \o y /\ s = x[1]
    <3>1. Len(x) \in Nat \ {0}
      BY <1>4, <2>1, EmptySeq
    <3>2. x = SubSeq(x, 1, Len(x)) /\ SubSeq(x, 1, Len(x)) = <<x[1]>> \o SubSeq(x, 1 + 1, Len(x))
      <4>1. 1 \in 1..Len(x) /\ Len(x) \in 1..Len(x)
        BY <3>1
      <4> QED BY <2>1, <4>1, SubSeqFull, SubSeqRecursiveFirst
    <3>3. y = SubSeq(x, 2, Len(x))
      BY <1>4, <2>1, TailIsSubSeq
    <3>4. y \in Seq(Steps) /\ s \in Steps
      BY <1>4, <2>1, HeadTailProperties
    <3>5. s = x[1]
      OBVIOUS
    <3> QED BY <3>2, <3>3, <3>4, <3>5
  <2>3. Takes(c, w, s)
    <3>1. 1 \in 1..Len(x)
      BY <1>4, <2>1, EmptySeq
    <3>2. Takes(c, w \o SubSeq(x, 1, 1 - 1), x[1])
      BY <2>1, <3>1, WayGoesOn
    <3>3. SubSeq(x, 1, 1 - 1) = <<>>
      BY SubSeqEmpty
    <3>4. w \o <<>> = w
      BY <1>1, ConcatEmptySeq
    <3> QED BY <2>2, <3>2, <3>3, <3>4
  <2> HIDE DEF s, y
  <2>4. s = StepOf(c, w, s[2]) /\ s[2] \in Follows(c, w)
    BY <2>2, <2>3, StepParts DEF Takes, StepOf
  <2>5. w \o x = Onto(c, w, s[2]) \o y
    BY <1>3, <2>2, <2>4
  <2>6. y \in Rest(c, Onto(c, w, s[2]))
    BY <2>1, <2>2, <2>5 DEF Rest
  <2> QED BY <2>2, <2>4, <2>6
<1>5. ASSUME NEW f \in Follows(c, w), NEW y \in Rest(c, Onto(c, w, f)), x = <<StepOf(c, w, f)>> \o y
      PROVE  x \in Rest(c, w)
  BY <1>3, <1>5 DEF Rest
<1> QED BY <1>2, <1>4, <1>5

\* Paths grow at their front as ways do.
LEMMA FieldsUnfold ==
    ASSUME NEW c \in Calls, NEW w \in Ways[c], NEW f \in Follows(c, w), NEW y \in Rest(c, Onto(c, w, f))
    PROVE  /\ Fields(<<StepOf(c, w, f)>> \o y) = <<f>> \o Fields(y)
           /\ \A n : Append(Fields(<<StepOf(c, w, f)>> \o y), n) = <<f>> \o Append(Fields(y), n)
           /\ w \o (<<StepOf(c, w, f)>> \o y) = Onto(c, w, f) \o y
           /\ <<StepOf(c, w, f)>> \o y # <<>>
<1> DEFINE s == StepOf(c, w, f)
<1>1. s \in Steps /\ s[2] = f /\ Onto(c, w, f) = w \o <<s>> /\ f \in Names
  BY StepOn DEF StepOf
<1>2. y \in Seq(Steps) /\ w \in Seq(Steps)
  BY WaysAre DEF Rest
<1> HIDE DEF s
<1>3. <<s>> \in Seq(Steps) /\ Fields(<<s>>) = <<f>> /\ <<s>> # <<>>
  BY <1>1, FieldsOfStep
<1> DEFINE one == <<s>>
<1>4. one \in Seq(Steps) /\ Fields(one) = <<f>> /\ one # <<>>
  BY <1>3
<1>5. Onto(c, w, f) = w \o one
  BY <1>1
<1> HIDE DEF one
<1>6. Fields(one \o y) = <<f>> \o Fields(y)
  BY <1>2, <1>4, FieldsOfConcat
<1>7. w \o (one \o y) = Onto(c, w, f) \o y
  BY <1>2, <1>4, <1>5, ConcatAssociative
<1>8. one \o y # <<>>
  BY <1>2, <1>4, ConcatEqualIffEmpty
<1>9. ASSUME NEW n PROVE Append(<<f>> \o Fields(y), n) = <<f>> \o Append(Fields(y), n)
  <2> DEFINE T == Names \union {n}
             a == <<f>>
             b == Fields(y)
  <2>1. a \in Seq(T) /\ b \in Seq(T) /\ n \in T
    BY <1>1, <1>2, FieldsOfWay, SeqMonotonic
  <2> HIDE DEF T, a, b
  <2> DEFINE z == <<n>>
  <2>2. z \in Seq(T)
    BY <2>1
  <2>3. a \o b \in Seq(T) /\ Append(a \o b, n) = (a \o b) \o z /\ Append(b, n) = b \o z
    BY <2>1, ConcatProperties, AppendIsConcat
  <2> HIDE DEF z
  <2>4. (a \o b) \o z = a \o (b \o z)
    BY <2>1, <2>2, ConcatAssociative
  <2> QED BY <2>3, <2>4 DEF a, b
<1> QED BY <1>6, <1>7, <1>8, <1>9 DEF one, s

\* The same where some of the relations at the end of the way are still to do.
RelsDone(c, w, todo) ==
    UNION {{<<f>>} \union Nest(f, RelsFrom(c, Onto(c, w, f))) : f \in Follows(c, w) \ todo}
PathsDone(c, w, todo) ==
    {<<n>> : n \in OwnAt(c, w)}
    \union UNION {{<<f>>} \union Nest(f, PathsFrom(c, Onto(c, w, f))) : f \in Follows(c, w) \ todo}
CompleteDone(c, w, todo) ==
    /\ ~MissingAt(c, w)
    /\ \A f \in Follows(c, w) \ todo : Complete(c, Onto(c, w, f))

LEMMA NoRest ==
    ASSUME NEW c \in Calls, NEW w \in Ways[c]
    PROVE  /\ <<>> \in Rest(c, w) /\ w \o <<>> = w /\ Fields(<<>>) = <<>>
           /\ \A n : Append(Fields(<<>>), n) = <<n>>
<1>1. w \in Seq(Steps) /\ <<>> \in Seq(Steps)
  BY WaysAre
<1>2. <<>> \in Rest(c, w) /\ w \o <<>> = w
  BY <1>1, RestUnfolds, ConcatEmptySeq
<1>3. Fields(<<>>) = <<>>
  BY DEF Fields
<1>4. \A n : Append(<<>>, n) = <<n>>
  OBVIOUS
<1> QED BY <1>2, <1>3, <1>4

LEMMA OwnColumn ==
    ASSUME NEW c, NEW w, NEW x \in Rest(c, w), NEW n \in OwnAt(c, w \o x)
    PROVE  Append(Fields(x), n) \in PathsFrom(c, w)
BY DEF PathsFrom

LEMMA ChanceColumn ==
    ASSUME NEW c, NEW w, NEW x \in Rest(c, w), NEW n \in ChanceAt(c, w \o x)
    PROVE  Append(Fields(x), n) \in ChanceFrom(c, w)
BY DEF ChanceFrom

\* A rest that is something goes through one of the relations.
LEMMA RestFront ==
    ASSUME NEW c \in Calls, NEW w \in Ways[c], NEW x \in Rest(c, w), x # <<>>
    PROVE  \E f \in Follows(c, w) : \E y \in Rest(c, Onto(c, w, f)) :
              /\ x = <<StepOf(c, w, f)>> \o y /\ w \o x = Onto(c, w, f) \o y
              /\ Fields(x) = <<f>> \o Fields(y)
              /\ \A n : Append(Fields(x), n) = <<f>> \o Append(Fields(y), n)
<1>1. PICK f \in Follows(c, w) : \E y \in Rest(c, Onto(c, w, f)) : x = <<StepOf(c, w, f)>> \o y
  BY RestUnfolds
<1>2. PICK y \in Rest(c, Onto(c, w, f)) : x = <<StepOf(c, w, f)>> \o y
  BY <1>1
<1>3. /\ Fields(<<StepOf(c, w, f)>> \o y) = <<f>> \o Fields(y)
      /\ \A n : Append(Fields(<<StepOf(c, w, f)>> \o y), n) = <<f>> \o Append(Fields(y), n)
      /\ w \o (<<StepOf(c, w, f)>> \o y) = Onto(c, w, f) \o y
  BY FieldsUnfold
<1> QED BY <1>2, <1>3

LEMMA RelsUnfold ==
    ASSUME NEW c \in Calls, NEW w \in Ways[c] PROVE RelsFrom(c, w) = RelsDone(c, w, {})
<1>1. ASSUME NEW p \in RelsFrom(c, w) PROVE p \in RelsDone(c, w, {})
  <2>1. PICK x \in Rest(c, w) : p = Fields(x) /\ x # <<>>
    BY DEF RelsFrom
  <2>2. PICK f \in Follows(c, w) : \E y \in Rest(c, Onto(c, w, f)) : Fields(x) = <<f>> \o Fields(y)
    BY <2>1, RestFront
  <2>3. PICK y \in Rest(c, Onto(c, w, f)) : p = <<f>> \o Fields(y)
    BY <2>1, <2>2
  <2>4. p \in {<<f>>} \union Nest(f, RelsFrom(c, Onto(c, w, f)))
    <3>1. CASE y = <<>>
      <4>1. Fields(y) = <<>> /\ <<f>> \o <<>> = <<f>>
        BY <3>1 DEF Fields
      <4> QED BY <2>3, <4>1
    <3>2. CASE y # <<>>
      BY <2>3, <3>2 DEF RelsFrom, Nest
    <3> QED BY <3>1, <3>2
  <2> QED BY <2>4 DEF RelsDone
<1>2. ASSUME NEW p \in RelsDone(c, w, {}) PROVE p \in RelsFrom(c, w)
  <2>1. PICK f \in Follows(c, w) : p \in {<<f>>} \union Nest(f, RelsFrom(c, Onto(c, w, f)))
    BY DEF RelsDone
  <2>2. PICK y \in Rest(c, Onto(c, w, f)) : p = <<f>> \o Fields(y)
    <3>1. CASE p = <<f>>
      <4>1. <<>> \in Rest(c, Onto(c, w, f)) /\ Fields(<<>>) = <<>>
        BY StepOn, NoRest
      <4>2. <<f>> = <<f>> \o <<>>
        OBVIOUS
      <4> QED BY <3>1, <4>1, <4>2
    <3>2. CASE p # <<f>>
      BY <2>1, <3>2 DEF Nest, RelsFrom
    <3> QED BY <3>1, <3>2
  <2> DEFINE x == <<StepOf(c, w, f)>> \o y
  <2>3. x \in Rest(c, w) /\ x # <<>> /\ Fields(x) = p
    BY <2>2, RestUnfolds, FieldsUnfold
  <2> HIDE DEF x
  <2> QED BY <2>3 DEF RelsFrom
<1> QED BY <1>1, <1>2

LEMMA PathsUnfold ==
    ASSUME NEW c \in Calls, NEW w \in Ways[c] PROVE PathsFrom(c, w) = PathsDone(c, w, {})
<1>1. RelsFrom(c, w) = RelsDone(c, w, {})
  BY RelsUnfold
<1>2. \A f \in Follows(c, w) : RelsFrom(c, Onto(c, w, f)) \subseteq PathsFrom(c, Onto(c, w, f))
  BY DEF PathsFrom
<1>3. RelsDone(c, w, {}) \subseteq PathsDone(c, w, {})
  <2>1. \A f \in Follows(c, w) : Nest(f, RelsFrom(c, Onto(c, w, f))) \subseteq Nest(f, PathsFrom(c, Onto(c, w, f)))
    BY <1>2 DEF Nest
  <2> QED BY <2>1 DEF RelsDone, PathsDone
<1>4. ASSUME NEW x \in Rest(c, w), NEW n \in OwnAt(c, w \o x)
      PROVE  Append(Fields(x), n) \in PathsDone(c, w, {})
  <2>1. CASE x = <<>>
    <3>1. Append(Fields(x), n) = <<n>> /\ n \in OwnAt(c, w)
      BY <2>1, NoRest
    <3> QED BY <3>1 DEF PathsDone
  <2>2. CASE x # <<>>
    <3>1. PICK f \in Follows(c, w) : \E y \in Rest(c, Onto(c, w, f)) :
            w \o x = Onto(c, w, f) \o y /\ \A m : Append(Fields(x), m) = <<f>> \o Append(Fields(y), m)
      BY <2>2, RestFront
    <3>2. PICK y \in Rest(c, Onto(c, w, f)) :
            w \o x = Onto(c, w, f) \o y /\ \A m : Append(Fields(x), m) = <<f>> \o Append(Fields(y), m)
      BY <3>1
    <3>3. Append(Fields(y), n) \in PathsFrom(c, Onto(c, w, f))
      BY <3>2, OwnColumn
    <3>4. Append(Fields(x), n) \in Nest(f, PathsFrom(c, Onto(c, w, f)))
      BY <3>2, <3>3 DEF Nest
    <3> QED BY <3>4 DEF PathsDone
  <2> QED BY <2>1, <2>2
<1>5. ASSUME NEW p \in PathsDone(c, w, {}) PROVE p \in PathsFrom(c, w)
  <2>1. CASE p \in {<<n>> : n \in OwnAt(c, w)}
    <3>1. PICK n \in OwnAt(c, w) : p = <<n>>
      BY <2>1
    <3>2. <<>> \in Rest(c, w) /\ n \in OwnAt(c, w \o <<>>) /\ p = Append(Fields(<<>>), n)
      BY <3>1, NoRest
    <3> QED BY <3>2, OwnColumn
  <2>2. CASE p \notin {<<n>> : n \in OwnAt(c, w)}
    <3>1. PICK f \in Follows(c, w) : p \in {<<f>>} \union Nest(f, PathsFrom(c, Onto(c, w, f)))
      BY <2>2 DEF PathsDone
    <3>2. CASE p = <<f>>
      BY <1>1, <3>2 DEF PathsFrom, RelsDone
    <3>3. ASSUME NEW q \in PathsFrom(c, Onto(c, w, f)), p = <<f>> \o q PROVE p \in PathsFrom(c, w)
      <4>1. CASE q \in RelsFrom(c, Onto(c, w, f))
        <5>1. p \in RelsDone(c, w, {})
          BY <3>3, <4>1 DEF RelsDone, Nest
        <5> QED BY <1>1, <5>1 DEF PathsFrom
      <4>2. CASE q \notin RelsFrom(c, Onto(c, w, f))
        <5>1. PICK y \in Rest(c, Onto(c, w, f)) :
                \E n \in OwnAt(c, Onto(c, w, f) \o y) : q = Append(Fields(y), n)
          BY <4>2 DEF PathsFrom
        <5>2. PICK n \in OwnAt(c, Onto(c, w, f) \o y) : q = Append(Fields(y), n)
          BY <5>1
        <5> DEFINE x == <<StepOf(c, w, f)>> \o y
        <5>3. x \in Rest(c, w)
          BY RestUnfolds
        <5>4. (\A m : Append(Fields(x), m) = <<f>> \o Append(Fields(y), m)) /\ w \o x = Onto(c, w, f) \o y
          BY FieldsUnfold
        <5> HIDE DEF x
        <5>5. p = Append(Fields(x), n) /\ n \in OwnAt(c, w \o x)
          BY <3>3, <5>2, <5>4
        <5> QED BY <5>3, <5>5, OwnColumn
      <4> QED BY <4>1, <4>2
    <3> QED BY <3>1, <3>2, <3>3 DEF Nest
  <2> QED BY <2>1, <2>2
<1>6. ASSUME NEW p \in PathsFrom(c, w) PROVE p \in PathsDone(c, w, {})
  <2>1. CASE p \in RelsFrom(c, w)
    BY <1>1, <1>3, <2>1
  <2>2. CASE p \notin RelsFrom(c, w)
    <3>1. PICK x \in Rest(c, w) : p \in {Append(Fields(x), n) : n \in OwnAt(c, w \o x)}
      BY <2>2 DEF PathsFrom
    <3> QED BY <1>4, <3>1
  <2> QED BY <2>1, <2>2
<1> QED BY <1>5, <1>6

LEMMA ChanceUnfolds ==
    ASSUME NEW c \in Calls, NEW w \in Ways[c]
    PROVE  /\ {<<n>> : n \in ChanceAt(c, w)} \subseteq ChanceFrom(c, w)
           /\ \A f \in Follows(c, w) : Nest(f, ChanceFrom(c, Onto(c, w, f))) \subseteq ChanceFrom(c, w)
<1>1. ASSUME NEW n \in ChanceAt(c, w) PROVE <<n>> \in ChanceFrom(c, w)
  <2>1. <<>> \in Rest(c, w) /\ n \in ChanceAt(c, w \o <<>>) /\ <<n>> = Append(Fields(<<>>), n)
    BY NoRest
  <2> QED BY <2>1, ChanceColumn
<1>2. ASSUME NEW f \in Follows(c, w), NEW q \in ChanceFrom(c, Onto(c, w, f))
      PROVE  <<f>> \o q \in ChanceFrom(c, w)
  <2>1. PICK y \in Rest(c, Onto(c, w, f)) : \E n \in ChanceAt(c, Onto(c, w, f) \o y) : q = Append(Fields(y), n)
    BY DEF ChanceFrom
  <2>2. PICK n \in ChanceAt(c, Onto(c, w, f) \o y) : q = Append(Fields(y), n)
    BY <2>1
  <2> DEFINE x == <<StepOf(c, w, f)>> \o y
  <2>3. x \in Rest(c, w)
    BY RestUnfolds
  <2>4. (\A m : Append(Fields(x), m) = <<f>> \o Append(Fields(y), m)) /\ w \o x = Onto(c, w, f) \o y
    BY FieldsUnfold
  <2> HIDE DEF x
  <2>5. <<f>> \o q = Append(Fields(x), n) /\ n \in ChanceAt(c, w \o x)
    BY <2>2, <2>4
  <2> QED BY <2>3, <2>5, ChanceColumn
<1> QED BY <1>1, <1>2 DEF Nest

LEMMA CompleteUnfolds ==
    ASSUME NEW c \in Calls, NEW w \in Ways[c] PROVE Complete(c, w) <=> CompleteDone(c, w, {})
<1>1. ASSUME Complete(c, w) PROVE CompleteDone(c, w, {})
  <2>1. ~MissingAt(c, w)
    <3>1. <<>> \in Rest(c, w) /\ w \o <<>> = w
      BY NoRest
    <3>2. ~MissingAt(c, w \o <<>>)
      BY <1>1, <3>1 DEF Complete
    <3> QED BY <3>1, <3>2
  <2>2. ASSUME NEW f \in Follows(c, w), NEW y \in Rest(c, Onto(c, w, f))
        PROVE  ~MissingAt(c, Onto(c, w, f) \o y)
    <3> DEFINE x == <<StepOf(c, w, f)>> \o y
    <3>1. x \in Rest(c, w) /\ w \o x = Onto(c, w, f) \o y
      BY RestUnfolds, FieldsUnfold
    <3> HIDE DEF x
    <3>2. ~MissingAt(c, w \o x)
      BY <1>1, <3>1 DEF Complete
    <3> QED BY <3>1, <3>2
  <2> QED BY <2>1, <2>2 DEF CompleteDone, Complete
<1>2. ASSUME CompleteDone(c, w, {}), NEW x \in Rest(c, w) PROVE ~MissingAt(c, w \o x)
  <2>1. CASE x = <<>>
    BY <1>2, <2>1, NoRest DEF CompleteDone
  <2>2. CASE x # <<>>
    <3>1. PICK f \in Follows(c, w) : \E y \in Rest(c, Onto(c, w, f)) : w \o x = Onto(c, w, f) \o y
      BY <2>2, RestFront
    <3>2. PICK y \in Rest(c, Onto(c, w, f)) : w \o x = Onto(c, w, f) \o y
      BY <3>1
    <3>3. ~MissingAt(c, Onto(c, w, f) \o y)
      BY <1>2, <3>1 DEF CompleteDone, Complete
    <3> QED BY <3>2, <3>3
  <2> QED BY <2>1, <2>2
<1> QED BY <1>1, <1>2 DEF Complete

-----------------------------------------------------------------------------
(* Calls that agree on what comes after a way. *)

\* The relations that are left out count as excluded in the end.
ExcludedBy(c, w) == Below(w, c.exclude) \union {<<f>> : f \in KeptAt(c, w) \intersect RefusedAt(c, w)}

\* Two calls that ask for the same from a way on, but perhaps for the columns of
\* the relations that are left out at its end.
Agree(c, d, w) ==
    /\ ClassAt(c, w) = ClassAt(d, w)
    /\ ~c.readonly /\ ~d.readonly
    /\ c.cycles = "yes" <=> d.cycles = "yes"
    /\ Below(w, c.include) = Below(w, d.include)
    /\ ExcludedBy(c, w) = ExcludedBy(d, w)

LEMMA AgreeBoth == ASSUME NEW c, NEW d, NEW w, Agree(c, d, w) PROVE Agree(d, c, w)
BY DEF Agree

LEMMA SameRefused ==
    ASSUME NEW c, NEW d, NEW w, ClassAt(c, w) = ClassAt(d, w), c.cycles = "yes" <=> d.cycles = "yes"
    PROVE  RefusedAt(c, w) = RefusedAt(d, w)
BY DEF RefusedAt

LEMMA AgreeFollows ==
    ASSUME NEW c, NEW d, NEW w, Agree(c, d, w), NEW f \in Follows(c, w)
    PROVE  f \in Follows(d, w)
<1>1. RefusedAt(c, w) = RefusedAt(d, w)
  BY SameRefused DEF Agree
<1>2. /\ f \in Relations(ClassAt(c, w)) /\ f \notin RefusedAt(c, w)
      /\ Below(w, c.include) = {} \/ <<f>> \in Below(w, c.include)
      /\ <<f>> \notin Below(w, c.exclude)
  BY DEF Follows, KeptAt, Keeps
<1>3. <<f>> \notin ExcludedBy(c, w)
  BY <1>2 DEF ExcludedBy
<1>4. <<f>> \notin Below(w, d.exclude)
  BY <1>3 DEF Agree, ExcludedBy
<1> QED BY <1>1, <1>2, <1>4 DEF Agree, Follows, KeptAt, Keeps

LEMMA AgreeChance ==
    ASSUME NEW c, NEW d, NEW w, Agree(c, d, w)
    PROVE  Follows(c, w) = Follows(d, w) /\ ChanceAt(c, w) = ChanceAt(d, w)
<1>1. RefusedAt(c, w) = RefusedAt(d, w)
  BY SameRefused DEF Agree
<1>2. Follows(c, w) = Follows(d, w)
  BY AgreeFollows, AgreeBoth
<1>3. ClassAt(c, w) = ClassAt(d, w)
  BY DEF Agree
<1> QED BY <1>1, <1>2, <1>3 DEF ChanceAt

\* The columns of a part, and those of a schema with the relations and without.
LEMMA OwnIs ==
    ASSUME NEW c \in Calls, NEW w, ~c.readonly, NEW n
    PROVE  LET M == Model[ClassAt(c, w)]
           IN  n \in OwnAt(c, w) <=>
                  /\ n \in M.data \union {M.pk} /\ Keeps(Below(w, c.include), Below(w, c.exclude), n)
                  /\ \/ n = M.pk
                     \/ ~\E f \in DOMAIN M.raw :
                            n = M.raw[f] /\ Keeps(Below(w, c.include), Below(w, c.exclude), f)
BY DEF OwnAt, Own, Columns, Raws

LEMMA AgreeOwn ==
    ASSUME NEW c \in Calls, NEW d \in Calls, NEW w \in Ways[c], Agree(c, d, w),
           NEW n \in OwnAt(c, w), n \notin OwnAt(d, w)
    PROVE  n \in ChanceAt(c, w)
<1> DEFINE M == Model[ClassAt(c, w)]
           Kept(e, f) == Keeps(Below(w, e.include), Below(w, e.exclude), f)
<1>1. /\ ClassAt(c, w) \in DOMAIN Model /\ ClassAt(d, w) = ClassAt(c, w)
      /\ ~c.readonly /\ ~d.readonly
  BY ClassOfWay DEF Agree
<1>2. DOMAIN M.raw \subseteq DOMAIN M.to /\ \A f \in DOMAIN M.to : f \notin M.data \union {M.pk}
  BY <1>1, ModelAssumption
<1>3. /\ n \in M.data \union {M.pk} /\ Kept(c, n)
      /\ n = M.pk \/ ~\E f \in DOMAIN M.raw : n = M.raw[f] /\ Kept(c, f)
  BY <1>1, OwnIs
<1>4. ~(/\ n \in M.data \union {M.pk} /\ Kept(d, n)
        /\ n = M.pk \/ ~\E f \in DOMAIN M.raw : n = M.raw[f] /\ Kept(d, f))
  BY <1>1, OwnIs
<1>5. Kept(d, n)
  <2>1. n \notin DOMAIN M.to
    BY <1>2, <1>3
  <2>2. <<n>> \notin ExcludedBy(c, w)
    <3>1. \A f \in RefusedAt(c, w) : f \in DOMAIN M.to
      BY DEF RefusedAt, Relations
    <3> QED BY <1>3, <2>1, <3>1 DEF ExcludedBy, Keeps
  <2>3. <<n>> \notin Below(w, d.exclude)
    BY <2>2 DEF Agree, ExcludedBy
  <2> QED BY <1>3, <2>3 DEF Keeps, Agree
<1> HIDE DEF Kept
<1>6. PICK f \in DOMAIN M.raw : n = M.raw[f] /\ Kept(d, f) /\ ~Kept(c, f)
  BY <1>3, <1>4, <1>5
<1>7. f \in RefusedAt(c, w)
  <2>1. <<f>> \in Below(w, c.exclude) /\ <<f>> \notin Below(w, d.exclude)
    BY <1>6 DEF Kept, Keeps, Agree
  <2>2. <<f>> \in ExcludedBy(d, w)
    BY <2>1 DEF Agree, ExcludedBy
  <2>3. f \in RefusedAt(d, w)
    BY <2>1, <2>2 DEF ExcludedBy
  <2> QED BY <2>3, SameRefused DEF Agree
<1>8. CASE Follows(c, w) = {}
  BY <1>3, <1>8 DEF ChanceAt
<1>9. CASE Follows(c, w) # {}
  BY <1>6, <1>7, <1>9 DEF ChanceAt
<1> QED BY <1>8, <1>9

\* Further on, they ask for the same.
LEMMA BelowBeyond ==
    ASSUME NEW w \in Seq(Steps), NEW x \in Seq(Steps), x # <<>>, NEW P \in SUBSET Paths, NEW q
    PROVE  /\ q \in Below(w \o x, P) <=> q \in Paths /\ Fields(x) \o q \in Below(w, P)
           /\ q \in Paths => Fields(x) \o q \in Paths /\ \A f : Fields(x) \o q # <<f>>
<1> DEFINE u == Fields(w)
           v == Fields(x)
<1>1. u \in Seq(Names) /\ v \in Seq(Names) /\ Len(v) = Len(x) /\ Len(x) \in Nat \ {0}
  BY FieldsOfWay, EmptySeq
<1>2. w \o x \in Seq(Steps) /\ Fields(w \o x) = u \o v
  BY ConcatProperties, FieldsOfConcat
<1>3. q \in Below(w \o x, P) <=> q \in Paths /\ (u \o v) \o q \in P
  BY <1>2, BelowIs
<1>4. v \o q \in Below(w, P) <=> v \o q \in Paths /\ u \o (v \o q) \in P
  BY BelowIs
<1> HIDE DEF u, v
<1>5. ASSUME q \in Paths PROVE v \o q \in Paths /\ Len(v \o q) > 1 /\ (u \o v) \o q = u \o (v \o q)
  <2>1. q \in Seq(Names) /\ Len(q) \in Nat \ {0}
    BY <1>5, EmptySeq DEF Paths
  <2>2. v \o q \in Seq(Names) /\ Len(v \o q) = Len(v) + Len(q)
    BY <1>1, <2>1, ConcatProperties
  <2>5. (u \o v) \o q = u \o (v \o q)
    BY <1>1, <2>1, ConcatAssociative
  <2>3. Len(v \o q) > 1
    BY <1>1, <2>1, <2>2
  <2>4. v \o q # <<>>
    BY <2>3, EmptySeq
  <2> QED BY <2>2, <2>3, <2>4, <2>5 DEF Paths
<1>6. ASSUME q \in Paths, NEW f, v \o q = <<f>> PROVE FALSE
  <2>1. Len(<<f>>) = 1
    OBVIOUS
  <2> DEFINE z == v \o q
             o == <<f>>
  <2>2. z = o /\ Len(o) = 1 /\ Len(z) > 1
    BY <1>5, <1>6, <2>1
  <2> HIDE DEF z, o
  <2> QED BY <2>2
<1>7. q \in Paths => \A f : v \o q # <<f>>
  BY <1>6
<1> QED BY <1>3, <1>4, <1>5, <1>7 DEF v

LEMMA ClassBeyond ==
    ASSUME NEW c, NEW d, NEW w \in Seq(Steps), NEW x \in Seq(Steps), x # <<>>
    PROVE  ClassAt(c, w \o x) = ClassAt(d, w \o x)
<1>1. w \o x # <<>>
  BY ConcatEqualIffEmpty
<1> QED BY <1>1 DEF ClassAt

LEMMA AgreeBeyond ==
    ASSUME NEW c \in Calls, NEW d \in Calls, NEW w \in Ways[c], Agree(c, d, w),
           NEW x \in Seq(Steps), x # <<>>
    PROVE  /\ ClassAt(c, w \o x) = ClassAt(d, w \o x)
           /\ Follows(c, w \o x) = Follows(d, w \o x)
           /\ OwnAt(c, w \o x) = OwnAt(d, w \o x)
           /\ ChanceAt(c, w \o x) = ChanceAt(d, w \o x)
<1> DEFINE v == w \o x
<1>1. w \in Seq(Steps)
  BY WaysAre
<1>2. ClassAt(c, v) = ClassAt(d, v)
  BY <1>1, ClassBeyond
<1>3. /\ c.include \subseteq Paths /\ c.exclude \subseteq Paths
      /\ d.include \subseteq Paths /\ d.exclude \subseteq Paths
  BY ParametersArePaths
<1>4. Below(v, c.include) = Below(v, d.include)
  <2>1. Below(w, c.include) = Below(w, d.include)
    BY DEF Agree
  <2>2. \A q : q \in Below(v, c.include) <=> q \in Below(v, d.include)
    BY <1>1, <1>3, <2>1, BelowBeyond
  <2> QED BY <2>2, <1>1, <1>3, BelowBeyond
<1>5. Below(v, c.exclude) = Below(v, d.exclude)
  <2>1. ASSUME NEW r, \A f : r # <<f>> PROVE r \in Below(w, c.exclude) <=> r \in Below(w, d.exclude)
    BY <2>1 DEF Agree, ExcludedBy
  <2>2. ASSUME NEW q PROVE q \in Below(v, c.exclude) <=> q \in Below(v, d.exclude)
    BY <1>1, <1>3, <2>1, BelowBeyond
  <2> QED BY <2>2
<1>6. RefusedAt(c, v) = RefusedAt(d, v)
  BY <1>2, SameRefused DEF Agree
<1>7. c.readonly = d.readonly
  BY CallsAssumption DEF Agree
<1> HIDE DEF v
<1>8. Follows(c, v) = Follows(d, v)
  BY <1>2, <1>4, <1>5, <1>6, <1>7 DEF Follows, KeptAt
<1>9. OwnAt(c, v) = OwnAt(d, v)
  BY <1>2, <1>4, <1>5, <1>7 DEF OwnAt
<1>10. ChanceAt(c, v) = ChanceAt(d, v)
  BY <1>2, <1>6, <1>8 DEF ChanceAt
<1> QED BY <1>2, <1>8, <1>9, <1>10 DEF v

LEMMA AgreeRest ==
    ASSUME NEW c \in Calls, NEW d \in Calls, NEW w \in Ways[c], w \in Ways[d], Agree(c, d, w)
    PROVE  Rest(c, w) = Rest(d, w)
<1>1. w \in Seq(Steps)
  BY WaysAre
<1>2. ASSUME NEW u \in Seq(Steps), NEW s PROVE Takes(c, w \o u, s) <=> Takes(d, w \o u, s)
  <2>1. CASE u = <<>>
    <3>1. w \o <<>> = w
      BY <1>1, ConcatEmptySeq
    <3>2. ClassAt(c, w) = ClassAt(d, w) /\ Follows(c, w) = Follows(d, w)
      BY AgreeChance DEF Agree
    <3> QED BY <2>1, <3>1, <3>2 DEF Takes
  <2>2. CASE u # <<>>
    BY <2>2, AgreeBeyond DEF Takes
  <2> QED BY <2>1, <2>2
<1>3. ASSUME NEW x \in Seq(Steps) PROVE w \o x \in Ways[c] <=> w \o x \in Ways[d]
  <2>1. \A i \in 1..Len(x) : SubSeq(x, 1, i - 1) \in Seq(Steps)
    <3> TAKE i \in 1..Len(x)
    <3>1. \A j \in 1..(i - 1) : x[j] \in Steps
      <4>1. Len(x) \in Nat
        BY LenProperties
      <4> QED BY <4>1, ElementOfSeq
    <3> QED BY <3>1, SubSeqProperties
  <2>2. \A i \in 1..Len(x) : Takes(c, w \o SubSeq(x, 1, i - 1), x[i]) <=> Takes(d, w \o SubSeq(x, 1, i - 1), x[i])
    BY <1>2, <2>1
  <2> QED BY <2>2, WayGoesOn
<1> QED BY <1>3 DEF Rest

-----------------------------------------------------------------------------
(* What the name of a schema tells. *)

\* A schema that has what a call asks for from the end of a way on.
Stands(s, c, w) ==
    /\ s.rels = RelsFrom(c, w)
    /\ SymDiff(s.paths, PathsFrom(c, w)) \subseteq ChanceFrom(c, w)

LEMMA AgreePaths ==
    ASSUME NEW c \in Calls, NEW d \in Calls, NEW w \in Ways[c], w \in Ways[d], Agree(c, d, w),
           NEW p \in PathsFrom(c, w), p \notin PathsFrom(d, w)
    PROVE  p \in ChanceFrom(c, w)
<1>1. Rest(c, w) = Rest(d, w)
  BY AgreeRest
<1>2. p \notin RelsFrom(c, w) /\ p \notin RelsFrom(d, w)
  BY <1>1 DEF PathsFrom, RelsFrom
<1>3. PICK x \in Rest(c, w) : p \in {Append(Fields(x), n) : n \in OwnAt(c, w \o x)}
  BY <1>2 DEF PathsFrom
<1>4. PICK n \in OwnAt(c, w \o x) : p = Append(Fields(x), n)
  BY <1>3
<1>5. n \notin OwnAt(d, w \o x)
  <2>1. SUFFICES ASSUME n \in OwnAt(d, w \o x) PROVE FALSE
    OBVIOUS
  <2>2. x \in Rest(d, w)
    BY <1>1
  <2> QED BY <1>4, <2>1, <2>2, OwnColumn
<1>6. x = <<>>
  BY <1>4, <1>5, AgreeBeyond DEF Rest
<1>7. w \o x = w /\ p = <<n>>
  BY <1>4, <1>6, NoRest
<1>8. n \in ChanceAt(c, w)
  BY <1>4, <1>5, <1>7, AgreeOwn
<1> QED BY <1>7, <1>8, ChanceUnfolds

LEMMA AgreeStands ==
    ASSUME NEW c \in Calls, NEW d \in Calls, NEW w \in Ways[c], w \in Ways[d], Agree(c, d, w),
           NEW s, Stands(s, c, w)
    PROVE  Stands(s, d, w)
<1>1. Rest(c, w) = Rest(d, w)
  BY AgreeRest
<1>2. RelsFrom(c, w) = RelsFrom(d, w)
  BY <1>1 DEF RelsFrom
<1>3. \A x \in Rest(c, w) : ChanceAt(c, w \o x) = ChanceAt(d, w \o x)
  <2> TAKE x \in Rest(c, w)
  <2>1. CASE x = <<>>
    BY <2>1, NoRest, AgreeChance
  <2>2. CASE x # <<>>
    BY <2>2, AgreeBeyond DEF Rest
  <2> QED BY <2>1, <2>2
<1>4. ChanceFrom(c, w) = ChanceFrom(d, w)
  BY <1>1, <1>3 DEF ChanceFrom
<1>5. Agree(d, c, w)
  BY AgreeBoth
<1>6. \A p \in PathsFrom(c, w) : p \in PathsFrom(d, w) \/ p \in ChanceFrom(c, w)
  BY AgreePaths
<1>7. \A p \in PathsFrom(d, w) : p \in PathsFrom(c, w) \/ p \in ChanceFrom(d, w)
  BY <1>5, AgreePaths
<1> QED BY <1>2, <1>4, <1>6, <1>7 DEF Stands, SymDiff

\* Where there are no relations, every column is left to chance.
LEMMA LeafIs ==
    ASSUME NEW c \in Calls, NEW w \in Ways[c], RelsFrom(c, w) = {}
    PROVE  LET M == Model[ClassAt(c, w)]
               all == {<<n>> : n \in M.data \union {M.pk}}
           IN  PathsFrom(c, w) \subseteq all /\ ChanceFrom(c, w) = all
<1> DEFINE M == Model[ClassAt(c, w)]
           all == {<<n>> : n \in M.data \union {M.pk}}
<1>1. Follows(c, w) = {}
  <2>1. \A f \in Follows(c, w) : <<f>> \in RelsFrom(c, w)
    <3>1. \A f \in Follows(c, w) : <<f>> \in RelsDone(c, w, {})
      BY DEF RelsDone
    <3> QED BY <3>1, RelsUnfold
  <2> QED BY <2>1
<1>2. PathsFrom(c, w) = {<<n>> : n \in OwnAt(c, w)}
  BY <1>1, PathsUnfold DEF PathsDone
<1>3. OwnAt(c, w) \subseteq M.data \union {M.pk}
  BY DEF OwnAt, Own, Columns
<1>4. ChanceAt(c, w) = M.data \union {M.pk}
  BY <1>1 DEF ChanceAt
<1>5. all \subseteq ChanceFrom(c, w)
  BY <1>4, ChanceUnfolds
<1>6. ASSUME NEW p \in ChanceFrom(c, w) PROVE p \in all
  <2>1. PICK x \in Rest(c, w) : p \in {Append(Fields(x), n) : n \in ChanceAt(c, w \o x)}
    BY DEF ChanceFrom
  <2>2. x = <<>>
    BY <1>1, RestFront
  <2>3. w \o x = w /\ \A n : Append(Fields(x), n) = <<n>>
    BY <2>2, NoRest
  <2> QED BY <1>4, <2>1, <2>3
<1> QED BY <1>2, <1>3, <1>5, <1>6

LEMMA LeafStands ==
    ASSUME NEW c \in Calls, NEW w \in Ways[c], NEW d \in Calls, NEW v \in Ways[d],
           ClassAt(c, w) = ClassAt(d, v), RelsFrom(c, w) = {}, RelsFrom(d, v) = {},
           NEW s, Stands(s, c, w)
    PROVE  Stands(s, d, v)
<1> DEFINE M == Model[ClassAt(c, w)]
           all == {<<n>> : n \in M.data \union {M.pk}}
<1>1. PathsFrom(c, w) \subseteq all /\ ChanceFrom(c, w) = all
  BY LeafIs
<1>2. PathsFrom(d, v) \subseteq all /\ ChanceFrom(d, v) = all
  BY LeafIs
<1> HIDE DEF all
<1> QED BY <1>1, <1>2 DEF Stands, SymDiff

\* The name of what a call asks for from the end of a way on.
CyclesAt(c, w) == IF w = <<>> THEN c.cycles ELSE Allowed(c.cycles)
NameAt(c, w) ==
    IF w = <<>> /\ c.name # NoName THEN <<"given", c.name>>
    ELSE IF RelsFrom(c, w) = {} THEN <<"leaf", ClassAt(c, w)>>
    ELSE IF ExcludedBy(c, w) = {} /\ Below(w, c.include) = {} /\ CyclesAt(c, w) = "default"
         THEN <<"default", ClassAt(c, w)>>
    ELSE <<"hash", ClassAt(c, w), ExcludedBy(c, w), Below(w, c.include), w, CyclesAt(c, w)>>

\* What has relations is not asked for with exclude_readonly.
LEMMA RelationsMeanWritable ==
    ASSUME NEW c \in Calls, NEW w \in Ways[c], RelsFrom(c, w) # {} PROVE ~c.readonly
<1>1. RelsDone(c, w, {}) # {}
  BY RelsUnfold
<1>2. Follows(c, w) # {}
  BY <1>1 DEF RelsDone
<1> QED BY <1>2 DEF Follows, KeptAt

LEMMA PartsOfName ==
    /\ \A a, b : <<"default", a>> = <<"default", b>> => a = b
    /\ \A a1, a2, a3, a4, a5, b1, b2, b3, b4, b5 :
          <<"hash", a1, a2, a3, a4, a5>> = <<"hash", b1, b2, b3, b4, b5>>
          => a1 = b1 /\ a2 = b2 /\ a3 = b3 /\ a4 = b4 /\ a5 = b5
OBVIOUS

LEMMA CyclesTell ==
    ASSUME NEW c \in Calls, NEW d \in Calls, NEW w, CyclesAt(c, w) = CyclesAt(d, w)
    PROVE  c.cycles = "yes" <=> d.cycles = "yes"
BY CallsAssumption DEF CyclesAt, Allowed

\* Unless it was given, a name tells enough of what is asked for.
LEMMA NamesTell ==
    ASSUME NEW c \in Calls, NEW w \in Ways[c], NEW d \in Calls, NEW v \in Ways[d],
           NameAt(c, w) = NameAt(d, v), ~(v = <<>> /\ d.name # NoName),
           NEW s, Stands(s, c, w)
    PROVE  Stands(s, d, v)
<1>1. ~(w = <<>> /\ c.name # NoName)
  <2>1. NameAt(d, v)[1] # "given"
    BY DEF NameAt
  <2>2. w = <<>> /\ c.name # NoName => NameAt(c, w)[1] = "given"
    BY DEF NameAt
  <2> QED BY <2>1, <2>2
<1>2. CASE RelsFrom(c, w) = {}
  <2>1. NameAt(c, w)[1] = "leaf" /\ NameAt(c, w)[2] = ClassAt(c, w)
    BY <1>1, <1>2 DEF NameAt
  <2>2. RelsFrom(d, v) = {} /\ NameAt(d, v)[2] = ClassAt(d, v)
    BY <2>1 DEF NameAt
  <2> QED BY <1>2, <2>1, <2>2, LeafStands
<1>3. CASE RelsFrom(c, w) # {}
  <2>1. NameAt(c, w)[1] # "leaf"
    BY <1>1, <1>3 DEF NameAt
  <2>2. RelsFrom(d, v) # {}
    BY <2>1 DEF NameAt
  <2>3. w = v /\ Agree(c, d, w)
    <3>1. ~c.readonly /\ ~d.readonly
      BY <1>3, <2>2, RelationsMeanWritable
    <3>2. CASE NameAt(c, w)[1] = "default"
      <4>1. /\ ExcludedBy(c, w) = {} /\ Below(w, c.include) = {} /\ CyclesAt(c, w) = "default"
            /\ NameAt(c, w) = <<"default", ClassAt(c, w)>>
        BY <1>1, <1>3, <3>2 DEF NameAt
      <4>2. /\ ExcludedBy(d, v) = {} /\ Below(v, d.include) = {} /\ CyclesAt(d, v) = "default"
            /\ NameAt(d, v) = <<"default", ClassAt(d, v)>>
        BY <2>2, <3>2 DEF NameAt
      <4>3. w = <<>> /\ v = <<>>
        BY <4>1, <4>2 DEF CyclesAt, Allowed
      <4>4. ClassAt(c, w) = ClassAt(d, v)
        BY <4>1, <4>2, PartsOfName, Zenon
      <4> QED BY <3>1, <4>1, <4>2, <4>3, <4>4, CyclesTell DEF Agree
    <3>3. CASE NameAt(c, w)[1] # "default"
      <4>1. NameAt(c, w) = <<"hash", ClassAt(c, w), ExcludedBy(c, w), Below(w, c.include), w, CyclesAt(c, w)>>
        BY <1>1, <1>3, <3>3 DEF NameAt
      <4>2. NameAt(d, v) = <<"hash", ClassAt(d, v), ExcludedBy(d, v), Below(v, d.include), v, CyclesAt(d, v)>>
        BY <2>2, <3>3 DEF NameAt
      <4>3. /\ w = v /\ ClassAt(c, w) = ClassAt(d, v) /\ ExcludedBy(c, w) = ExcludedBy(d, v)
            /\ Below(w, c.include) = Below(v, d.include) /\ CyclesAt(c, w) = CyclesAt(d, v)
        <5>1. <<"hash", ClassAt(c, w), ExcludedBy(c, w), Below(w, c.include), w, CyclesAt(c, w)>>
                = <<"hash", ClassAt(d, v), ExcludedBy(d, v), Below(v, d.include), v, CyclesAt(d, v)>>
          BY <4>1, <4>2, Zenon
        <5> QED BY <5>1, PartsOfName, Zenon
      <4> QED BY <3>1, <4>3, CyclesTell DEF Agree
    <3> QED BY <3>2, <3>3
  <2> QED BY <2>3, AgreeStands
<1> QED BY <1>2, <1>3

-----------------------------------------------------------------------------
(* Calls in progress. *)

\* From the start of the way on, a call asks for all it asks for.
LEMMA WholeCall ==
    ASSUME NEW c \in Calls
    PROVE  /\ RelsFrom(c, <<>>) = AskedRels[c] /\ PathsFrom(c, <<>>) = AskedPaths[c]
           /\ ChanceFrom(c, <<>>) = ByChance[c]
           /\ Complete(c, <<>>) <=> c \notin AsksTooMuch
           /\ Below(<<>>, c.include) = c.include /\ Below(<<>>, c.exclude) = c.exclude
<1>1. \A x \in Seq(Steps) : <<>> \o x = x
  BY ConcatEmptySeq
<1>2. Ways[c] \subseteq Seq(Steps)
  BY WaysAre
<1>3. Rest(c, <<>>) = Ways[c]
  BY <1>1, <1>2 DEF Rest
<1>4. \A x \in Ways[c] : <<>> \o x = x
  BY <1>1, <1>2
<1>5. RelsFrom(c, <<>>) = AskedRels[c]
  BY <1>3 DEF RelsFrom, AskedRels
<1>6. \A x \in Ways[c] : {Append(Fields(x), n) : n \in OwnAt(c, <<>> \o x)} = {Append(Fields(x), n) : n \in OwnAt(c, x)}
  BY <1>4
<1>7. PathsFrom(c, <<>>) = AskedPaths[c]
  BY <1>3, <1>5, <1>6 DEF PathsFrom, AskedPaths
<1>8. \A x \in Ways[c] : {Append(Fields(x), n) : n \in ChanceAt(c, <<>> \o x)} = {Append(Fields(x), n) : n \in ChanceAt(c, x)}
  BY <1>4
<1>9. ChanceFrom(c, <<>>) = ByChance[c]
  BY <1>3, <1>8 DEF ChanceFrom, ByChance
<1>10. Complete(c, <<>>) <=> c \notin AsksTooMuch
  BY <1>3, <1>4 DEF Complete, AsksTooMuch, MissingAt
<1>11. ASSUME NEW P \in SUBSET Paths PROVE Below(<<>>, P) = P
  <2>1. <<>> \in Seq(Steps) /\ Fields(<<>>) = <<>>
    BY DEF Fields
  <2>2. \A q \in Paths : <<>> \o q = q
    BY ConcatEmptySeq DEF Paths
  <2>3. \A q : q \in Below(<<>>, P) <=> q \in Paths /\ Fields(<<>>) \o q \in P
    BY <2>1, BelowIs
  <2> QED BY <2>1, <2>2, <2>3
<1> QED BY <1>5, <1>7, <1>9, <1>10, <1>11, ParametersArePaths

\* A call in progress.
FrameStands(fr, c) ==
    LET w == fr.stack
    IN  /\ w \in Ways[c] /\ fr.cls = ClassAt(c, w)
        /\ fr.name = IF w = <<>> THEN c.name ELSE NoName
        /\ fr.include = Below(w, c.include)
        /\ fr.exclude = Below(w, c.exclude) \union {<<f>> : f \in (KeptAt(c, w) \intersect RefusedAt(c, w)) \ fr.todo}
        /\ fr.cycles = CyclesAt(c, w)
        /\ fr.todo \subseteq KeptAt(c, w)
        /\ fr.rels = RelsDone(c, w, fr.todo)
        /\ SymDiff(fr.paths, PathsDone(c, w, fr.todo)) \subseteq ChanceFrom(c, w)
        /\ CompleteDone(c, w, fr.todo)

NewFrame(c, w) ==
    Frame(ClassAt(c, w), IF w = <<>> THEN c.name ELSE NoName, Below(w, c.include), Below(w, c.exclude),
          c.readonly, CyclesAt(c, w), w)

LEMMA NewFrameStands ==
    ASSUME NEW c \in Calls, NEW w \in Ways[c], ~MissingAt(c, w)
    PROVE  FrameStands(NewFrame(c, w), c) /\ NewFrame(c, w).stack = w
<1> DEFINE fr == NewFrame(c, w)
<1>1. /\ fr.stack = w /\ fr.cls = ClassAt(c, w) /\ fr.name = (IF w = <<>> THEN c.name ELSE NoName)
      /\ fr.include = Below(w, c.include) /\ fr.exclude = Below(w, c.exclude)
      /\ fr.cycles = CyclesAt(c, w) /\ fr.rels = {}
      /\ fr.todo = (IF c.readonly THEN {} ELSE {f \in Relations(ClassAt(c, w)) :
                                                  Keeps(Below(w, c.include), Below(w, c.exclude), f)})
      /\ fr.paths = {<<n>> : n \in OwnAt(c, w)}
  BY DEF NewFrame, Frame, OwnAt
<1>2. fr.todo = KeptAt(c, w)
  BY <1>1 DEF KeptAt
<1> HIDE DEF fr
<1>3. Follows(c, w) \ fr.todo = {}
  BY <1>2 DEF Follows
<1>4. RelsDone(c, w, fr.todo) = {} /\ PathsDone(c, w, fr.todo) = fr.paths /\ CompleteDone(c, w, fr.todo)
  BY <1>1, <1>3 DEF RelsDone, PathsDone, CompleteDone
<1>5. SymDiff(fr.paths, fr.paths) = {}
  BY DEF SymDiff
<1>6. fr.exclude = Below(w, c.exclude) \union {<<f>> : f \in (KeptAt(c, w) \intersect RefusedAt(c, w)) \ fr.todo}
  BY <1>1, <1>2
<1> QED BY <1>1, <1>2, <1>4, <1>5, <1>6 DEF FrameStands, fr

\* A frame with no relations left to do is what was asked for, and has its name.
LEMMA DoneFrame ==
    ASSUME NEW c \in Calls, NEW fr, FrameStands(fr, c), fr.todo = {}
    PROVE  Name(fr) = NameAt(c, fr.stack) /\ Stands(fr, c, fr.stack) /\ Complete(c, fr.stack)
<1> DEFINE w == fr.stack
<1>1. w \in Ways[c]
  BY DEF FrameStands
<1>2. fr.rels = RelsFrom(c, w) /\ PathsDone(c, w, fr.todo) = PathsFrom(c, w) /\ Complete(c, w)
  BY <1>1, RelsUnfold, PathsUnfold, CompleteUnfolds DEF FrameStands
<1>3. fr.exclude = ExcludedBy(c, w)
  BY DEF FrameStands, ExcludedBy
<1>4. /\ fr.cls = ClassAt(c, w) /\ fr.include = Below(w, c.include) /\ fr.cycles = CyclesAt(c, w)
      /\ fr.name = IF w = <<>> THEN c.name ELSE NoName
  BY DEF FrameStands
<1>5. Stands(fr, c, w)
  BY <1>2 DEF FrameStands, Stands
<1>6. Name(fr) = NameAt(c, w)
  BY <1>2, <1>3, <1>4, Zenon DEF Name, NameAt
<1> QED BY <1>2, <1>5, <1>6

\* What is passed on to the schema of a relation.
LEMMA UnderIsBelow ==
    ASSUME NEW c \in Calls, NEW w \in Ways[c], NEW f \in Follows(c, w), NEW P \in SUBSET Paths, NEW X
    PROVE  Under(f, Below(w, P) \union {<<g>> : g \in X}) = Below(Onto(c, w, f), P)
<1> DEFINE s == StepOf(c, w, f)
           x == <<s>>
           Q == Below(w, P) \union {<<g>> : g \in X}
<1>1. w \in Seq(Steps) /\ s \in Steps /\ s[2] = f /\ Onto(c, w, f) = w \o x
  BY WaysAre, StepOn DEF StepOf
<1> HIDE DEF s
<1>2. x \in Seq(Steps) /\ x # <<>> /\ Fields(x) = <<f>>
  BY <1>1, FieldsOfStep
<1> HIDE DEF x
<1>3. ASSUME NEW q PROVE q \in Below(Onto(c, w, f), P) <=> q \in Paths /\ <<f>> \o q \in Below(w, P)
  BY <1>1, <1>2, BelowBeyond
<1>4. ASSUME NEW q \in Paths
      PROVE  Len(<<f>> \o q) > 1 /\ (<<f>> \o q)[1] = f /\ Tail(<<f>> \o q) = q
  <2> DEFINE T == Names \union {f}
             one == <<f>>
  <2>1. /\ q \in Seq(T) /\ q # <<>> /\ one \in Seq(T) /\ Len(one) = 1 /\ one[1] = f
        /\ Len(q) \in Nat \ {0}
    <3>1. q \in Seq(T) /\ q # <<>> /\ one \in Seq(T) /\ Len(one) = 1 /\ one[1] = f
      BY SeqMonotonic DEF Paths
    <3> QED BY <3>1, EmptySeq
  <2> HIDE DEF T, one
  <2>2. /\ one \o q \in Seq(T) /\ Len(one \o q) = 1 + Len(q)
        /\ \A i \in 1..(1 + Len(q)) : (one \o q)[i] = IF i <= 1 THEN one[i] ELSE q[i - 1]
    <3>1. /\ one \o q \in Seq(T) /\ Len(one \o q) = Len(one) + Len(q)
          /\ \A i \in 1..(Len(one) + Len(q)) : (one \o q)[i] = IF i <= Len(one) THEN one[i] ELSE q[i - Len(one)]
      BY <2>1, ConcatProperties
    <3> QED BY <2>1, <3>1
  <2>3. Len(one \o q) > 1 /\ (one \o q)[1] = f /\ one \o q # <<>>
    BY <2>1, <2>2
  <2> DEFINE t == Tail(one \o q)
  <2>4. t \in Seq(T) /\ Len(t) = Len(q) /\ \A i \in 1..Len(q) : t[i] = (one \o q)[i + 1]
    <3>1. /\ t \in Seq(T) /\ Len(t) = Len(one \o q) - 1
          /\ \A i \in 1..Len(t) : t[i] = (one \o q)[i + 1]
      BY <2>2, <2>3, HeadTailProperties
    <3> HIDE DEF t
    <3> QED BY <2>1, <2>2, <3>1
  <2> HIDE DEF t
  <2>5. \A i \in 1..Len(q) : t[i] = q[i]
    <3> TAKE i \in 1..Len(q)
    <3>1. i + 1 \in 1..(1 + Len(q)) /\ ~(i + 1 <= 1) /\ i + 1 - 1 = i
      BY <2>1
    <3>2. t[i] = (one \o q)[i + 1] /\ (one \o q)[i + 1] = q[i + 1 - 1]
      BY <2>2, <2>4, <3>1
    <3> QED BY <3>1, <3>2
  <2>6. t = q
    BY <2>1, <2>4, <2>5, SeqEqual
  <2> QED BY <2>3, <2>6 DEF one, t
<1>5. ASSUME NEW p \in Paths, Len(p) > 1, p[1] = f PROVE Tail(p) \in Paths /\ p = <<f>> \o Tail(p)
  <2>1. p \in Seq(Names) /\ p # <<>> /\ Len(p) \in Nat \ {0}
    BY EmptySeq DEF Paths
  <2>2. Tail(p) \in Seq(Names) /\ Len(Tail(p)) = Len(p) - 1 /\ Tail(p) = SubSeq(p, 2, Len(p))
    BY <2>1, HeadTailProperties, TailIsSubSeq
  <2>3. SubSeq(p, 1, Len(p)) = p /\ SubSeq(p, 1, Len(p)) = <<p[1]>> \o SubSeq(p, 1 + 1, Len(p))
    <3>1. 1 \in 1..Len(p) /\ Len(p) \in 1..Len(p)
      BY <2>1
    <3> QED BY <2>1, <3>1, SubSeqFull, SubSeqRecursiveFirst
  <2>4. Tail(p) # <<>>
    <3> DEFINE t == Tail(p)
    <3>1. Len(t) = Len(p) - 1
      BY <2>2
    <3> HIDE DEF t
    <3>2. Len(t) > 0
      BY <1>5, <2>1, <3>1
    <3>3. t # <<>>
      BY <3>2
    <3> QED BY <3>3 DEF t
  <2> QED BY <1>5, <2>2, <2>3, <2>4 DEF Paths
<1>6. Below(w, P) \subseteq Paths
  BY <1>1, BelowIs
<1>7. \A g : Len(<<g>>) = 1
  OBVIOUS
<1>8. ASSUME NEW p \in Q, Len(p) > 1, p[1] = f PROVE p \in Below(w, P)
  <2>1. ASSUME NEW g \in X, p = <<g>> PROVE FALSE
    BY <1>7, <1>8, <2>1
  <2> QED BY <2>1
<1>9. ASSUME NEW q PROVE q \in Under(f, Q) <=> q \in Below(Onto(c, w, f), P)
  <2>1. ASSUME q \in Under(f, Q) PROVE q \in Below(Onto(c, w, f), P)
    <3>1. PICK p \in Q : Len(p) > 1 /\ p[1] = f /\ q = Tail(p)
      BY <2>1 DEF Under
    <3> HIDE DEF Q
    <3> QED BY <1>3, <1>5, <1>6, <1>8, <3>1
  <2>2. ASSUME q \in Below(Onto(c, w, f), P) PROVE q \in Under(f, Q)
    <3> DEFINE p == <<f>> \o q
    <3>1. q \in Paths /\ p \in Below(w, P)
      BY <1>3, <2>2
    <3>2. Len(p) > 1 /\ p[1] = f /\ Tail(p) = q
      BY <1>4, <3>1
    <3> HIDE DEF p
    <3> QED BY <3>1, <3>2 DEF Under
  <2> QED BY <2>1, <2>2
<1> QED BY <1>9

\* _pydantic_recursion_protector.
LEMMA RefusesIs ==
    ASSUME NEW c \in Calls, NEW w \in Ways[c], NEW f \in KeptAt(c, w)
    PROVE  Refuses(Model[ClassAt(c, w)].to[f], Onto(c, w, f), CyclesAt(c, w)) <=> f \in RefusedAt(c, w)
<1> DEFINE d == ClassAt(c, w)
           s == StepOf(c, w, f)
           m == Len(w)
<1>1. w \in Seq(Steps) /\ m \in Nat /\ DOMAIN w = 1..m
  BY WaysAre, LenProperties
<1>2. s \in Steps
  <2>1. d \in DOMAIN Model /\ f \in DOMAIN Model[d].to
    BY ClassOfWay DEF KeptAt, Relations
  <2> QED BY <2>1 DEF Steps, StepOf
<1> HIDE DEF s
<1>3. Len(Append(w, s)) = m + 1 /\ \A i \in 1..m : Append(w, s)[i] = w[i]
  BY <1>1, <1>2, AppendProperties
<1>4. CyclesAt(c, w) # "yes" <=> c.cycles # "yes"
  BY DEF CyclesAt, Allowed
<1>5. (\E i \in 2..(m + 1) : i - 1 >= MaxRecursion) <=> m # 0 /\ m >= MaxRecursion
  <2>1. ASSUME m # 0, m >= MaxRecursion PROVE m + 1 \in 2..(m + 1) /\ m + 1 - 1 >= MaxRecursion
    BY <1>1, <2>1
  <2>2. ASSUME NEW i \in 2..(m + 1), i - 1 >= MaxRecursion PROVE m # 0 /\ m >= MaxRecursion
    BY <1>1, <2>2, BoundsAssumption
  <2> QED BY <2>1, <2>2
<1>6. m # 0 <=> w # <<>>
  BY <1>1, EmptySeq
<1>7. Onto(c, w, f) = Append(w, s)
  BY DEF Onto, s
<1>8. f \in Relations(d)
  BY DEF KeptAt
<1>9. 1..(Len(Onto(c, w, f)) - 1) = 1..m /\ 2..Len(Onto(c, w, f)) = 2..(m + 1)
  BY <1>1, <1>3, <1>7
<1>10. Refuses(Model[d].to[f], Onto(c, w, f), CyclesAt(c, w)) <=>
            \/ c.cycles # "yes" /\ \E i \in 1..m : w[i][1] = Model[d].to[f]
            \/ m # 0 /\ m >= MaxRecursion
  BY <1>3, <1>4, <1>5, <1>7, <1>9 DEF Refuses
<1> QED BY <1>1, <1>6, <1>8, <1>10 DEF RefusedAt

LEMMA Earliest ==
    ASSUME NEW c \in DOMAIN Model, NEW T \in SUBSET DOMAIN Model[c].to, T # {}
    PROVE  \E f \in T : \A g \in T : Model[c].place[f] <= Model[c].place[g]
<1> DEFINE R == OpToRel(<, Nat)
           N == {Model[c].place[f] : f \in T}
<1>1. N \subseteq Nat /\ N # {}
  BY ModelAssumption
<1>2. IsWellFoundedOn(R, Nat)
  BY NatLessThanWellFounded
<1>3. \A x, y \in Nat : x < y => <<x, y>> \in R
  BY DEF OpToRel
<1> HIDE DEF R, N
<1>4. PICK x \in N : \A y \in N : ~(<<y, x>> \in R)
  BY <1>1, <1>2, WFMin
<1>5. \A y \in N : x <= y
  <2> TAKE y \in N
  <2>1. x \in Nat /\ y \in Nat /\ ~(y < x)
    BY <1>1, <1>3, <1>4
  <2> QED BY <2>1
<1> QED BY <1>4, <1>5 DEF N

-----------------------------------------------------------------------------
(* Answers. *)

\* The call that is being answered.
Current == asked[Len(asked)]

\* Frames stand for the way from the call to them.
FramesInv ==
    /\ asked \in Seq(Calls)
    /\ Len(asked) = Len(made) + IF frames = <<>> THEN 0 ELSE 1
    /\ \A i \in 1..Len(frames) : FrameStands(frames[i], Current)
    /\ \A i \in 1..(Len(frames) - 1) :
          \E f \in frames[i + 1].todo \intersect Follows(Current, frames[i + 1].stack) :
              frames[i].stack = Onto(Current, frames[i + 1].stack, f)
    /\ frames # <<>> => frames[Len(frames)].stack = <<>>

\* A name stands for what a call asked for that has this name, and a given name
\* was given by an earlier call.
Registered(n, s) == \E c \in Calls : \E w \in Ways[c] : n = NameAt(c, w) /\ Stands(s, c, w)
IndexInv ==
    /\ \A n \in DOMAIN index : Registered(n, index[n])
    /\ \A n \in DOMAIN index : n[1] = "given" =>
          \E j \in 1..Len(made) : asked[j].name # NoName /\ n = <<"given", asked[j].name>>

AnswerInv == FetchInv /\ FramesInv /\ IndexInv /\ AnsweredUpToLeaves

\* An answer to the k-th of some calls.
Answers(s, calls, k) ==
    /\ s = KeyError <=> calls[k] \in AsksTooMuch
    /\ \/ s = KeyError
       \/ calls[k].name # NoName /\ \E j \in 1..(k - 1) : calls[j].name = calls[k].name
       \/ Stands(s, calls[k], <<>>)

AllAnswered(calls, answers) ==
    \A k \in DOMAIN answers :
        /\ answers[k] = KeyError <=> calls[k] \in AsksTooMuch
        /\ \/ answers[k] = KeyError
           \/ calls[k].name # NoName /\ \E j \in 1..(k - 1) : calls[j].name = calls[k].name
           \/ /\ answers[k].rels = AskedRels[calls[k]]
              /\ SymDiff(answers[k].paths, AskedPaths[calls[k]]) \subseteq ByChance[calls[k]]

LEMMA AnsweredIs ==
    ASSUME NEW calls \in Seq(Calls), NEW answers, answers \in Seq(Range(answers)), Len(answers) <= Len(calls)
    PROVE  AllAnswered(calls, answers) <=> \A k \in 1..Len(answers) : Answers(answers[k], calls, k)
<1>1. DOMAIN answers = 1..Len(answers) /\ Len(answers) \in Nat /\ Len(calls) \in Nat
  BY LenProperties
<1>2. \A k \in 1..Len(answers) : calls[k] \in Calls
  BY <1>1, ElementOfSeq
<1>3. \A k \in 1..Len(answers) :
        Stands(answers[k], calls[k], <<>>) <=>
            /\ answers[k].rels = AskedRels[calls[k]]
            /\ SymDiff(answers[k].paths, AskedPaths[calls[k]]) \subseteq ByChance[calls[k]]
  BY <1>2, WholeCall DEF Stands
<1> QED BY <1>1, <1>3 DEF Answers, AllAnswered

\* Earlier answers stand when there is another call, and when it is answered.
LEMMA NoAnswer ==
    ASSUME FetchInv, AnsweredUpToLeaves, asked \in Seq(Calls), Len(made) <= Len(asked),
           asked' \in Seq(Calls), Len(made) <= Len(asked)',
           \A k \in 1..Len(made) : asked'[k] = asked[k], made' = made
    PROVE  AnsweredUpToLeaves'
<1>1. made \in Seq(Range(made)) /\ Len(made) \in Nat
  BY LenProperties DEF FetchInv
<1>2. \A k \in 1..Len(made) : Answers(made[k], asked, k)
  <2>1. AllAnswered(asked, made)
    BY DEF AnsweredUpToLeaves, AllAnswered
  <2> QED BY <1>1, <2>1, AnsweredIs
<1>3. \A k \in 1..Len(made) : Answers(made[k], asked', k)
  <2> TAKE k \in 1..Len(made)
  <2>1. /\ Answers(made[k], asked, k) /\ asked'[k] = asked[k]
        /\ \A j \in 1..(k - 1) : asked'[j] = asked[j]
    BY <1>1, <1>2
  <2> QED BY <2>1 DEF Answers
<1>4. AllAnswered(asked', made)
  BY <1>1, <1>3, AnsweredIs
<1> QED BY <1>4 DEF AnsweredUpToLeaves, AllAnswered

LEMMA OneAnswer ==
    ASSUME FetchInv, AnsweredUpToLeaves, asked \in Seq(Calls), Len(made) <= Len(asked),
           asked' \in Seq(Calls), Len(asked)' = Len(made) + 1,
           \A k \in 1..Len(made) : asked'[k] = asked[k],
           NEW s, made' = Append(made, s), Answers(s, asked', Len(made) + 1)
    PROVE  AnsweredUpToLeaves' /\ Len(made)' = Len(made) + 1
<1>1. made \in Seq(Range(made)) /\ Len(made) \in Nat
  BY LenProperties DEF FetchInv
<1>2. \A k \in 1..Len(made) : Answers(made[k], asked, k)
  <2>1. AllAnswered(asked, made)
    BY DEF AnsweredUpToLeaves, AllAnswered
  <2> QED BY <1>1, <2>1, AnsweredIs
<1>3. \A k \in 1..Len(made) : Answers(made[k], asked', k)
  <2> TAKE k \in 1..Len(made)
  <2>1. /\ Answers(made[k], asked, k) /\ asked'[k] = asked[k]
        /\ \A j \in 1..(k - 1) : asked'[j] = asked[j]
    BY <1>1, <1>2
  <2> QED BY <2>1 DEF Answers
<1>4. made' \in Seq(Range(made'))
  BY <1>1, OwnAppend
<1>5. /\ Len(made') = Len(made) + 1 /\ made'[Len(made) + 1] = s
      /\ \A k \in 1..Len(made) : made'[k] = made[k]
  <2> DEFINE S == Range(made) \union {s}
  <2>1. made \in Seq(S) /\ s \in S
    BY <1>1, SeqMonotonic
  <2> HIDE DEF S
  <2> QED BY <2>1, AppendProperties
<1>6. \A k \in 1..Len(made') : Answers(made'[k], asked', k)
  <2> TAKE k \in 1..Len(made')
  <2>1. CASE k = Len(made) + 1
    BY <1>5, <2>1
  <2>2. CASE k # Len(made) + 1
    <3>1. k \in 1..Len(made)
      BY <1>1, <1>5, <2>2
    <3> QED BY <1>3, <1>5, <3>1
  <2> QED BY <2>1, <2>2
<1>7. Len(made') <= Len(asked')
  BY <1>1, <1>5
<1>8. AllAnswered(asked', made')
  BY <1>4, <1>6, <1>7, AnsweredIs
<1> QED BY <1>5, <1>8 DEF AnsweredUpToLeaves, AllAnswered

\* The frame that is worked at.
LEMMA TopStands ==
    ASSUME FetchInv, FramesInv, frames # <<>>
    PROVE  /\ Current \in Calls /\ FrameStands(Top, Current) /\ Top.stack \in Ways[Current]
           /\ Len(frames) \in Nat \ {0} /\ Len(asked) = Len(made) + 1 /\ Len(made) \in Nat
           /\ DOMAIN Top = FrameFields /\ DOMAIN frames = 1..Len(frames)
<1>1. Len(frames) \in Nat \ {0} /\ DOMAIN frames = 1..Len(frames) /\ Len(made) \in Nat
  BY EmptySeq, LenProperties DEF FetchInv
<1>2. Len(asked) = Len(made) + 1
  BY DEF FramesInv
<1>3. Current \in Calls
  BY <1>1, <1>2, ElementOfSeq DEF FramesInv, Current
<1>4. FrameStands(Top, Current)
  BY <1>1 DEF FramesInv, Top
<1>5. Top \in Range(frames)
  BY <1>1 DEF Range, Top
<1> QED BY <1>1, <1>2, <1>3, <1>4, <1>5 DEF FrameStands, FetchInv, FrameCovered

LEMMA FieldIsNext ==
    ASSUME FetchInv, FramesInv, frames # <<>>, Top.todo # {}
    PROVE  /\ Field \in Top.todo /\ Field \in KeptAt(Current, Top.stack)
           /\ NewStack = Onto(Current, Top.stack, Field)
           /\ Refuses(Nested, NewStack, Top.cycles) <=> Field \in RefusedAt(Current, Top.stack)
<1>1. /\ Current \in Calls /\ Top.stack \in Ways[Current] /\ FrameStands(Top, Current)
  BY TopStands
<1>2. Top.cls = ClassAt(Current, Top.stack) /\ Top.todo \subseteq KeptAt(Current, Top.stack)
      /\ Top.cycles = CyclesAt(Current, Top.stack)
  BY <1>1 DEF FrameStands
<1>3. Top.cls \in DOMAIN Model /\ Top.todo \subseteq DOMAIN Model[Top.cls].to
  BY <1>1, <1>2, ClassOfWay DEF KeptAt, Relations
<1>4. Field \in Top.todo
  BY <1>3, Earliest DEF Field
<1> HIDE DEF Top
<1>5. NewStack = Onto(Current, Top.stack, Field) /\ Nested = Model[ClassAt(Current, Top.stack)].to[Field]
  BY <1>2 DEF NewStack, Nested, Onto, StepOf
<1>6. Field \in KeptAt(Current, Top.stack)
  BY <1>2, <1>4
<1> HIDE DEF Field, NewStack, Nested
<1> QED BY <1>1, <1>2, <1>4, <1>5, <1>6, RefusesIs

\* The frame of the related model.
LEMMA NestedFrame ==
    ASSUME FetchInv, FramesInv, frames # <<>>, Top.todo # {}, ~Refuses(Nested, NewStack, Top.cycles)
    PROVE  LET include == Under(Field, Top.include)
               exclude == Under(Field, Top.exclude)
           IN  /\ Field \in Follows(Current, Top.stack) /\ NewStack \in Ways[Current]
               /\ RawMissing(Nested, include, exclude, FALSE) <=> MissingAt(Current, NewStack)
               /\ Frame(Nested, NoName, include, exclude, FALSE, Allowed(Top.cycles), NewStack)
                    = NewFrame(Current, NewStack)
<1> DEFINE c == Current
           w == Top.stack
           f == Field
           u == Onto(c, w, f)
           include == Under(f, Top.include)
           exclude == Under(f, Top.exclude)
<1>1. c \in Calls /\ w \in Ways[c] /\ FrameStands(Top, c)
  BY TopStands
<1>2. f \in Follows(c, w) /\ NewStack = u
  BY FieldIsNext DEF Follows
<1>3. Top.cls = ClassAt(c, w) /\ Top.include = Below(w, c.include) /\ Top.cycles = CyclesAt(c, w)
      /\ \E X : Top.exclude = Below(w, c.exclude) \union {<<g>> : g \in X}
  BY <1>1 DEF FrameStands
<1>4. Nested = Model[ClassAt(c, w)].to[f]
  BY <1>3 DEF Nested
<1> HIDE DEF c, w, f
<1>5. u \in Ways[c] /\ u = w \o <<StepOf(c, w, f)>> /\ StepOf(c, w, f) \in Steps /\ w \in Seq(Steps)
  BY <1>1, <1>2, StepOn, WaysAre
<1>6. Len(u) = Len(w) + 1 /\ u[Len(u)] = StepOf(c, w, f) /\ u # <<>>
  <2>1. /\ Append(w, StepOf(c, w, f)) # <<>> /\ Len(Append(w, StepOf(c, w, f))) = Len(w) + 1
        /\ Append(w, StepOf(c, w, f))[Len(w) + 1] = StepOf(c, w, f)
    BY <1>5, AppendProperties
  <2> QED BY <2>1 DEF Onto
<1>7. ClassAt(c, u) = Nested
  BY <1>4, <1>6 DEF ClassAt, Last, StepOf
<1>8. include = Below(u, c.include)
  <2>1. Top.include = Below(w, c.include) \union {<<g>> : g \in {}}
    BY <1>3
  <2>2. c.include \in SUBSET Paths
    BY <1>1, ParametersArePaths
  <2>3. Under(f, Below(w, c.include) \union {<<g>> : g \in {}}) = Below(Onto(c, w, f), c.include)
    BY <1>1, <1>2, <2>2, UnderIsBelow
  <2> QED BY <2>1, <2>3
<1>9. exclude = Below(u, c.exclude)
  <2>1. PICK X : Top.exclude = Below(w, c.exclude) \union {<<g>> : g \in X}
    BY <1>3
  <2>2. c.exclude \in SUBSET Paths
    BY <1>1, ParametersArePaths
  <2>3. Under(f, Below(w, c.exclude) \union {<<g>> : g \in X}) = Below(Onto(c, w, f), c.exclude)
    BY <1>1, <1>2, <2>2, UnderIsBelow
  <2> QED BY <2>1, <2>3
<1>10. c.readonly = FALSE
  BY <1>1, <1>2, CallsAssumption DEF Follows, KeptAt
<1>11. Allowed(Top.cycles) = CyclesAt(c, u)
  BY <1>3, <1>6 DEF CyclesAt, Allowed
<1>12. (IF u = <<>> THEN c.name ELSE NoName) = NoName
  BY <1>6
<1> HIDE DEF u, include, exclude
<1>13. RawMissing(Nested, include, exclude, FALSE) <=> MissingAt(c, u)
  BY <1>7, <1>8, <1>9, <1>10 DEF MissingAt
<1>14. Frame(Nested, NoName, include, exclude, FALSE, Allowed(Top.cycles), u) = NewFrame(c, u)
  BY <1>7, <1>8, <1>9, <1>10, <1>11, <1>12 DEF NewFrame
<1>15. NewStack = u
  BY <1>2 DEF u
<1> QED BY <1>2, <1>5, <1>13, <1>14, <1>15 DEF c, w, f, u, include, exclude

\* The answer of a frame that is done: it is in the index under the name of what
\* was asked for, and has that unless the name was given and used before.
LEMMA AnswerStands ==
    ASSUME FetchInv, FramesInv, IndexInv, frames # <<>>, Top.todo = {}, index' = Answer
    PROVE  LET c == Current
               w == Top.stack
           IN  /\ Name(Top) = NameAt(c, w) /\ Complete(c, w)
               /\ DOMAIN index' = DOMAIN index \union {NameAt(c, w)}
               /\ \A n \in DOMAIN index' : Registered(n, index'[n])
               /\ \/ Stands(index'[Name(Top)], c, w)
                  \/ w = <<>> /\ c.name # NoName /\ NameAt(c, w) \in DOMAIN index
<1> DEFINE c == Current
           w == Top.stack
           n == Name(Top)
           t == Schema("repo", Top.cls, Top.paths, Top.rels, Top.fetch)
<1>1. c \in Calls /\ w \in Ways[c] /\ FrameStands(Top, c)
  BY TopStands
<1>2. n = NameAt(c, w) /\ Stands(Top, c, w) /\ Complete(c, w)
  BY <1>1, DoneFrame
<1>3. Stands(t, c, w)
  BY <1>2 DEF Stands, Schema
<1>4. index' = [m \in DOMAIN index \union {n} |-> IF m \in DOMAIN index THEN index[m] ELSE t]
  BY DEF Answer, Register
<1> HIDE DEF c, w, n, t
<1>5. \A m \in DOMAIN index' : Registered(m, index'[m])
  <2> TAKE m \in DOMAIN index'
  <2>1. CASE m \in DOMAIN index
    BY <1>4, <2>1 DEF IndexInv
  <2>2. CASE m \notin DOMAIN index
    BY <1>1, <1>2, <1>3, <1>4, <2>2 DEF Registered
  <2> QED BY <2>1, <2>2
<1>6. n \in DOMAIN index'
  BY <1>4
<1>7. CASE w = <<>> /\ c.name # NoName
  BY <1>2, <1>3, <1>4, <1>5, <1>7 DEF c, w, n
<1>8. CASE ~(w = <<>> /\ c.name # NoName)
  <2>1. PICK d \in Calls : \E v \in Ways[d] : n = NameAt(d, v) /\ Stands(index'[n], d, v)
    BY <1>5, <1>6 DEF Registered
  <2>2. PICK v \in Ways[d] : n = NameAt(d, v) /\ Stands(index'[n], d, v)
    BY <2>1
  <2>3. Stands(index'[n], c, w)
    BY <1>1, <1>2, <1>8, <2>2, NamesTell
  <2> QED BY <1>2, <1>4, <1>5, <2>3 DEF c, w, n
<1> QED BY <1>7, <1>8

-----------------------------------------------------------------------------
(* The steps of the calls and what they answer. *)

LEMMA IndexStays ==
    ASSUME IndexInv, UNCHANGED index, Len(made) \in Nat, Len(made)' \in Nat, Len(made) <= Len(made)',
           \A k \in 1..Len(made) : asked'[k] = asked[k]
    PROVE  IndexInv'
BY DEF IndexInv, Registered

LEMMA SchemaInitAnswers == SchemaInit => AnswerInv
<1> SUFFICES ASSUME SchemaInit PROVE AnswerInv
  OBVIOUS
<1>1. /\ frames = <<>> /\ made = <<>> /\ asked = <<>> /\ DOMAIN index = {}
      /\ Len(<<>>) = 0 /\ DOMAIN <<>> = {} /\ <<>> \in Seq(Calls)
  BY DEF SchemaInit
<1>2. FramesInv /\ IndexInv
  BY <1>1 DEF FramesInv, IndexInv
<1>3. AnsweredUpToLeaves
  BY <1>1 DEF AnsweredUpToLeaves
<1> QED BY <1>2, <1>3, SchemaInitFetch DEF AnswerInv

LEMMA CallAnswers == AnswerInv /\ Call => AnswerInv'
<1> SUFFICES ASSUME AnswerInv, Call PROVE AnswerInv'
  OBVIOUS
<1>1. FetchInv /\ FramesInv /\ IndexInv /\ AnsweredUpToLeaves /\ FetchInv'
  BY CallFetch DEF AnswerInv
<1>2. PICK c \in Calls :
        /\ asked' = Append(asked, c)
        /\ IF RawMissing(c.cls, c.include, c.exclude, c.readonly)
           THEN made' = Append(made, KeyError) /\ UNCHANGED frames
           ELSE /\ frames' = <<Frame(c.cls, c.name, c.include, c.exclude, c.readonly, c.cycles, <<>>)>>
                /\ UNCHANGED made
  BY DEF Call
<1>3. frames = <<>> /\ UNCHANGED index
  BY DEF Call
<1>4. Len(asked) = Len(made) /\ asked \in Seq(Calls) /\ Len(made) \in Nat
  BY <1>1, <1>3, LenProperties DEF FramesInv, FetchInv
<1>5. /\ asked' \in Seq(Calls) /\ Len(asked)' = Len(made) + 1 /\ asked'[Len(made) + 1] = c
      /\ \A k \in 1..Len(made) : asked'[k] = asked[k]
  BY <1>2, <1>4, AppendProperties
<1>6. /\ <<>> \in Ways[c] /\ ClassAt(c, <<>>) = c.cls
      /\ Below(<<>>, c.include) = c.include /\ Below(<<>>, c.exclude) = c.exclude
  BY NoWay, WholeCall DEF ClassAt
<1>7. MissingAt(c, <<>>) <=> RawMissing(c.cls, c.include, c.exclude, c.readonly)
  BY <1>6 DEF MissingAt
<1>8. CASE MissingAt(c, <<>>)
  <2>1. made' = Append(made, KeyError) /\ frames' = <<>>
    BY <1>2, <1>3, <1>7, <1>8
  <2>2. c \in AsksTooMuch
    BY <1>6, <1>8 DEF AsksTooMuch, MissingAt
  <2>3. Answers(KeyError, asked', Len(made) + 1)
    BY <1>5, <2>2 DEF Answers
  <2>4. AnsweredUpToLeaves' /\ Len(made)' = Len(made) + 1
    BY <1>1, <1>4, <1>5, <2>1, <2>3, OneAnswer
  <2>5. FramesInv'
    <3>1. Len(<<>>) = 0
      OBVIOUS
    <3> QED BY <1>4, <1>5, <2>1, <2>4, <3>1 DEF FramesInv
  <2>6. IndexInv'
    BY <1>1, <1>3, <1>4, <1>5, <2>4, IndexStays
  <2> QED BY <1>1, <2>4, <2>5, <2>6 DEF AnswerInv
<1>9. CASE ~MissingAt(c, <<>>)
  <2> DEFINE fr == NewFrame(c, <<>>)
  <2>1. frames' = <<fr>> /\ made' = made
    BY <1>2, <1>6, <1>7, <1>9 DEF NewFrame, CyclesAt
  <2>2. FrameStands(fr, c) /\ fr.stack = <<>>
    BY <1>6, <1>9, NewFrameStands
  <2> HIDE DEF fr
  <2>3. Len(<<fr>>) = 1 /\ <<fr>>[1] = fr /\ <<fr>> # <<>>
    OBVIOUS
  <2>4. Current' = c
    BY <1>5 DEF Current
  <2>5. FramesInv'
    <3>1. 1..(Len(<<fr>>) - 1) = {} /\ \A i \in 1..Len(<<fr>>) : i = 1
      BY <2>3
    <3>2. \A i \in 1..Len(<<fr>>) : FrameStands(<<fr>>[i], c)
      BY <2>2, <2>3, <3>1
    <3>3. <<fr>>[Len(<<fr>>)].stack = <<>>
      BY <2>2, <2>3
    <3>4. Len(asked)' = Len(made)' + 1 /\ frames' # <<>>
      BY <1>5, <2>1, <2>3
    <3> QED BY <1>5, <2>1, <2>4, <3>1, <3>2, <3>3, <3>4 DEF FramesInv
  <2>6. AnsweredUpToLeaves'
    BY <1>1, <1>4, <1>5, <2>1, NoAnswer
  <2>7. IndexInv'
    BY <1>1, <1>3, <1>4, <1>5, <2>1, IndexStays
  <2> QED BY <1>1, <2>5, <2>6, <2>7 DEF AnswerInv
<1> QED BY <1>8, <1>9

LEMMA LeaveOutAnswers == AnswerInv /\ LeaveOut => AnswerInv'
<1> SUFFICES ASSUME AnswerInv, LeaveOut PROVE AnswerInv'
  OBVIOUS
<1>1. FetchInv /\ FramesInv /\ IndexInv /\ AnsweredUpToLeaves /\ FetchInv'
  BY LeaveOutFetch DEF AnswerInv
<1>2. /\ frames # <<>> /\ Top.todo # {} /\ Refuses(Nested, NewStack, Top.cycles)
      /\ frames' = [frames EXCEPT ![1].todo = @ \ {Field}, ![1].exclude = @ \union {<<Field>>}]
      /\ UNCHANGED <<index, asked, made, selection>>
  BY DEF LeaveOut
<1> DEFINE c == Current
           w == Top.stack
           f == Field
           fr == [[Top EXCEPT !.todo = @ \ {f}] EXCEPT !.exclude = @ \union {<<f>>}]
<1>3. /\ c \in Calls /\ FrameStands(Top, c) /\ w \in Ways[c] /\ Len(frames) \in Nat \ {0}
      /\ DOMAIN Top = FrameFields /\ DOMAIN frames = 1..Len(frames)
  BY <1>1, <1>2, TopStands
<1>4. f \in Top.todo /\ f \in KeptAt(c, w) /\ f \in RefusedAt(c, w)
  BY <1>1, <1>2, FieldIsNext
<1>5. /\ fr.todo = Top.todo \ {f} /\ fr.exclude = Top.exclude \union {<<f>>}
      /\ fr.stack = w /\ fr.cls = Top.cls /\ fr.name = Top.name /\ fr.include = Top.include
      /\ fr.cycles = Top.cycles /\ fr.rels = Top.rels /\ fr.paths = Top.paths
  BY <1>3 DEF FrameFields
<1>6. 1 \in DOMAIN frames
  BY <1>3
<1>7. frames' = [frames EXCEPT ![1] = fr]
  BY <1>2, <1>6 DEF Top
<1> HIDE DEF fr, c, w, f
<1>8. FrameStands(fr, c)
  <2>1. Follows(c, w) \ fr.todo = Follows(c, w) \ Top.todo
    BY <1>4, <1>5 DEF Follows
  <2>2. /\ RelsDone(c, w, fr.todo) = RelsDone(c, w, Top.todo)
        /\ PathsDone(c, w, fr.todo) = PathsDone(c, w, Top.todo)
        /\ CompleteDone(c, w, fr.todo) <=> CompleteDone(c, w, Top.todo)
    BY <2>1 DEF RelsDone, PathsDone, CompleteDone
  <2> DEFINE Out(todo) == {<<g>> : g \in (KeptAt(c, w) \intersect RefusedAt(c, w)) \ todo}
  <2>3. Out(fr.todo) = Out(Top.todo) \union {<<f>>}
    BY <1>4, <1>5
  <2>4. fr.exclude = Below(w, c.exclude) \union Out(fr.todo)
    BY <1>3, <1>5, <2>3 DEF FrameStands, w
  <2> HIDE DEF Out
  <2>5. fr.todo \subseteq KeptAt(c, w)
    BY <1>3, <1>5 DEF FrameStands, w
  <2> QED BY <1>3, <1>5, <2>2, <2>4, <2>5 DEF FrameStands, w, Out
<1>9. FramesInv'
  <2>1. Current' = c /\ Len(frames') = Len(frames) /\ frames' # <<>>
    BY <1>2, <1>3, <1>6, <1>7, ExceptSeq DEF Current, c, FetchInv
  <2>2. frames'[1] = fr /\ \A i \in 1..Len(frames) : i # 1 => frames'[i] = frames[i]
    BY <1>3, <1>7
  <2>3. \A i \in 1..Len(frames) : FrameStands(frames'[i], c) /\ frames'[i].stack = frames[i].stack
    BY <1>1, <1>5, <1>8, <2>2 DEF FramesInv, c, w, Top
  <2>4. ASSUME NEW i \in 1..(Len(frames) - 1)
        PROVE  \E g \in frames'[i + 1].todo \intersect Follows(c, frames'[i + 1].stack) :
                  frames'[i].stack = Onto(c, frames'[i + 1].stack, g)
    <3>1. i \in 1..Len(frames) /\ i + 1 \in 1..Len(frames) /\ i + 1 # 1
      BY <1>3
    <3>2. frames'[i + 1] = frames[i + 1] /\ frames'[i].stack = frames[i].stack
      BY <2>2, <2>3, <3>1
    <3> QED BY <1>1, <3>2 DEF FramesInv, c
  <2>5. frames'[Len(frames)].stack = <<>>
    <3>1. Len(frames) \in 1..Len(frames)
      BY <1>3
    <3> QED BY <1>1, <1>2, <2>3, <3>1 DEF FramesInv
  <2>6. asked' \in Seq(Calls) /\ Len(asked') = Len(made') + IF frames' = <<>> THEN 0 ELSE 1
    BY <1>1, <1>2, <2>1 DEF FramesInv
  <2>7. \A i \in 1..Len(frames') : FrameStands(frames'[i], c)
    BY <2>1, <2>3
  <2> QED BY <2>1, <2>4, <2>5, <2>6, <2>7 DEF FramesInv
<1>10. Len(made) \in Nat /\ asked \in Seq(Calls) /\ Len(made) <= Len(asked)
  BY <1>1, <1>2, LenProperties DEF FramesInv, FetchInv
<1>11. AnsweredUpToLeaves' /\ IndexInv'
  BY <1>1, <1>2, <1>10, NoAnswer, IndexStays
<1> QED BY <1>1, <1>9, <1>11 DEF AnswerInv

LEMMA DescendAnswers == AnswerInv /\ Descend => AnswerInv'
<1> SUFFICES ASSUME AnswerInv, Descend PROVE AnswerInv'
  OBVIOUS
<1>1. FetchInv /\ FramesInv /\ IndexInv /\ AnsweredUpToLeaves /\ FetchInv'
  BY DescendFetch DEF AnswerInv
<1> DEFINE include == Under(Field, Top.include)
           exclude == Under(Field, Top.exclude)
           c == Current
           w == Top.stack
           u == NewStack
           fr == NewFrame(c, u)
<1>2. /\ frames # <<>> /\ Top.todo # {} /\ ~Refuses(Nested, NewStack, Top.cycles)
      /\ IF RawMissing(Nested, include, exclude, FALSE)
         THEN made' = Append(made, KeyError) /\ frames' = <<>>
         ELSE /\ frames' = <<Frame(Nested, NoName, include, exclude, FALSE, Allowed(Top.cycles), NewStack)>> \o frames
              /\ UNCHANGED made
      /\ UNCHANGED <<index, asked, selection>>
  BY DEF Descend
<1>3. /\ Field \in Follows(c, w) /\ u \in Ways[c]
      /\ RawMissing(Nested, include, exclude, FALSE) <=> MissingAt(c, u)
      /\ Frame(Nested, NoName, include, exclude, FALSE, Allowed(Top.cycles), NewStack) = fr
  BY <1>1, <1>2, NestedFrame
<1>4. Field \in Top.todo /\ u = Onto(c, w, Field)
  BY <1>1, <1>2, FieldIsNext
<1>5. /\ c \in Calls /\ Len(frames) \in Nat \ {0} /\ Len(asked) = Len(made) + 1 /\ Len(made) \in Nat
      /\ c = asked[Len(made) + 1] /\ asked \in Seq(Calls)
  BY <1>1, <1>2, TopStands DEF FramesInv, Current
<1>6. CASE MissingAt(c, u)
  <2>1. made' = Append(made, KeyError) /\ frames' = <<>> /\ asked' = asked
    BY <1>2, <1>3, <1>6
  <2>2. c \in AsksTooMuch
    BY <1>3, <1>5, <1>6 DEF AsksTooMuch, MissingAt
  <2>3. Answers(KeyError, asked', Len(made) + 1)
    BY <1>5, <2>1, <2>2 DEF Answers
  <2>4. AnsweredUpToLeaves' /\ Len(made)' = Len(made) + 1
    BY <1>1, <1>5, <2>1, <2>3, OneAnswer
  <2>5. FramesInv'
    <3>1. Len(<<>>) = 0
      OBVIOUS
    <3> QED BY <1>5, <2>1, <2>4, <3>1 DEF FramesInv
  <2>6. IndexInv'
    BY <1>1, <1>2, <1>5, <2>1, <2>4, IndexStays
  <2> QED BY <1>1, <2>4, <2>5, <2>6 DEF AnswerInv
<1>7. CASE ~MissingAt(c, u)
  <2>1. frames' = <<fr>> \o frames /\ made' = made /\ asked' = asked
    BY <1>2, <1>3, <1>7
  <2>2. FrameStands(fr, c) /\ fr.stack = u
    BY <1>3, <1>5, <1>7, NewFrameStands
  <2>3. Top = frames[1]
    BY DEF Top
  <2> HIDE DEF fr, u, w
  <2>4. /\ Len(frames') = Len(frames) + 1 /\ frames'[1] = fr /\ frames' # <<>>
        /\ \A i \in 1..Len(frames) : frames'[i + 1] = frames[i]
    <3> DEFINE S == Range(frames) \union {fr}
               one == <<fr>>
    <3>1. frames \in Seq(S) /\ one \in Seq(S) /\ Len(one) = 1 /\ one[1] = fr
      <4>1. frames \in Seq(S)
        BY <1>1, SeqMonotonic DEF FetchInv
      <4> QED BY <4>1
    <3> HIDE DEF S, one
    <3>2. /\ Len(one \o frames) = Len(one) + Len(frames)
          /\ \A i \in 1..(Len(one) + Len(frames)) :
                (one \o frames)[i] = IF i <= Len(one) THEN one[i] ELSE frames[i - Len(one)]
      BY <3>1, ConcatProperties
    <3>3. frames' = one \o frames
      BY <2>1 DEF one
    <3>4. Len(frames') = 1 + Len(frames) /\ frames'[1] = fr
      BY <1>5, <3>1, <3>2, <3>3
    <3>5. ASSUME NEW i \in 1..Len(frames) PROVE frames'[i + 1] = frames[i]
      <4>1. i + 1 \in 1..(1 + Len(frames)) /\ ~(i + 1 <= 1) /\ i + 1 - 1 = i
        BY <1>5
      <4> QED BY <3>1, <3>2, <3>3, <4>1
    <3>6. frames' # <<>>
      BY <1>5, <3>4
    <3> QED BY <1>5, <3>4, <3>5, <3>6
  <2>5. Current' = c
    BY <2>1 DEF Current, c
  <2>6. \A i \in 1..Len(frames') : FrameStands(frames'[i], c)
    <3> TAKE i \in 1..Len(frames')
    <3>1. CASE i = 1
      BY <2>2, <2>4, <3>1
    <3>2. CASE i # 1
      <4>1. i - 1 \in 1..Len(frames) /\ i - 1 + 1 = i
        BY <1>5, <2>4, <3>2
      <4>2. FrameStands(frames[i - 1], c)
        BY <1>1, <4>1 DEF FramesInv, c
      <4> QED BY <2>4, <4>1, <4>2
    <3> QED BY <3>1, <3>2
  <2>7. ASSUME NEW i \in 1..(Len(frames') - 1)
        PROVE  \E g \in frames'[i + 1].todo \intersect Follows(c, frames'[i + 1].stack) :
                  frames'[i].stack = Onto(c, frames'[i + 1].stack, g)
    <3>1. CASE i = 1
      <4>1. frames'[i + 1] = Top /\ frames'[i].stack = u
        BY <1>5, <2>2, <2>3, <2>4, <3>1
      <4> QED BY <1>3, <1>4, <4>1 DEF w
    <3>2. CASE i # 1
      <4>1. i - 1 \in 1..(Len(frames) - 1) /\ i - 1 \in 1..Len(frames) /\ i \in 1..Len(frames) /\ i - 1 + 1 = i
        BY <1>5, <2>4, <3>2
      <4>2. frames'[i] = frames[i - 1] /\ frames'[i + 1] = frames[i - 1 + 1]
        BY <2>4, <4>1
      <4> QED BY <1>1, <4>1, <4>2 DEF FramesInv, c
    <3> QED BY <3>1, <3>2
  <2>8. frames'[Len(frames')].stack = <<>>
    <3>1. Len(frames) \in 1..Len(frames)
      BY <1>5
    <3>2. frames'[Len(frames')] = frames[Len(frames)]
      BY <2>4, <3>1
    <3> QED BY <1>1, <1>2, <3>2 DEF FramesInv
  <2>9. asked' \in Seq(Calls) /\ Len(asked') = Len(made') + IF frames' = <<>> THEN 0 ELSE 1
    BY <1>5, <2>1, <2>4
  <2>10. FramesInv'
    BY <2>5, <2>6, <2>7, <2>8, <2>9 DEF FramesInv
  <2>11. AnsweredUpToLeaves' /\ IndexInv'
    BY <1>1, <1>2, <1>5, <2>1, NoAnswer, IndexStays
  <2> QED BY <1>1, <2>10, <2>11 DEF AnswerInv
<1> QED BY <1>6, <1>7

\* A nested schema that has what was asked for completes the one around it by a
\* relation.
LEMMA OneRelationMore ==
    ASSUME NEW c \in Calls, NEW fr, FrameStands(fr, c), NEW f \in fr.todo,
           f \in Follows(c, fr.stack), NEW s, Stands(s, c, Onto(c, fr.stack, f)),
           Complete(c, Onto(c, fr.stack, f)), NEW more,
           more.todo = fr.todo \ {f}, more.paths = fr.paths \union {<<f>>} \union Nest(f, s.paths),
           more.rels = fr.rels \union {<<f>>} \union Nest(f, s.rels),
           more.stack = fr.stack, more.cls = fr.cls, more.name = fr.name,
           more.include = fr.include, more.exclude = fr.exclude, more.cycles = fr.cycles
    PROVE  FrameStands(more, c)
<1> DEFINE w == fr.stack
           u == Onto(c, w, f)
<1>1. /\ w \in Ways[c] /\ fr.todo \subseteq KeptAt(c, w) /\ fr.rels = RelsDone(c, w, fr.todo)
      /\ SymDiff(fr.paths, PathsDone(c, w, fr.todo)) \subseteq ChanceFrom(c, w)
      /\ CompleteDone(c, w, fr.todo)
  BY DEF FrameStands
<1>2. s.rels = RelsFrom(c, u) /\ SymDiff(s.paths, PathsFrom(c, u)) \subseteq ChanceFrom(c, u)
  BY DEF Stands
<1>3. Nest(f, ChanceFrom(c, u)) \subseteq ChanceFrom(c, w)
  BY <1>1, ChanceUnfolds
<1>4. Follows(c, w) \ more.todo = (Follows(c, w) \ fr.todo) \union {f}
  OBVIOUS
<1>5. RelsDone(c, w, more.todo) = RelsDone(c, w, fr.todo) \union {<<f>>} \union Nest(f, RelsFrom(c, u))
  BY <1>4 DEF RelsDone
<1>6. PathsDone(c, w, more.todo) = PathsDone(c, w, fr.todo) \union {<<f>>} \union Nest(f, PathsFrom(c, u))
  BY <1>4 DEF PathsDone
<1>7. CompleteDone(c, w, more.todo)
  BY <1>1, <1>4 DEF CompleteDone
<1>8. SymDiff(more.paths, PathsDone(c, w, more.todo)) \subseteq ChanceFrom(c, w)
  <2>1. ASSUME NEW q \in s.paths, q \notin PathsFrom(c, u) PROVE <<f>> \o q \in ChanceFrom(c, w)
    BY <1>2, <1>3, <2>1 DEF SymDiff, Nest
  <2>2. ASSUME NEW q \in PathsFrom(c, u), q \notin s.paths PROVE <<f>> \o q \in ChanceFrom(c, w)
    BY <1>2, <1>3, <2>2 DEF SymDiff, Nest
  <2>3. ASSUME NEW p \in more.paths, p \notin PathsDone(c, w, more.todo) PROVE p \in ChanceFrom(c, w)
    <3>1. p \notin PathsDone(c, w, fr.todo) /\ p # <<f>> /\ p \notin Nest(f, PathsFrom(c, u))
      BY <1>6, <2>3
    <3>2. CASE p \in fr.paths
      BY <1>1, <3>1, <3>2 DEF SymDiff
    <3>3. CASE p \in Nest(f, s.paths)
      <4>1. PICK q \in s.paths : p = <<f>> \o q
        BY <3>3 DEF Nest
      <4>2. q \notin PathsFrom(c, u)
        BY <3>1, <4>1 DEF Nest
      <4> QED BY <2>1, <4>1, <4>2
    <3> QED BY <2>3, <3>1, <3>2, <3>3
  <2>4. ASSUME NEW p \in PathsDone(c, w, more.todo), p \notin more.paths PROVE p \in ChanceFrom(c, w)
    <3>1. p \notin fr.paths /\ p # <<f>> /\ p \notin Nest(f, s.paths)
      BY <2>4
    <3>2. CASE p \in PathsDone(c, w, fr.todo)
      BY <1>1, <3>1, <3>2 DEF SymDiff
    <3>3. CASE p \in Nest(f, PathsFrom(c, u))
      <4>1. PICK q \in PathsFrom(c, u) : p = <<f>> \o q
        BY <3>3 DEF Nest
      <4>2. q \notin s.paths
        BY <3>1, <4>1 DEF Nest
      <4> QED BY <2>2, <4>1, <4>2
    <3> QED BY <1>6, <2>4, <3>1, <3>2, <3>3
  <2> QED BY <2>3, <2>4 DEF SymDiff
<1>9. (KeptAt(c, w) \intersect RefusedAt(c, w)) \ more.todo = (KeptAt(c, w) \intersect RefusedAt(c, w)) \ fr.todo
  BY DEF Follows
<1> HIDE DEF u
<1> QED BY <1>1, <1>2, <1>5, <1>7, <1>8, <1>9 DEF FrameStands

\* Only the schema a call asks for can have a name that was given.
LEMMA GivenNames ==
    /\ \A a, b : <<"given", a>> = <<"given", b>> => a = b
    /\ \A a : <<"given", a>>[1] = "given"
    /\ \A c, w : NameAt(c, w)[1] = "given" => w = <<>> /\ c.name # NoName /\ NameAt(c, w) = <<"given", c.name>>
<1>1. ASSUME NEW a, NEW b, <<"given", a>> = <<"given", b>> PROVE a = b
  <2>1. a = <<"given", a>>[2] /\ b = <<"given", b>>[2]
    OBVIOUS
  <2> QED BY <1>1, <2>1, Zenon
<1>2. \A a : <<"given", a>>[1] = "given"
  OBVIOUS
<1>3. ASSUME NEW c, NEW w, NameAt(c, w)[1] = "given"
      PROVE  w = <<>> /\ c.name # NoName /\ NameAt(c, w) = <<"given", c.name>>
  <2>1. \A a, b, d, e, g : /\ <<"leaf", a>>[1] = "leaf" /\ <<"default", a>>[1] = "default"
                           /\ <<"hash", a, b, d, e, g>>[1] = "hash"
    OBVIOUS
  <2>2. "leaf" # "given" /\ "default" # "given" /\ "hash" # "given"
    OBVIOUS
  <2>3. CASE w = <<>> /\ c.name # NoName
    BY <2>3, Zenon DEF NameAt
  <2>4. CASE ~(w = <<>> /\ c.name # NoName)
    <3>1. \/ NameAt(c, w) = <<"leaf", ClassAt(c, w)>>
          \/ NameAt(c, w) = <<"default", ClassAt(c, w)>>
          \/ NameAt(c, w) = <<"hash", ClassAt(c, w), ExcludedBy(c, w), Below(w, c.include), w, CyclesAt(c, w)>>
      BY <2>4, Zenon DEF NameAt
    <3> QED BY <1>3, <2>1, <2>2, <3>1, Zenon
  <2> QED BY <2>3, <2>4
<1> QED BY <1>1, <1>2, <1>3, Zenon

LEMMA NestsAnswers == AnswerInv /\ Nests => AnswerInv'
<1> SUFFICES ASSUME AnswerInv, Nests PROVE AnswerInv'
  OBVIOUS
<1>1. FetchInv /\ FramesInv /\ IndexInv /\ AnsweredUpToLeaves /\ FetchInv'
  BY NestsFetch DEF AnswerInv
<1>2. /\ UNCHANGED <<asked, made, selection>> /\ index' = Answer
      /\ Len(frames) > 1 /\ Top.todo = {}
  BY DEF Nests
<1>3. Len(frames) \in Nat /\ DOMAIN frames = 1..Len(frames) /\ frames # <<>>
  BY <1>1, <1>2, LenProperties DEF FetchInv
<1> DEFINE c == Current
           s == index'[Name(Top)]
           f == Last(Top.stack)[2]
           rest == Tail(frames)
           old == frames[2]
           v == old.stack
           fr == [old EXCEPT !.todo = @ \ {f},
                             !.paths = @ \union {<<f>>} \union Nest(f, s.paths),
                             !.rels = @ \union {<<f>>} \union Nest(f, s.rels),
                             !.fetch = @ \union Fetch(f, s)]
<1>4. /\ rest \in Seq(Range(frames)) /\ Len(rest) = Len(frames) - 1
      /\ \A i \in 1..(Len(frames) - 1) : rest[i] = frames[i + 1]
      /\ DOMAIN rest = 1..(Len(frames) - 1)
  BY <1>1, <1>3, HeadTailProperties, LenProperties DEF FetchInv
<1>5. 1 \in DOMAIN rest /\ rest[1] = old
  BY <1>2, <1>3, <1>4
<1>6. frames' = [rest EXCEPT ![1] = fr]
  <2>1. frames' = [rest EXCEPT ![1].todo = @ \ {f},
                               ![1].paths = @ \union {<<f>>} \union Nest(f, s.paths),
                               ![1].rels = @ \union {<<f>>} \union Nest(f, s.rels),
                               ![1].fetch = @ \union Fetch(f, s)]
    BY DEF Nests
  <2> HIDE DEF rest, f, s
  <2> QED BY <1>5, <2>1
<1> HIDE DEF rest
<1>7. /\ c \in Calls /\ Len(made) \in Nat /\ Len(asked) = Len(made) + 1 /\ asked \in Seq(Calls)
      /\ FrameStands(Top, c)
  BY <1>1, <1>3, TopStands DEF FramesInv
<1>8. FrameStands(old, c) /\ DOMAIN old = FrameFields
  <2>1. 2 \in 1..Len(frames) /\ 2 \in DOMAIN frames
    BY <1>2, <1>3
  <2>2. FrameStands(frames[2], c)
    BY <1>1, <2>1 DEF FramesInv
  <2>3. FrameCovered(frames[2])
    BY <1>1, <2>1 DEF FetchInv, Range
  <2> QED BY <2>2, <2>3 DEF FrameCovered
<1>9. v \in Ways[c] /\ f \in old.todo /\ f \in Follows(c, v) /\ Top.stack = Onto(c, v, f)
  <2>1. v \in Ways[c]
    BY <1>8 DEF FrameStands
  <2>2. 1 \in 1..(Len(frames) - 1) /\ 1 + 1 = 2
    BY <1>2, <1>3
  <2>3. PICK g \in frames[1 + 1].todo \intersect Follows(c, frames[1 + 1].stack) :
              frames[1].stack = Onto(c, frames[1 + 1].stack, g)
    BY <1>1, <2>2 DEF FramesInv
  <2>4. g \in old.todo /\ g \in Follows(c, v) /\ Top.stack = Onto(c, v, g)
    BY <2>2, <2>3 DEF Top
  <2>5. v \in Seq(Steps) /\ StepOf(c, v, g) \in Steps
    BY <1>7, <2>1, <2>4, StepOn, WaysAre
  <2>6. Last(Top.stack) = StepOf(c, v, g)
    BY <2>4, <2>5, AppendProperties DEF Last, Onto
  <2>7. f = g
    BY <2>6 DEF StepOf
  <2> QED BY <2>1, <2>4, <2>7
<1>10. Top.stack # <<>>
  BY <1>7, <1>9, StepOn, WaysAre, AppendProperties DEF Onto
<1>11. /\ Name(Top) = NameAt(c, Top.stack) /\ Complete(c, Top.stack)
       /\ DOMAIN index' = DOMAIN index \union {NameAt(c, Top.stack)}
       /\ \A n \in DOMAIN index' : Registered(n, index'[n])
       /\ Stands(s, c, Top.stack)
  BY <1>1, <1>2, <1>3, <1>10, AnswerStands
<1>12. /\ fr.todo = old.todo \ {f} /\ fr.paths = old.paths \union {<<f>>} \union Nest(f, s.paths)
       /\ fr.rels = old.rels \union {<<f>>} \union Nest(f, s.rels)
       /\ fr.stack = v /\ fr.cls = old.cls /\ fr.name = old.name
       /\ fr.include = old.include /\ fr.exclude = old.exclude /\ fr.cycles = old.cycles
  BY <1>8 DEF FrameFields
<1> HIDE DEF fr, s, f, c
<1>13. FrameStands(fr, c)
  BY <1>7, <1>8, <1>9, <1>11, <1>12, OneRelationMore
<1>14. FramesInv'
  <2>1. Current' = c
    BY <1>2 DEF Current, c
  <2>2. /\ Len(frames') = Len(frames) - 1 /\ frames' # <<>> /\ frames'[1] = fr
        /\ \A i \in 1..(Len(frames) - 1) : i # 1 => frames'[i] = frames[i + 1]
    <3>1. frames' \in Seq(Range(frames) \union {fr}) /\ Len(frames') = Len(rest)
      <4>1. rest \in Seq(Range(frames) \union {fr}) /\ 1 \in 1..Len(rest)
        BY <1>4, <1>5, SeqMonotonic
      <4> QED BY <1>6, <4>1, ExceptSeq
    <3>2. Len(frames') # 0
      BY <1>2, <1>3, <1>4, <3>1
    <3>3. \A i \in 1..(Len(frames) - 1) : i # 1 => frames'[i] = frames[i + 1]
      BY <1>4, <1>6
    <3>4. frames'[1] = fr
      BY <1>5, <1>6
    <3>5. frames' # <<>>
      BY <3>2
    <3> QED BY <1>4, <3>1, <3>3, <3>4, <3>5
  <2>3. \A i \in 1..Len(frames') : frames'[i].stack = frames[i + 1].stack /\ FrameStands(frames'[i], c)
    <3> TAKE i \in 1..Len(frames')
    <3>1. i \in 1..(Len(frames) - 1) /\ i + 1 \in 1..Len(frames)
      BY <1>3, <2>2
    <3>2. CASE i = 1
      BY <1>12, <1>13, <2>2, <3>2
    <3>3. CASE i # 1
      BY <1>1, <2>2, <3>1, <3>3 DEF FramesInv, c
    <3> QED BY <3>2, <3>3
  <2>4. ASSUME NEW i \in 1..(Len(frames') - 1)
        PROVE  \E g \in frames'[i + 1].todo \intersect Follows(c, frames'[i + 1].stack) :
                  frames'[i].stack = Onto(c, frames'[i + 1].stack, g)
    <3>1. /\ i \in 1..Len(frames') /\ i + 1 \in 1..(Len(frames) - 1) /\ i + 1 # 1
      BY <1>3, <2>2
    <3>2. frames'[i + 1] = frames[i + 1 + 1] /\ frames'[i].stack = frames[i + 1].stack
      BY <2>2, <2>3, <3>1
    <3> QED BY <1>1, <3>1, <3>2 DEF FramesInv, c
  <2>5. frames'[Len(frames')].stack = <<>>
    <3>1. Len(frames') \in 1..Len(frames') /\ Len(frames') + 1 = Len(frames)
      BY <1>2, <1>3, <2>2
    <3> QED BY <1>1, <1>3, <2>3, <3>1 DEF FramesInv
  <2>6. asked' \in Seq(Calls) /\ Len(asked') = Len(made') + IF frames' = <<>> THEN 0 ELSE 1
    BY <1>2, <1>7, <2>2
  <2> QED BY <2>1, <2>2, <2>3, <2>4, <2>5, <2>6 DEF FramesInv
<1>15. IndexInv'
  <2>1. ASSUME NEW n \in DOMAIN index', n[1] = "given"
        PROVE  \E j \in 1..Len(made') : asked'[j].name # NoName /\ n = <<"given", asked'[j].name>>
    <3>1. n # NameAt(c, Top.stack)
      BY <1>10, <2>1, GivenNames
    <3>2. n \in DOMAIN index
      BY <1>11, <3>1
    <3> QED BY <1>1, <1>2, <2>1, <3>2 DEF IndexInv
  <2> QED BY <1>11, <2>1 DEF IndexInv, Registered
<1>16. AnsweredUpToLeaves'
  BY <1>1, <1>2, <1>7, NoAnswer
<1> QED BY <1>1, <1>14, <1>15, <1>16 DEF AnswerInv

LEMMA ReturnAnswers == AnswerInv /\ Return => AnswerInv'
<1> SUFFICES ASSUME AnswerInv, Return PROVE AnswerInv'
  OBVIOUS
<1>1. FetchInv /\ FramesInv /\ IndexInv /\ AnsweredUpToLeaves /\ FetchInv'
  BY ReturnFetch DEF AnswerInv
<1> DEFINE c == Current
           s == index'[Name(Top)]
<1>2. /\ UNCHANGED <<asked, selection>> /\ index' = Answer /\ frames' = <<>>
      /\ made' = Append(made, s) /\ Len(frames) = 1 /\ Top.todo = {} /\ frames # <<>>
  BY DEF Return
<1>3. /\ c \in Calls /\ Len(made) \in Nat /\ Len(asked) = Len(made) + 1 /\ asked \in Seq(Calls)
      /\ c = asked[Len(made) + 1] /\ Top.stack = <<>>
  BY <1>1, <1>2, TopStands DEF FramesInv, Current, Top
<1>4. /\ Name(Top) = NameAt(c, <<>>) /\ Complete(c, <<>>)
      /\ DOMAIN index' = DOMAIN index \union {NameAt(c, <<>>)}
      /\ \A n \in DOMAIN index' : Registered(n, index'[n])
      /\ \/ Stands(s, c, <<>>)
         \/ c.name # NoName /\ NameAt(c, <<>>) \in DOMAIN index
  BY <1>1, <1>2, <1>3, AnswerStands
<1>5. s # KeyError
  <2>1. SchemaCovered(s)
    BY <1>1, <1>2, AnswerCovered
  <2>2. s.family = "repo"
    BY <2>1 DEF SchemaCovered
  <2>3. KeyError.family = "KeyError"
    BY DEF KeyError, Schema
  <2> HIDE DEF s
  <2> QED BY <2>2, <2>3
<1>6. c \notin AsksTooMuch
  BY <1>3, <1>4, WholeCall
<1> HIDE DEF s, c
<1>7. c.name # NoName => NameAt(c, <<>>) = <<"given", c.name>>
  BY DEF NameAt
<1>8. Answers(s, asked', Len(made) + 1)
  <2>1. ASSUME c.name # NoName, NameAt(c, <<>>) \in DOMAIN index
        PROVE  \E j \in 1..Len(made) : asked[j].name = c.name
    <3>1. <<"given", c.name>> \in DOMAIN index /\ <<"given", c.name>>[1] = "given"
      BY <1>7, <2>1
    <3>2. PICK j \in 1..Len(made) : <<"given", c.name>> = <<"given", asked[j].name>>
      BY <1>1, <3>1 DEF IndexInv
    <3>3. c.name = asked[j].name
      BY <3>2, GivenNames, Zenon
    <3> QED BY <3>2, <3>3
  <2>2. Len(made) + 1 - 1 = Len(made) /\ asked'[Len(made) + 1] = c
    BY <1>2, <1>3
  <2> QED BY <1>2, <1>4, <1>5, <1>6, <2>1, <2>2 DEF Answers
<1>9. AnsweredUpToLeaves' /\ Len(made)' = Len(made) + 1
  BY <1>1, <1>2, <1>3, <1>8, OneAnswer
<1>10. FramesInv'
  <2>1. Len(<<>>) = 0
    OBVIOUS
  <2> QED BY <1>2, <1>3, <1>9, <2>1 DEF FramesInv
<1>11. IndexInv'
  <2>1. ASSUME NEW n \in DOMAIN index', n[1] = "given"
        PROVE  \E j \in 1..Len(made') : asked'[j].name # NoName /\ n = <<"given", asked'[j].name>>
    <3>1. CASE n \in DOMAIN index
      <4>1. PICK j \in 1..Len(made) : asked[j].name # NoName /\ n = <<"given", asked[j].name>>
        BY <1>1, <2>1, <3>1 DEF IndexInv
      <4>2. j \in 1..Len(made')
        BY <1>3, <1>9
      <4> QED BY <1>2, <4>1, <4>2
    <3>2. CASE n = NameAt(c, <<>>)
      <4>1. c.name # NoName /\ n = <<"given", c.name>>
        BY <2>1, <3>2, GivenNames
      <4>2. Len(made) + 1 \in 1..Len(made') /\ asked'[Len(made) + 1] = c
        BY <1>2, <1>3, <1>9
      <4> QED BY <4>1, <4>2
    <3> QED BY <1>4, <3>1, <3>2
  <2> QED BY <1>4, <2>1 DEF IndexInv, Registered
<1> QED BY <1>1, <1>9, <1>10, <1>11 DEF AnswerInv

\* A selection of fields is made of schemas, and changes none.
LEMMA SelectAnswers == AnswerInv /\ UNCHANGED <<frames, index, asked, made>> /\ FetchInv' => AnswerInv'
<1> SUFFICES ASSUME AnswerInv, UNCHANGED <<frames, index, asked, made>>, FetchInv' PROVE AnswerInv'
  OBVIOUS
<1>1. FramesInv'
  BY DEF AnswerInv, FramesInv, Current
<1>2. IndexInv'
  BY DEF AnswerInv, IndexInv, Registered
<1>3. AnsweredUpToLeaves'
  BY DEF AnswerInv, AnsweredUpToLeaves
<1> QED BY <1>1, <1>2, <1>3 DEF AnswerInv

LEMMA SchemaStepAnswers == AnswerInv /\ [SchemaNext]_schemaVars => AnswerInv'
<1> SUFFICES ASSUME AnswerInv, [SchemaNext]_schemaVars PROVE AnswerInv'
  OBVIOUS
<1>1. CASE Select
  BY <1>1, SelectFetch, SelectAnswers DEF AnswerInv, Select
<1>2. CASE UNCHANGED schemaVars
  BY <1>2, SchemaStepFetch, SelectAnswers DEF AnswerInv, schemaVars
<1> QED BY <1>1, <1>2, CallAnswers, LeaveOutAnswers, DescendAnswers, NestsAnswers, ReturnAnswers DEF SchemaNext

\* Every call answers the fields it asks for at every depth, whatever calls were made
\* before it, but for a name given twice, the columns of a part without relations and
\* the raw columns of relations left out; and it fails exactly where it keeps a
\* relation and not its raw column (pydantic_model_creator, get_name, _MODEL_INDEX).
THEOREM CallsAreAnswered == SchemaSpec => []AnsweredUpToLeaves
<1>1. AnswerInv => AnsweredUpToLeaves
  BY DEF AnswerInv
<1> QED BY SchemaInitAnswers, SchemaStepAnswers, <1>1, PTL DEF SchemaSpec

=============================================================================

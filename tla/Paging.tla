-------------------------------- MODULE Paging --------------------------------
(***************************************************************************)
(* Walking through the pages of a list: paginate (services/dependencies.py),*)
(* get_all (services/crud.py) and generate_page_info                       *)
(* (common/responses.py), while others insert and update rows.             *)
(*                                                                         *)
(* A page is two statements, the rows and then their number, and nothing   *)
(* ties one page to the next.  The list endpoints do not filter on         *)
(* deleted_at, so a soft delete takes no row out of a list.                *)
(***************************************************************************)
EXTENDS Integers, Sequences, FiniteSets, SequencesExt

CONSTANTS
    Ids,       \* the ids rows can have, numbers in the order of the ids
    Times,     \* values of created_at
    MaxSize,   \* bound on the size a client asks for
    MaxLimit,  \* max_limit of the endpoint
    MaxWrites  \* bound on the writes during one walk

ASSUME IdsAssumption == Ids \subseteq Nat /\ IsFiniteSet(Ids) /\ Times \subseteq Nat
ASSUME SizeAssumption == MaxSize \in Nat \ {0} /\ MaxLimit \in Nat \ {0} /\ MaxWrites \in Nat

VARIABLES
    row,      \* row[i]: no row, one the filters and the search select, or another
    created,  \* created_at of the rows
    writes,   \* how many writes there were
    order,    \* order_by: empty, created_at or -created_at
    size,     \* size the client asks for
    page,     \* page the client asks for
    data,     \* the rows of the page
    total,    \* their number, counted afterwards
    pc,       \* the next statement
    seen,     \* rows of all pages so far, in order (history)
    always,   \* rows selected since the walk began (history)
    added,    \* a row came into the list during the walk (history)
    left,     \* a row left it (history)
    drift     \* rows that came in minus rows that left between the two statements (history)

vars == <<row, created, writes, order, size, page, data, total, pc, seen, always, added, left, drift>>

Selected == {i \in Ids : row[i] = "in"}

\* paginate: no page is larger than max_limit.
Limit == IF size < MaxLimit THEN size ELSE MaxLimit
\* Mutant: the offset is that of the size asked for.
OffsetAsked == (page - 1) * size
Offset == (page - 1) * Limit

\* Meta.ordering is by descending id; rows with the same created_at come in any
\* order, and not always in the same.
\* Mutant: order_by() without fields takes away the ordering of the model.
PrecedesUnordered(i, j) ==
    CASE order = "default"     -> TRUE
      [] order = "created_at"  -> created[i] <= created[j]
      [] order = "-created_at" -> created[i] >= created[j]
Precedes(i, j) ==
    CASE order = "default"     -> i > j
      [] order = "created_at"  -> created[i] <= created[j]
      [] order = "-created_at" -> created[i] >= created[j]
Orderings == {s \in SetToSeqs(Selected) : \A i, j \in DOMAIN s : i < j => Precedes(s[i], s[j])}
PageOf(s) == SubSeq(s, Offset + 1, IF Offset + Limit < Len(s) THEN Offset + Limit ELSE Len(s))

\* generate_page_info.
\* Mutant: the division is rounded down.
TotalPageFloor == total \div Limit
TotalPage == (total + Limit - 1) \div Limit
PageNumber == Offset \div Limit + 1

-----------------------------------------------------------------------------
Init ==
    /\ row \in [Ids -> {"absent", "in", "out"}]
    /\ created \in [Ids -> Times]
    /\ writes = 0
    /\ order \in {"default", "created_at", "-created_at"}
    /\ size \in 1..MaxSize
    /\ page = 1
    /\ data = <<>>
    /\ total = 0
    /\ pc = "rows"
    /\ seen = <<>>
    /\ always = Selected
    /\ added = FALSE
    /\ left = FALSE
    /\ drift = 0

\* from_queryset(queryset.offset(...).limit(...)).
Rows ==
    /\ pc = "rows"
    /\ \E s \in Orderings : data' = PageOf(s) /\ seen' = seen \o PageOf(s)
    /\ drift' = 0
    /\ pc' = "count"
    /\ UNCHANGED <<row, created, writes, order, size, page, total, always, added, left>>

\* queryset.count(), on the queryset without offset and limit.
Count ==
    /\ pc = "count"
    /\ total' = Cardinality(Selected)
    /\ pc' = "page"
    /\ UNCHANGED <<row, created, writes, order, size, page, data, seen, always, added, left, drift>>

\* The client asks for the next page, up to the last one it was told.
NextPage ==
    /\ pc = "page"
    /\ IF page < TotalPage THEN page' = page + 1 /\ pc' = "rows"
                           ELSE page' = page /\ pc' = "done"
    /\ UNCHANGED <<row, created, writes, order, size, data, total, seen, always, added, left, drift>>

\* Somebody inserts a row, or changes what the search looks at.
Write ==
    /\ writes < MaxWrites /\ pc # "done"
    /\ \E i \in Ids, v \in {"in", "out"} :
         /\ row[i] # v
         /\ row' = [row EXCEPT ![i] = v]
         /\ always' = always \ {i}
         /\ added' = (added \/ v = "in")
         /\ left' = (left \/ row[i] = "in")
         /\ drift' = IF pc # "count" THEN drift
                     ELSE IF v = "in" THEN drift + 1
                     ELSE IF row[i] = "in" THEN drift - 1 ELSE drift
    /\ writes' = writes + 1
    /\ UNCHANGED <<created, order, size, page, data, total, pc, seen>>

Next == Rows \/ Count \/ NextPage \/ Write

Spec == Init /\ [][Next]_vars

-----------------------------------------------------------------------------
(* Properties. *)

\* Two rows of the list have the same created_at and it is sorted by it.
Tied == order # "default" /\ \E i, j \in Ids : i # j /\ created[i] = created[j]

\* How many of n rows are on the page.
OnPage(n) == IF n <= Offset THEN 0 ELSE IF n <= Offset + Limit THEN n - Offset ELSE Limit

\* Every row that was in the list all the time is on some page, as long as no
\* row left the list and the ordering is total: rows that come in push others to
\* later pages, never to earlier ones.
NothingSkipped ==
    pc = "done" /\ ~left /\ ~Tied => always \subseteq Range(seen)

\* A row is on two pages only if another came into the list meanwhile.
RepeatsOnlyByShift ==
    ~added /\ ~Tied => \A i, j \in DOMAIN seen : seen[i] = seen[j] => i = j

\* The page number is the one asked for, and the rows and their number differ by
\* what was written between the two statements and by nothing else.  A count
\* that others only made smaller never promises a page that has not its rows:
\* pages up to the last hold some, those before it are full.  A count that others
\* only made larger never denies the page a client holds.
PageInfoAgrees ==
    pc = "page" =>
        /\ PageNumber = page
        /\ Len(data) = OnPage(total - drift)
        /\ drift <= 0 =>
              /\ page <= TotalPage => data # <<>>
              /\ page < TotalPage => Len(data) = Limit
        /\ drift >= 0 /\ data # <<>> => page <= TotalPage

=============================================================================

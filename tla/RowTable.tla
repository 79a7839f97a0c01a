------------------------------ MODULE RowTable ------------------------------
(***************************************************************************)
(* What the CRUD functions promise of the rows of one relational model,    *)
(* whatever calls overlap.  A key is free, then names a live row, then a   *)
(* deleted one, and then nothing for ever; it may skip stages and goes     *)
(* back to none.  Live rows have different names.                          *)
(***************************************************************************)
CONSTANTS Ids, Names, None

VARIABLE key  \* key[i], what the key i stands for

Free == [stage |-> "free", name |-> None]
LiveRow(n) == [stage |-> "live", name |-> n]
DeletedRow(n) == [stage |-> "deleted", name |-> n]
Gone == [stage |-> "gone", name |-> None]

Init == key = [i \in Ids |-> Free]

\* A batch is deleted at once.
Delete(b) ==
    /\ \A i \in b : key[i].stage = "live"
    /\ key' = [i \in Ids |-> IF i \in b THEN DeletedRow(key[i].name) ELSE key[i]]

\* Rows are really deleted, all of a company's at once.
Purge(b) ==
    /\ \A i \in b : key[i].stage \in {"live", "deleted"}
    /\ key' = [i \in Ids |-> IF i \in b THEN Gone ELSE key[i]]

\* A row is created or renamed: no other live row may have its name.
Put(i, n) ==
    /\ key[i].stage \in {"free", "live"}
    /\ \A j \in Ids \ {i} : key[j] # LiveRow(n)
    /\ key' = [key EXCEPT ![i] = LiveRow(n)]

\* Deleted rows are renamed as well, and nothing keeps their names apart.
RenameDeleted(i, n) ==
    /\ key[i].stage = "deleted"
    /\ key' = [key EXCEPT ![i] = DeletedRow(n)]

Next ==
    \/ \E b \in SUBSET Ids : Delete(b) \/ Purge(b)
    \/ \E i \in Ids, n \in Names : Put(i, n) \/ RenameDeleted(i, n)

Spec == Init /\ [][Next]_key

=============================================================================

------------------------------ MODULE MCHelpers ------------------------------
(* The parts that keep nothing in common with the others, side by side: in   *)
(* one behaviour one of them runs, and the others stand still.               *)
EXTENDS ByteRange, Uuids, Fields, ClickHouse, Logging

\* One version, and times that differ in each of their three sections.
MCUuids == {<<a, 0, 0, b, 0, c, 1, d, 0, 0, 0, 0, 0, 0, 0, e>> :
               a, b \in {0, Top}, c, d \in Byte, e \in {0, 1}}

\* One condition of every kind, and some pairs; of the changed texts, the first.
Plainly(op, v) == [op |-> op, bool |-> FALSE, value |-> v, list |-> {}, text |-> "plain"]
IsNull(b) == [op |-> "isnull", bool |-> TRUE, value |-> b, list |-> {}, text |-> "plain"]
MCFilters ==
    {{}} \union {{c} : c \in {d \in Conditions : /\ d.text # "plain" => d.value = 0 /\ d.list \subseteq {0}
                                                 /\ Cardinality(d.list) <= 2}}
    \union {{Plainly("gte", 1), Plainly("lt", v)} : v \in Column}
    \union {{IsNull(b), Plainly("neq", 1)} : b \in {0, 1}}
    \union {{Plainly("not_like", 1), [Plainly("in", 0) EXCEPT !.list = {0, 3}, !.text = "quote"]}}

ByteRangeRests ==
    prefix = None /\ reverse = FALSE /\ start = None /\ stop = None /\ pc = "rests"
UuidsRest == pair = <<>> /\ swapFlag = 0 /\ stored = <<>> /\ restored = <<>>
FieldsRest ==
    kind = "uuid" /\ storage = "raises" /\ extensions = FALSE /\ column = Null /\ attribute = PyNone
    /\ loaded = FALSE /\ seen = Null /\ outcome = "rests"
ClickHouseRests ==
    table = <<>> /\ call = NoCall /\ step = "rests" /\ total = 0 /\ data = {} /\ quiet = TRUE
LoggingRests ==
    launch = <<>> /\ stages = <<>> /\ handler = <<>> /\ propagate = <<>> /\ threshold = <<>>
    /\ sink = 0 /\ record = NoRecord /\ fate = Nothing

MCInit ==
    \/ Init /\ UuidsRest /\ FieldsRest /\ ClickHouseRests /\ LoggingRests
    \/ UuidInit /\ ByteRangeRests /\ FieldsRest /\ ClickHouseRests /\ LoggingRests
    \/ FieldInit /\ ByteRangeRests /\ UuidsRest /\ ClickHouseRests /\ LoggingRests
    \/ ClickHouseInit /\ ByteRangeRests /\ UuidsRest /\ FieldsRest /\ LoggingRests
    \/ LogInit /\ ByteRangeRests /\ UuidsRest /\ FieldsRest /\ ClickHouseRests

MCNext ==
    \/ pc # "rests" /\ Next /\ UNCHANGED <<uuidVars, fieldVars, chVars, logVars>>
    \/ pair # <<>> /\ UuidNext /\ UNCHANGED <<vars, fieldVars, chVars, logVars>>
    \/ outcome # "rests" /\ FieldNext /\ UNCHANGED <<vars, uuidVars, chVars, logVars>>
    \/ step # "rests" /\ ClickHouseNext /\ UNCHANGED <<vars, uuidVars, fieldVars, logVars>>
    \/ launch # <<>> /\ LogNext /\ UNCHANGED <<vars, uuidVars, fieldVars, chVars>>

MCSpec == MCInit /\ [][MCNext]_<<vars, uuidVars, fieldVars, chVars, logVars>>

=============================================================================

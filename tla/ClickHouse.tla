------------------------------ MODULE ClickHouse ------------------------------
(***************************************************************************)
(* Listing a ClickHouse table: get_clickhouse_all and the SQL that         *)
(* BaseFilterSchema.get_sql makes of a filter (services/crud.py), through  *)
(* get_clickhouse_client (storages/clickhouse/connection.py).              *)
(*                                                                         *)
(* One call: its filter is about one column, its statements are a count    *)
(* and then a page, and others may write between the two.                  *)
(*                                                                         *)
(* A value is put into the text of the query as it is, and that text is    *)
(* formatted a second time for the page.  What a text becomes that a value *)
(* has changed is not modelled: such a statement may give any rows.        *)
(***************************************************************************)
EXTENDS Integers, FiniteSets, FiniteSetsExt

CONSTANTS
    RowIds,     \* rows the table can have
    MaxOffset,  \* bound on limit and offset of the pager
    Filters     \* the filters of the calls

(* The column that is filtered: a number below 4, or, read in the same      *)
(* order, a text of two letters, each 0 or 1.                               *)
Column == 0..3
Letters(x) == {x \div 2, x % 2}

(* A row: that column, and the city of its vehicle, "unknown" where there is *)
(* no such vehicle.  SqlNull is NULL, Absent is no row.                     *)
SqlNull == -1
Absent == [column |-> SqlNull, city |-> "absent"]
Row == [column: Column \union {SqlNull}, city: {"mine", "other", "unknown"}]

(* The keys of operator_sql_template.                                       *)
Nulls == {"isnull", "isnotnull"}
Comparisons == {"eq", "neq", "gt", "gte", "lt", "lte"}
Likes == {"like", "not_like", "left_like", "right_like"}
Operators == Nulls \union Comparisons \union Likes \union {"in"}

(* A condition is one operator of the filter with its value; the fields of  *)
(* the filter schema left at None are not there.  The value is one of the   *)
(* column, a letter of a text, or a list; a bool is 0 or 1.  Its text is    *)
(* plain, or has a quote (or whatever else SQL does not read as the value,  *)
(* such as a wildcard of LIKE), or a brace.  ">" is an operator spelled as  *)
(* in the docstring.                                                        *)
Texts == {"plain", "quote", "brace"}
Conditions ==
    [op: Comparisons \union {">"}, bool: {FALSE}, value: Column, list: {{}}, text: Texts]
    \union [op: Likes, bool: {FALSE}, value: {0, 1}, list: {{}}, text: Texts]
    \union [op: {"in"}, bool: {FALSE}, value: {0}, list: SUBSET Column, text: Texts]
    \union [op: Operators \union {">"}, bool: {TRUE}, value: {0, 1}, list: {{}}, text: {"plain"}]

\* No operator is twice in a filter.
ASSUME ClickHouseAssumption ==
    /\ IsFiniteSet(RowIds) /\ MaxOffset \in Nat
    /\ \A f \in Filters : f \subseteq Conditions /\ \A c, d \in f : c.op = d.op => c = d

VARIABLES
    table,   \* the rows
    call,    \* the arguments of the call, NoCall before it
    step,    \* where it is
    total,   \* the answer: the count ...
    data,    \* ... and the rows of the page
    quiet    \* nobody wrote between the two statements (history)

chVars == <<table, call, step, total, data, quiet>>

-----------------------------------------------------------------------------
(* The query. *)

\* get_sql: the operator that is rendered; a bool turns every operator but the
\* two about NULL into an equation.
Equation(c) == IF c.bool THEN "eq" ELSE c.op
\* Mutant: the second branch also sees what the first has made.
RenderedTwice(c) == IF c.op \in Nulls THEN "isnull" ELSE Equation(c)
Rendered(c) ==
    CASE c.op = "isnull"    -> IF c.value = 1 THEN "isnull" ELSE "isnotnull"
      [] c.op = "isnotnull" -> IF c.value = 1 THEN "isnotnull" ELSE "isnull"
      [] OTHER              -> Equation(c)

\* There is a template for what is rendered.
Renderable(filter) == \A c \in filter : Rendered(c) \in Operators

\* The text of the count, and that of the page after its second format, ask for
\* what the templates say.
CountAsWritten(filter) == \A c \in filter : c.text # "quote"
Reformattable(filter) == \A c \in filter : c.text = "plain"

\* The templates of operator_sql_template: comparisons with NULL are not true.
Holds(op, c, x) ==
    CASE op = "isnull"     -> x = SqlNull
      [] op = "isnotnull"  -> x # SqlNull
      [] op = "eq"         -> x # SqlNull /\ x = c.value
      [] op = "neq"        -> x # SqlNull /\ x # c.value
      [] op = "gt"         -> x # SqlNull /\ x > c.value
      [] op = "gte"        -> x # SqlNull /\ x >= c.value
      [] op = "lt"         -> x # SqlNull /\ x < c.value
      [] op = "lte"        -> x # SqlNull /\ x <= c.value
      [] op = "in"         -> x # SqlNull /\ x \in c.list
      [] op = "like"       -> x # SqlNull /\ c.value \in Letters(x)
      [] op = "not_like"   -> x # SqlNull /\ c.value \notin Letters(x)
      [] op = "left_like"  -> x # SqlNull /\ x \div 2 = c.value
      [] op = "right_like" -> x # SqlNull /\ x % 2 = c.value

\* Only when vehicle_id is selected the rows are joined with the vehicles the user
\* may see; a list of cities that is empty is no restriction.  The vehicles have
\* no column of the name that is filtered.
Joined == call.cities # "none" /\ call.vehicle
Visible(row) == Joined => row.city # "unknown" /\ (call.cities = "mine" => row.city = "mine")
Where(row) == Visible(row) /\ \A c \in call.filter : Holds(Rendered(c), c, row.column)
Present == {i \in RowIds : table[i] # Absent}
Answering == {i \in Present : Where(table[i])}

PageSize(n) == IF n <= call.offset THEN 0 ELSE IF n - call.offset < call.limit THEN n - call.offset ELSE call.limit

-----------------------------------------------------------------------------
Calls == [filter: Filters, cities: {"none", "empty", "mine"}, vehicle: BOOLEAN,
          limit: 1..(MaxOffset + 1), offset: 0..MaxOffset]

NoCall == [filter |-> {}, cities |-> "none", vehicle |-> FALSE, limit |-> 1, offset |-> 0]

ClickHouseInit ==
    /\ table \in [RowIds -> Row \union {Absent}]
    /\ call = NoCall
    /\ step = "idle"
    /\ total = 0
    /\ data = {}
    /\ quiet = TRUE

\* The queries are put together before there is a client.
GetAll ==
    /\ step = "idle"
    /\ call' \in Calls
    /\ step' = IF Renderable(call'.filter) THEN "count" ELSE "raised"
    /\ UNCHANGED <<table, total, data, quiet>>

\* SELECT count(*); with no row there is no second statement.  Otherwise the text
\* of the page is formatted, which raises for most braces.
CountRows ==
    /\ step = "count"
    /\ total' \in IF CountAsWritten(call.filter) THEN {Cardinality(Answering)}
                                                ELSE 0..Cardinality(Present)
    /\ \/ step' = IF total' = 0 THEN "returned" ELSE "fetch"
       \/ total' # 0 /\ (\E c \in call.filter : c.text = "brace") /\ step' = "raised"
    /\ quiet' = TRUE
    /\ UNCHANGED <<table, call, data>>

\* The page: any rows the order allows.
FetchRows ==
    /\ step = "fetch"
    /\ data' \in IF Reformattable(call.filter)
                THEN kSubset(PageSize(Cardinality(Answering)), Answering)
                ELSE SUBSET Present
    /\ step' = "returned"
    /\ UNCHANGED <<table, call, total, quiet>>

\* A statement fails; the client is closed, and the exception goes on.
StatementFails ==
    /\ step \in {"count", "fetch"}
    /\ step' = "failed"
    /\ UNCHANGED <<table, call, total, data, quiet>>

\* Somebody writes a row between the two statements.
WriteRow ==
    /\ step = "fetch" /\ quiet
    /\ \E i \in RowIds, r \in Row \union {Absent} : table[i] # r /\ table' = [table EXCEPT ![i] = r]
    /\ quiet' = FALSE
    /\ UNCHANGED <<call, step, total, data>>

ClickHouseNext == GetAll \/ CountRows \/ FetchRows \/ StatementFails \/ WriteRow

ClickHouseSpec == ClickHouseInit /\ [][ClickHouseNext]_chVars

-----------------------------------------------------------------------------
(* Properties. *)

\* What the filter asks of a row: isnull and isnotnull ask the opposite of each
\* other, whichever way round; a bool asks for equality, whatever its operator.
Asked(c, x) ==
    IF c.op \in Nulls THEN (x = SqlNull) <=> ((c.op = "isnull") <=> (c.value = 1))
    ELSE IF c.bool THEN x = c.value
    ELSE x \in CASE c.op = "eq"         -> {c.value}
                 [] c.op = "neq"        -> Column \ {c.value}
                 [] c.op = "gt"         -> (c.value + 1)..3
                 [] c.op = "gte"        -> c.value..3
                 [] c.op = "lt"         -> 0..(c.value - 1)
                 [] c.op = "lte"        -> 0..c.value
                 [] c.op = "in"         -> c.list
                 [] c.op = "like"       -> {y \in Column : \E a \in {0, 1} : y \in {2 * c.value + a, 2 * a + c.value}}
                 [] c.op = "not_like"   -> {3 * (1 - c.value)}
                 [] c.op = "left_like"  -> {2 * c.value, 2 * c.value + 1}
                 [] c.op = "right_like" -> {c.value, 2 + c.value}
Sought == {i \in Present : Visible(table[i]) /\ \A c \in call.filter : Asked(c, table[i].column)}

\* When no value changes the text of its query, a listing holds only rows its
\* filter asks for; the total is their number and the page as full as it can be
\* when nobody writes between the two statements, and only then: a row that goes
\* leaves a short page under the old total.  The total is right as well where
\* a brace, which only the second format reads, spoils the page.
FilteredListing ==
    step = "returned" =>
        /\ total = 0 => data = {}
        /\ CountAsWritten(call.filter) /\ quiet => total = Cardinality(Sought)
        /\ Reformattable(call.filter) =>
              /\ data \subseteq Sought
              /\ quiet => Cardinality(data) = PageSize(total)

=============================================================================

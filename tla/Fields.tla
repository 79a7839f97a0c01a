-------------------------------- MODULE Fields --------------------------------
(***************************************************************************)
(* The field types of common/tortoise/fields/base.py: what an instance     *)
(* writes into a column of such a type, and what it reads from there.      *)
(*                                                                         *)
(* One column and one instance of its model.  save() without update_fields *)
(* writes every column again, the ones nobody has assigned as well, so     *)
(* each conversion has to undo the other one.                              *)
(***************************************************************************)
EXTENDS Integers

CONSTANTS
    Null,      \* NULL
    Day,       \* seconds of a day
    Longest    \* longest path a file column has room for

ASSUME NullAssumption == Null \notin Int
ASSUME DayAssumption == Day \in Nat \ {0}
ASSUME LongestAssumption == Longest \in Nat

Kinds == {"uuid", "timestamp", "time", "geometry", "file"}

(* What a column holds is NULL or a number:                                 *)
(*   uuid       the 16 bytes, of which two bits stand for time and node      *)
(*   timestamp  seconds since 1970                                           *)
(*   time       half seconds since midnight; MySQL has negative ones, and    *)
(*              more than a day                                              *)
(*   geometry   a geometry                                                   *)
(*   file       0 is "", 1 and 2 are paths without a leading slash, and a    *)
(*              path that gets a slash, or the base path of its storage, in  *)
(*              front is two more; the odd ones have an extension the field  *)
(*              supports, and a url is minus its path                        *)
Empty == 0
Bare == {1, 2}
Contents(k) ==
    {Null} \union CASE k = "uuid"      -> 0..3
                    [] k = "timestamp" -> (-1)..1
                    [] k = "time"      -> (-2 * Day)..(4 * Day)
                    [] k = "geometry"  -> {1}
                    [] k = "file"      -> (-Longest)..Longest \ {-1, -2}

(* What an attribute holds: None, or a value with its Python type; a        *)
(* datetime is in half seconds, and a url is given by its path.             *)
PyNone == [type |-> "None", value |-> 0]
Values(k) ==
    {PyNone} \union
        CASE k = "uuid"      -> [type: {"uuid"}, value: 0..3]
          [] k = "timestamp" -> [type: {"datetime"}, value: (-3)..3] \union [type: {"int"}, value: (-1)..1]
          [] k = "time"      -> [type: {"time"}, value: 0..(2 * Day - 1)]
          [] k = "geometry"  -> [type: {"json", "bytes"}, value: {1}]
          [] k = "file"      -> [type: {"str"}, value: 0..(Longest + 2)]
                                \union [type: {"url"}, value: 3..(Longest + 2)]

(* What get_full_path of the storage of a file field does.  No storage of    *)
(* the repository has one of its own, and OssFile's raises; one that uses    *)
(* get_real_path puts a slash in front of a path that has none, and, if the  *)
(* storage has a base path, that in front of every path.                     *)
Storages == {"raises", "slash", "base"}

VARIABLES
    kind,        \* type of the field
    storage,     \* of a file field
    extensions,  \* does a file field name the extensions it supports?
    column,      \* the column in the database
    attribute,   \* the attribute of the instance
    loaded,      \* it is as it was loaded
    seen,        \* what the column held when the attribute was loaded (history)
    outcome      \* of the last operation

fieldVars == <<kind, storage, extensions, column, attribute, loaded, seen, outcome>>

-----------------------------------------------------------------------------
(* Conversions, to_db_value and to_python_value of each type. *)

Swapped(u) == (u % 2) * 2 + u \div 2
\* Mutant: UUID_TO_BIN(..., 1), that swaps the times.
UuidToBinSwaps(u) == Swapped(u)
UuidToBin(u) == u
UuidToDb(v) == IF v = PyNone THEN Null ELSE UuidToBin(v.value)
UuidToPython(c) == [type |-> "uuid", value |-> c]

\* int() drops the fraction of a second.
Truncate(half) == IF half >= 0 THEN half \div 2 ELSE -((-half) \div 2)
TimestampToDb(v) ==
    IF v = PyNone THEN 0 ELSE IF v.type = "datetime" THEN Truncate(v.value) ELSE v.value
TimestampToPython(c) == IF c = 0 THEN PyNone ELSE [type |-> "datetime", value |-> 2 * c]

TimeToDb(v) == IF v = PyNone THEN Null ELSE v.value
TimeToPython(c) == [type |-> "time", value |-> 2 * (Truncate(c) % Day)]

GeometryToDb(v) == IF v = PyNone THEN Null ELSE v.value
GeometryToPython(c) == [type |-> "bytes", value |-> c]

\* Mutant: the url itself is saved.
FileToDbUrl(v) == IF v = PyNone THEN Empty ELSE IF v.type = "url" THEN -v.value ELSE v.value
\* A url is saved as its path (get_stored_path), with all that is in front of it.
FileToDb(v) == IF v = PyNone THEN Empty ELSE v.value
IsPath(c) == c # Null /\ c > Empty
FullPath(s, path) == IF path \in Bare \/ s = "base" THEN path + 2 ELSE path
FileToPython(s, c) ==
    IF c = Empty THEN [type |-> "str", value |-> Empty]
    ELSE [type |-> "url", value |-> IF c < 0 THEN -c ELSE FullPath(s, c)]

ToDb(k, v) ==
    CASE k = "uuid"      -> UuidToDb(v)
      [] k = "timestamp" -> TimestampToDb(v)
      [] k = "time"      -> TimeToDb(v)
      [] k = "geometry"  -> GeometryToDb(v)
      [] k = "file"      -> FileToDb(v)

\* NULL is None for every type.
ToPython(k, s, c) ==
    IF c = Null THEN PyNone
    ELSE CASE k = "uuid"      -> UuidToPython(c)
           [] k = "timestamp" -> TimestampToPython(c)
           [] k = "time"      -> TimeToPython(c)
           [] k = "geometry"  -> GeometryToPython(c)
           [] k = "file"      -> FileToPython(s, c)

\* The bytes of a loaded geometry are no GeoJSON, a file field may name the
\* extensions it supports, and MySQL refuses what is too long for its column.
Supported(path) == extensions => path % 2 = 1
Fits(v) == v.type \in {"str", "url"} => v.value <= Longest
Accepted(v) ==
    /\ v.type # "bytes"
    /\ v.type \in {"str", "url"} /\ v.value # Empty => Supported(v.value)
    /\ Fits(v)

-----------------------------------------------------------------------------
FieldInit ==
    /\ kind \in Kinds
    /\ storage \in Storages
    /\ extensions \in BOOLEAN
    /\ kind # "file" => storage = "raises" /\ ~extensions
    /\ column \in Contents(kind)
    /\ attribute = PyNone
    /\ loaded = FALSE
    /\ seen = Null
    /\ outcome = "ok"

Assign ==
    /\ attribute' \in Values(kind)
    /\ loaded' = FALSE
    /\ outcome' = "ok"
    /\ UNCHANGED <<kind, storage, extensions, column, seen>>

\* A path needs its storage, that may refuse it or fail: then the row cannot be
\* loaded.  Neither "" nor a url is asked for.
Load ==
    \/ /\ ~(kind = "file" /\ storage = "raises" /\ IsPath(column))
       /\ attribute' = ToPython(kind, storage, column)
       /\ loaded' = TRUE
       /\ seen' = column
       /\ outcome' = "ok"
       /\ UNCHANGED <<kind, storage, extensions, column>>
    \/ /\ kind = "file" /\ IsPath(column)
       /\ outcome' = "ValueError"
       /\ UNCHANGED <<kind, storage, extensions, column, attribute, loaded, seen>>

Save ==
    /\ Accepted(attribute)
    /\ column' = ToDb(kind, attribute)
    /\ outcome' = "ok"
    /\ UNCHANGED <<kind, storage, extensions, attribute, loaded, seen>>

SaveRaises ==
    /\ ~Accepted(attribute)
    /\ outcome' = CASE kind = "geometry" -> "ConfigurationError"
                  [] kind = "file" /\ Supported(attribute.value) -> "DataError"
                  [] OTHER -> "ValueError"
    /\ UNCHANGED <<kind, storage, extensions, column, attribute, loaded, seen>>

\* Somebody else writes the column, with SQL or another program.
Overwritten ==
    /\ column' \in Contents(kind)
    /\ UNCHANGED <<kind, storage, extensions, attribute, loaded, seen, outcome>>

FieldNext == Assign \/ Load \/ Save \/ SaveRaises \/ Overwritten

FieldSpec == FieldInit /\ [][FieldNext]_fieldVars

-----------------------------------------------------------------------------
(* Properties. *)

\* What the field would not write itself: NULL where it has no None, a time with
\* a fraction or outside of one day, a path without a slash, a url.
Unnormal(k, c) ==
    CASE k \in {"timestamp", "file"} /\ c = Null -> TRUE
      [] k = "time" /\ c # Null -> c % 2 = 1 \/ c \notin 0..(2 * Day - 1)
      [] k = "file" /\ c # Null -> c \in Bare \/ c < Empty
      [] OTHER -> FALSE

\* A path of a storage with a base path.
Drifts(k, s, c) == k = "file" /\ s = "base" /\ IsPath(c)

\* An instance writes back into a column nobody has assigned what it read from
\* there, or, where the field would not have written that itself, what the field
\* would: a second round of reading and writing moves it no further.  The one
\* exception are the paths of a storage that puts its base path in front: every
\* round does so once more, as get_stored_path takes it away from no url.
\* And a geometry that was loaded is never written back, it is refused.
RewriteSettles ==
    [][Save /\ loaded =>
          /\ ~Unnormal(kind, column')
          /\ ~Unnormal(kind, seen) /\ ~Drifts(kind, storage, seen) => column' = seen
          /\ Drifts(kind, storage, seen) => column' = seen + 2
          /\ kind = "geometry" => seen = Null]_fieldVars

=============================================================================

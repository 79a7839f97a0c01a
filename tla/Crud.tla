-------------------------------- MODULE Crud --------------------------------
(***************************************************************************)
(* Concurrent calls of the CRUD functions of services/crud.py on one       *)
(* relational model.                                                       *)
(*                                                                         *)
(* The functions are coroutines and open no transaction: every await is    *)
(* one statement that the database runs atomically, and between two awaits *)
(* of one call any statement of another call, of another worker process or *)
(* of TimeStampModel.real_delete may run.  An action below is the code     *)
(* from one await to the next.                                             *)
(*                                                                         *)
(* The modelled db_model has what the repository's models have between     *)
(* them: a unique_together of a column and deleted_at (VehicleBrand), a    *)
(* foreign key (Account.company), the tombstone column deleted_at (every   *)
(* BaseModel), and one many-to-many relation, which crud.py serves though  *)
(* no model declares one yet.                                              *)
(***************************************************************************)
EXTENDS Integers, FiniteSets

CONSTANTS
    Ids,          \* primary keys
    Names,        \* values of the column that is unique together with deleted_at
    Companies,    \* primary keys of the foreign key's table
    Tags,         \* primary keys of the many-to-many relation's table
    Requests,     \* calls in progress, in any worker process
    Operations,   \* the functions that are called
    SoftDeletes,  \* hasattr(db_model, "delte_by_ids")
    MaxTime,      \* bound on the clock, in seconds
    Unset,        \* a key that is not in data
    Null          \* None in Python, NULL in the database, and no row

Row == [name: Names, company: Companies, deleted_at: Nat]

ASSUME SoftDeletesAssumption == SoftDeletes \in BOOLEAN
ASSUME MaxTimeAssumption == MaxTime \in Nat
ASSUME OperationsAssumption ==
    Operations \subseteq {"create", "update", "delete", "fake_delete"}
ASSUME SentinelAssumption ==
    /\ Unset # Null
    /\ Unset \notin Names \union Companies
    /\ \A ts \in SUBSET Tags : ts \notin {Unset, Null}
    /\ Null \notin Names \union Companies \union Ids \union Requests
    /\ Null \notin Nat
    /\ Null \notin Row

VARIABLES
    row,        \* row[i], the columns of the row with key i, or Null
    used,       \* keys ever inserted: sequential_uuid_from_ulid repeats none
    companies,  \* rows of the foreign key's table
    tags,       \* rows of the many-to-many relation's table
    links,      \* rows <<i, t>> of the relation's through table
    clock,      \* the time in seconds
    pc,         \* pc[r], the statement call r awaits, or how it ended
    call,       \* call[r], the function called and its arguments
    obj,        \* obj[r], the columns of the model instance call r holds
    todo,       \* todo[r], related ids that call r has yet to look up, or to add
    stamp,      \* stamp[r], the deletion time call r took from datetime_now
    effects,    \* effects[r], what call r has changed in the database (history)
    touched     \* touched[r], what others changed since r wrote it (history)

env == <<companies, tags, clock>>
locals == <<call, obj, todo, stamp>>
vars == <<row, used, companies, tags, links, clock,
          pc, call, obj, todo, stamp, effects, touched>>

-----------------------------------------------------------------------------
(* The table. *)

\* What TimestampField stores: None becomes 0, so that live rows share a value
\* of deleted_at and the unique index applies to them.  (Mutant: it stays NULL.)
ToDbValueNull(v) == v
ToDbValue(v) == IF v = Null THEN 0 ELSE v

\* What TimestampField reads back as None: the row is live.
Live(v) == v # Null /\ v.deleted_at \in {0, Null}

\* Mutant: the index is on the name alone.
SameKeyName(v, w) == v.name = w.name
\* Mutant: the index is on the name and on whether the row is deleted.
SameKeyFlag(v, w) == v.name = w.name /\ (v.deleted_at = 0) = (w.deleted_at = 0)
\* unique_together = (("vehicle_brand", "deleted_at"),); NULL equals nothing.
SameKey(v, w) ==
    v.name = w.name /\ v.deleted_at = w.deleted_at /\ v.deleted_at # Null

\* A statement that leaves the table as `new` breaks the unique index.
Duplicate(new) ==
    \E i, j \in Ids : /\ i # j
                      /\ new[i] # Null /\ new[j] # Null
                      /\ SameKey(new[i], new[j])

\* The rows that refer to i in the through table.
LinksOf(i) == {t \in Tags : <<i, t>> \in links}

-----------------------------------------------------------------------------
(* Calls. *)

Call == [op: {"create", "update", "delete", "fake_delete"},
         id: Ids \union {Null},
         batch: SUBSET Ids,
         name: Names \union {Unset},
         company: Companies \union {Unset, Null},
         tags: {Unset, Null} \union SUBSET Tags]

NoCall == [op |-> "create", id |-> Null, batch |-> {},
           name |-> Unset, company |-> Unset, tags |-> Unset]

Waiting == {"get", "check_company", "check_tags", "insert", "update", "clear",
            "link", "add", "refresh", "fetch", "stamp", "save", "delete"}
\* rejected: the caller is told why, by an ApiException or by Resp.fail.
\* error: an exception nobody expected.
Done == {"ok", "rejected", "error"}

HasColumns(c) == c.name # Unset \/ c.company # Unset
HasTags(c) == c.tags \notin {Unset, Null}
\* `if data:` sees the keys; a relation that is None is left as it is.
HasData(c) == HasColumns(c) \/ c.tags # Unset

\* update_obj after its UPDATE: replace the relation if the key is in data.
\* The mutant adds the new relation without clearing the old one.
AfterUpdateNoClear(c) ==
    IF ~HasTags(c) \/ c.tags = {} THEN "refresh" ELSE "link"
AfterUpdate(c) == IF HasTags(c) THEN "clear" ELSE "refresh"

\* The first statement that writes.
FirstWrite(c) ==
    IF c.op = "create" THEN "insert"
    ELSE IF HasColumns(c) THEN "update" ELSE AfterUpdate(c)

\* kwargs_clean looks up every related id before anything is written.
AfterCompany(c) ==
    IF HasTags(c) /\ c.tags # {} THEN "check_tags" ELSE FirstWrite(c)
Clean(c) ==
    IF c.company \in Companies THEN "check_company" ELSE AfterCompany(c)
Related(c) == IF HasTags(c) THEN c.tags ELSE {}

\* The columns of v with those of data written over them.
Overwrite(v, c) ==
    [name |-> IF c.name = Unset THEN v.name ELSE c.name,
     company |-> IF c.company = Unset THEN v.company ELSE c.company,
     deleted_at |-> v.deleted_at]

-----------------------------------------------------------------------------
(* Bookkeeping common to the actions. *)

\* Call r goes on to the statement, or the end, s.
Goto(r, s) == pc' = [pc EXCEPT ![r] = s]

\* The table becomes newRow and the through table newLinks, by a statement of
\* call r (Null: by something that is not one of the calls).  `own` is what r
\* has just written itself.
Write(r, newRow, newLinks, own) ==
    /\ row' = newRow
    /\ links' = newLinks
    /\ touched' = [s \in Requests |->
         IF s = r THEN touched[s] \ own
         ELSE IF call[s].id = Null THEN touched[s]
         ELSE touched[s]
              \union (IF newRow[call[s].id] # row[call[s].id] THEN {"row"} ELSE {})
              \union (IF \E t \in Tags :
                            (<<call[s].id, t>> \in newLinks) # (<<call[s].id, t>> \in links)
                      THEN {"links"} ELSE {})]

Affect(r, e) == effects' = [effects EXCEPT ![r] = @ \union e]

NoWrite == UNCHANGED <<row, used, links, effects, touched>>

-----------------------------------------------------------------------------
Init ==
    /\ row = [i \in Ids |-> Null]
    /\ used = {}
    /\ companies = Companies
    /\ tags = Tags
    /\ links = {}
    /\ clock = 1
    /\ pc = [r \in Requests |-> "idle"]
    /\ call = [r \in Requests |-> NoCall]
    /\ obj = [r \in Requests |-> Null]
    /\ todo = [r \in Requests |-> {}]
    /\ stamp = [r \in Requests |-> 0]
    /\ effects = [r \in Requests |-> {}]
    /\ touched = [r \in Requests |-> {}]

Begin(r, c, s) ==
    /\ pc[r] = "idle"
    /\ c.op \in Operations
    /\ call' = [call EXCEPT ![r] = c]
    /\ todo' = [todo EXCEPT ![r] = Related(c)]
    /\ Goto(r, s)
    /\ NoWrite
    /\ UNCHANGED <<env, obj>>

\* create_account -> create_obj: the schema requires every column.  A relation
\* that is missing, None or empty is `if v:` that fails.
CallCreate(r) ==
    \E n \in Names, c \in Companies, ts \in SUBSET Tags :
        LET a == [NoCall EXCEPT !.name = n, !.company = c, !.tags = ts]
        IN  Begin(r, a, Clean(a)) /\ UNCHANGED stamp

\* update_account -> update; update_or_create with a pk.  A relation given as
\* None differs from none only where it is the only key.
CallUpdate(r) ==
    \E i \in used, n \in Names \union {Unset},
       c \in Companies \union {Unset, Null}, ts \in {Unset, Null} \union SUBSET Tags :
        /\ ts = Null => n = Unset /\ c = Unset
        /\ Begin(r, [op |-> "update", id |-> i, batch |-> {},
                     name |-> n, company |-> c, tags |-> ts], "get")
        /\ UNCHANGED stamp

\* delete(id) is the batch of one.  delte_by_ids takes the time before the
\* statement has a connection.
CallDelete(r) ==
    \E b \in SUBSET used \ {{}} :
        /\ Begin(r, [NoCall EXCEPT !.op = "delete", !.batch = b], "delete")
        /\ stamp' = [stamp EXCEPT ![r] = clock]

\* Somebody loads an instance and awaits its delete().
CallFakeDelete(r) ==
    \E i \in used :
        /\ Begin(r, [NoCall EXCEPT !.op = "fake_delete", !.id = i, !.batch = {i}], "get")
        /\ UNCHANGED stamp

\* get_or_none.
Get(r) ==
    LET c == call[r]  v == row[c.id] IN
    /\ pc[r] = "get"
    /\ obj' = [obj EXCEPT ![r] = v]
    /\ Goto(r, CASE v = Null -> "rejected"
                 [] v # Null /\ c.op = "fake_delete" -> "stamp"
                 [] v # Null /\ c.op = "update" /\ HasData(c) -> Clean(c)
                 [] OTHER -> "fetch")
    /\ NoWrite
    /\ UNCHANGED <<env, call, todo, stamp>>

\* kwargs_clean: the foreign key.
CheckCompany(r) ==
    /\ pc[r] = "check_company"
    /\ Goto(r, IF call[r].company \in companies THEN AfterCompany(call[r])
               ELSE "rejected")
    /\ NoWrite
    /\ UNCHANGED <<env, locals>>

\* kwargs_clean: one many-to-many id per await, in the order of the list.
CheckTag(r) ==
    /\ pc[r] = "check_tags"
    /\ \E t \in todo[r] :
         /\ todo' = [todo EXCEPT ![r] = @ \ {t}]
         /\ Goto(r, CASE t \notin tags -> "rejected"
                      [] t \in tags /\ todo[r] # {t} -> "check_tags"
                      [] OTHER -> FirstWrite(call[r]))
    /\ NoWrite
    /\ UNCHANGED <<env, call, obj, stamp>>

\* create_obj: INSERT with a fresh key.  An IntegrityError (duplicate key, or a
\* company gone since it was looked up) becomes an ApiException.
Insert(r) ==
    LET c == call[r]
        v == [name |-> c.name, company |-> c.company, deleted_at |-> ToDbValue(Null)]
    IN  /\ pc[r] = "insert"
        /\ \E i \in Ids \ used :
             LET new == [row EXCEPT ![i] = v] IN
             IF Duplicate(new) \/ c.company \notin companies
             THEN Goto(r, "rejected") /\ NoWrite /\ UNCHANGED <<call, obj>>
             ELSE /\ Write(r, new, links, {"row", "links"})
                  /\ used' = used \union {i}
                  /\ call' = [call EXCEPT ![r].id = i]
                  /\ obj' = [obj EXCEPT ![r] = v]
                  /\ Affect(r, {"insert"})
                  /\ Goto(r, IF HasTags(c) /\ c.tags # {} THEN "link" ELSE "fetch")
        /\ UNCHANGED <<env, todo, stamp>>

\* Mutant: the instance read by get_or_none is saved whole.
UpdateRowStale(r) ==
    LET c == call[r]
        new == [row EXCEPT ![c.id] = Overwrite(obj[r], c)]
    IN  /\ pc[r] = "update"
        /\ Write(r, new, links, {"row"})
        /\ Affect(r, {"update"})
        /\ Goto(r, AfterUpdate(c))
        /\ UNCHANGED <<used, env, locals>>

\* update_obj: UPDATE ... WHERE pk.  The number of rows hit is not looked at.
UpdateRow(r) ==
    LET c == call[r]
        v == Overwrite(row[c.id], c)
        new == [row EXCEPT ![c.id] = v]
    IN  /\ pc[r] = "update"
        /\ CASE row[c.id] = Null ->
                  Goto(r, AfterUpdate(c)) /\ NoWrite
             [] row[c.id] # Null /\ (Duplicate(new) \/ v.company \notin companies) ->
                  Goto(r, "rejected") /\ NoWrite
             [] OTHER ->
                  /\ Write(r, new, links, {"row"})
                  /\ Affect(r, {"update"})
                  /\ Goto(r, AfterUpdate(c))
                  /\ UNCHANGED used
        /\ UNCHANGED <<env, locals>>

\* update_obj: getattr(obj, k).clear().
Clear(r) ==
    /\ pc[r] = "clear"
    /\ Write(r, row, {l \in links : l[1] # call[r].id}, {"links"})
    /\ Affect(r, IF LinksOf(call[r].id) # {} THEN {"clear"} ELSE {})
    /\ Goto(r, IF call[r].tags = {} THEN "refresh" ELSE "link")
    /\ UNCHANGED <<used, env, locals>>

\* create_obj and update_obj: getattr(obj, k).add( *v) asks which of the links
\* are there already,
AfterLink(r) == IF call[r].op = "create" THEN "fetch" ELSE "refresh"
FindLinks(r) ==
    LET new == Related(call[r]) \ LinksOf(call[r].id) IN
    /\ pc[r] = "link"
    /\ todo' = [todo EXCEPT ![r] = new]
    /\ Goto(r, IF new = {} THEN AfterLink(r) ELSE "add")
    /\ NoWrite
    /\ UNCHANGED <<env, call, obj, stamp>>

\* Mutant: a failing add() is answered like a failing kwargs_clean.
LinkRefused(r) ==
    /\ pc[r] = "add"
    /\ Goto(r, "rejected")
    /\ NoWrite
    /\ UNCHANGED <<env, locals>>

\* and inserts the others, outside any try: a tag or the row itself gone since
\* it was looked up is an error, and so may be a link that somebody else has
\* added (the through table of the ORM has a unique key or not, by version).
LinkFails(r) == row[call[r].id] = Null \/ ~(todo[r] \subseteq tags)
Link(r) ==
    /\ pc[r] = "add"
    /\ \/ /\ LinkFails(r) \/ todo[r] \intersect LinksOf(call[r].id) # {}
          /\ Goto(r, "error")
          /\ NoWrite
       \/ /\ ~LinkFails(r)
          /\ Write(r, row, links \union ({call[r].id} \X todo[r]), {})
          /\ Affect(r, {"link"})
          /\ Goto(r, AfterLink(r))
          /\ UNCHANGED used
    /\ UNCHANGED <<env, locals>>

\* Mutant: a row that is gone is not noticed.
RefreshIgnoresAbsence(r) ==
    /\ pc[r] = "refresh"
    /\ obj' = [obj EXCEPT ![r] = IF row[call[r].id] = Null THEN @ ELSE row[call[r].id]]
    /\ Goto(r, "fetch")
    /\ NoWrite
    /\ UNCHANGED <<env, call, todo, stamp>>
\* Mutant: the instance is not read again.
RefreshSkipped(r) ==
    /\ pc[r] = "refresh"
    /\ Goto(r, "fetch")
    /\ NoWrite
    /\ UNCHANGED <<env, locals>>

\* update_obj: refresh_from_db raises DoesNotExist for a row that is gone.
Refresh(r) ==
    /\ pc[r] = "refresh"
    /\ IF row[call[r].id] = Null
       THEN Goto(r, "error") /\ UNCHANGED obj
       ELSE Goto(r, "fetch") /\ obj' = [obj EXCEPT ![r] = row[call[r].id]]
    /\ NoWrite
    /\ UNCHANGED <<env, call, todo, stamp>>

\* obj_prefetch_fields, then the response model, which needs the company.
Fetch(r) ==
    /\ pc[r] = "fetch"
    /\ Goto(r, IF obj[r].company \in companies THEN "ok" ELSE "error")
    /\ NoWrite
    /\ UNCHANGED <<env, locals>>

\* TimeStampModel.delete: self.deleted_at = datetime_now().
Stamp(r) ==
    /\ pc[r] = "stamp"
    /\ stamp' = [stamp EXCEPT ![r] = clock]
    /\ obj' = [obj EXCEPT ![r].deleted_at = clock]
    /\ Goto(r, "save")
    /\ NoWrite
    /\ UNCHANGED <<env, call, todo>>

\* What stamping the rows of b does: a live one is deleted, a deleted one gets
\* another deletion time.
StampEffects(b) == (IF \E i \in b : Live(row[i]) THEN {"delete"} ELSE {})
                   \union (IF \E i \in b : ~Live(row[i]) THEN {"restamp"} ELSE {})

\* TimeStampModel.delete: save(update_fields=["deleted_at"], force_update=True)
\* raises for a row that is gone, and for a duplicate key.
Save(r) ==
    LET i == call[r].id
        new == [row EXCEPT ![i].deleted_at = stamp[r]]
    IN  /\ pc[r] = "save"
        /\ IF row[i] = Null \/ Duplicate(new)
           THEN Goto(r, "error") /\ NoWrite
           ELSE /\ Write(r, new, links, {"row"})
                /\ Affect(r, StampEffects({i}))
                /\ Goto(r, "ok")
                /\ UNCHANGED used
        /\ UNCHANGED <<env, locals>>

\* Mutant: the statement changes one row of the batch.
SoftDeleteOne(r) ==
    \E i \in call[r].batch :
        /\ pc[r] = "delete" /\ SoftDeletes /\ row[i] # Null
        /\ Write(r, [row EXCEPT ![i].deleted_at = stamp[r]], links, {})
        /\ Affect(r, StampEffects({i}))
        /\ Goto(r, "ok")
        /\ UNCHANGED <<used, env, locals>>

\* delete and batch_delete of a model with delte_by_ids: one UPDATE of the rows
\* with these ids, deleted or not.  The database counts the rows it changed.
SoftDelete(r) ==
    LET hit == {i \in call[r].batch : row[i] # Null /\ row[i].deleted_at # stamp[r]}
        new == [i \in Ids |-> IF i \in hit THEN [row[i] EXCEPT !.deleted_at = stamp[r]]
                              ELSE row[i]]
    IN  /\ pc[r] = "delete" /\ SoftDeletes
        /\ CASE hit = {} -> Goto(r, "rejected") /\ NoWrite
             [] hit # {} /\ Duplicate(new) -> Goto(r, "error") /\ NoWrite
             [] OTHER -> /\ Write(r, new, links, {})
                         /\ Affect(r, StampEffects(hit))
                         /\ Goto(r, "ok")
                         /\ UNCHANGED used
        /\ UNCHANGED <<env, locals>>
\* The rows of b go, and with them what refers to them in the through table.
Without(b) == [i \in Ids |-> IF i \in b THEN Null ELSE row[i]]
Unlinked(b) == {l \in links : l[1] \notin b}

\* The same functions for a model without delte_by_ids: DELETE.
HardDelete(r) ==
    LET hit == {i \in call[r].batch : row[i] # Null} IN
    /\ pc[r] = "delete" /\ ~SoftDeletes
    /\ IF hit = {} THEN Goto(r, "rejected") /\ NoWrite
       ELSE /\ Write(r, Without(hit), Unlinked(hit), {})
            /\ Affect(r, {"delete"})
            /\ Goto(r, "ok")
            /\ UNCHANGED used
    /\ UNCHANGED <<env, locals>>

\* Nothing is left of a call but what it has done.
Leave(r) ==
    /\ Goto(r, "idle")
    /\ call' = [call EXCEPT ![r] = NoCall]
    /\ obj' = [obj EXCEPT ![r] = Null]
    /\ todo' = [todo EXCEPT ![r] = {}]
    /\ stamp' = [stamp EXCEPT ![r] = 0]
    /\ effects' = [effects EXCEPT ![r] = {}]
    /\ touched' = [touched EXCEPT ![r] = {}]
    /\ UNCHANGED <<row, used, links, env>>

\* The worker dies, the client's task is cancelled, the connection is lost.
Fault(r) == pc[r] \in Waiting /\ Leave(r)

Return(r) == pc[r] \in Done /\ Leave(r)

-----------------------------------------------------------------------------
(* What is not a call: time, and other code on the same tables. *)

Tick ==
    /\ clock < MaxTime
    /\ clock' = clock + 1
    /\ NoWrite
    /\ UNCHANGED <<companies, tags, pc, locals>>

\* TimeStampModel.real_delete.
RealDelete(i) ==
    /\ row[i] # Null
    /\ Write(Null, Without({i}), Unlinked({i}), {})
    /\ UNCHANGED <<used, env, pc, locals, effects>>

\* A company is deleted: ON DELETE CASCADE.
DropCompany(c) ==
    LET b == {i \in Ids : row[i] # Null /\ row[i].company = c} IN
    /\ c \in companies
    /\ companies' = companies \ {c}
    /\ Write(Null, Without(b), Unlinked(b), {})
    /\ UNCHANGED <<used, tags, clock, pc, locals, effects>>

\* A row of the relation's table is deleted.
DropTag(t) ==
    /\ t \in tags
    /\ tags' = tags \ {t}
    /\ Write(Null, row, {l \in links : l[2] # t}, {})
    /\ UNCHANGED <<used, companies, clock, pc, locals, effects>>

-----------------------------------------------------------------------------
Next ==
    \/ \E r \in Requests :
         \/ CallCreate(r) \/ CallUpdate(r) \/ CallDelete(r) \/ CallFakeDelete(r)
         \/ Get(r) \/ CheckCompany(r) \/ CheckTag(r)
         \/ Insert(r) \/ UpdateRow(r) \/ Clear(r)
         \/ FindLinks(r) \/ Link(r)
         \/ Refresh(r) \/ Fetch(r)
         \/ Stamp(r) \/ Save(r) \/ SoftDelete(r) \/ HardDelete(r)
         \/ Fault(r) \/ Return(r)
    \/ Tick
    \/ \E i \in Ids : RealDelete(i)
    \/ \E c \in Companies : DropCompany(c)
    \/ \E t \in Tags : DropTag(t)

Spec == Init /\ [][Next]_vars

-----------------------------------------------------------------------------
(* Properties. *)

\* The types of the variables.  The part about rows says that the database
\* never stores NULL in deleted_at, though the column allows it.
RowTypeOK == row \in [Ids -> Row \union {Null}]
TypeOK ==
    /\ RowTypeOK
    /\ used \subseteq Ids
    /\ companies \subseteq Companies
    /\ tags \subseteq Tags
    /\ links \subseteq Ids \X Tags
    /\ clock \in Nat
    /\ pc \in [Requests -> {"idle"} \union Waiting \union Done]
    /\ call \in [Requests -> Call]
    /\ obj \in [Requests -> Row \union {Null}]
    /\ todo \in [Requests -> SUBSET Tags]
    /\ stamp \in [Requests -> Nat]
    /\ effects \in [Requests ->
                      SUBSET {"insert", "update", "clear", "link", "delete", "restamp"}]
    /\ touched \in [Requests -> SUBSET {"row", "links"}]

\* However creates, updates and deletes interleave, at most one live row has a
\* given name: what unique_together with deleted_at is there for.
UniqueLive ==
    \A i, j \in Ids :
        Live(row[i]) /\ Live(row[j]) /\ row[i].name = row[j].name => i = j

\* A deleted row never comes back to life, whatever stale instance a call
\* still holds: an UPDATE writes the columns of data and no other.
TombstonesStay ==
    [][\A i \in Ids : row[i] # Null /\ ~Live(row[i]) => ~Live(row'[i])]_row

\* A call that answers with a refusal (ApiException or Resp.fail) has changed
\* nothing: everything that can be refused comes before the first change.
RejectedChangedNothing ==
    \A r \in Requests : pc[r] = "rejected" => effects[r] = {}

\* An update that answers with success has executed its UPDATE on a row, though
\* it never looks at the number of rows hit and the row may go at any time.
OkUpdateHappened ==
    \A r \in Requests :
        pc[r] = "ok" /\ call[r].op = "update" /\ HasColumns(call[r])
            => "update" \in effects[r]

\* The answer of a create or an update shows the values the call wrote, unless
\* others changed the row since.
ReadYourWrites ==
    \A r \in Requests :
        pc[r] = "ok" /\ call[r].op \in {"create", "update"} /\ HasColumns(call[r])
        /\ "row" \notin touched[r]
            => obj[r] = Overwrite(obj[r], call[r])

\* Once update_obj is done with the relation, the row's relation is the set in
\* data, no more and no less, unless others changed it since the clear().
ReplacedLinks ==
    \A r \in Requests :
        /\ pc[r] = "ok" /\ call[r].op = "update" /\ HasTags(call[r])
        /\ "links" \notin touched[r]
        => LinksOf(call[r].id) = call[r].tags

\* After either answer of a delete, "deleted" or "absent or already deleted",
\* no row of the batch is live.
DeleteAnswer ==
    \A r \in Requests :
        pc[r] \in {"ok", "rejected"} /\ call[r].op \in {"delete", "fake_delete"}
            => \A i \in call[r].batch : ~Live(row[i])

\* A create is refused only for a live row of the same name or for a company
\* that is gone: a deleted row does not block its name.
RefusedCreateIsJustified ==
    [][\A r \in Requests :
          call[r].op = "create" /\ pc[r] = "insert" /\ pc'[r] = "rejected"
            => \/ \E i \in Ids : Live(row[i]) /\ row[i].name = call[r].name
               \/ call[r].company \notin companies]_vars

\* A deletion fails with an exception nobody expected only if the row is gone,
\* or if another row of its name was deleted in the very second it began, or is
\* deleted by the same statement: neither an older tombstone of the name nor a
\* live row stops it.
DeletionFailsOnlyInItsSecond ==
    [][\A r \in Requests :
          pc[r] \in {"save", "delete"} /\ pc'[r] = "error"
            => \/ call[r].op = "fake_delete" /\ row[call[r].id] = Null
               \/ \E i \in call[r].batch, j \in Ids :
                     /\ i # j /\ row[i] # Null /\ row[j] # Null
                     /\ row[i].name = row[j].name
                     /\ row[j].deleted_at = stamp[r] \/ j \in call[r].batch]_vars

\* The rows do what RowTable promises: no interleaving of statements shows a
\* caller a table that no sequence of whole operations could have produced.
KeyOf(v, inserted) ==
    [stage |-> IF ~inserted THEN "free"
               ELSE IF v = Null THEN "gone"
               ELSE IF Live(v) THEN "live" ELSE "deleted",
     name |-> IF v = Null THEN Null ELSE v.name]
Table == INSTANCE RowTable WITH
    None <- Null,
    key <- [i \in Ids |-> KeyOf(row[i], i \in used)]
ImplementsRowTable == Table!Spec

=============================================================================

----------------------------- MODULE CrudProofs -----------------------------
(***************************************************************************)
(* What Crud promises for every value of its constants: any number of      *)
(* concurrent calls, keys, names, companies and related rows.  First the   *)
(* types, then the rows and the calls, that Crud implements RowTable, the  *)
(* relation's links, and the answers.                                      *)
(***************************************************************************)
EXTENDS Crud, TLAPS

-----------------------------------------------------------------------------
(* The invariant.  TypeOK is not inductive alone: a call must have the key *)
(* and the data of the statement it is about to execute.                   *)

\* The statements that name a row by its key.
ByKey == {"get", "update", "clear", "link", "add", "refresh", "stamp", "save"}

\* A call that is about to name a row has a key that was inserted once.
KeyKnown ==
    \A r \in Requests :
        /\ call[r].batch \subseteq used
        /\ call[r].id \in used \union {Null}
        /\ pc[r] \in ByKey => call[r].id \in used
        /\ pc[r] \in {"check_company", "check_tags"} /\ call[r].op # "create"
               => call[r].id \in used

\* A create has every column until it has inserted them.
CreateComplete ==
    \A r \in Requests :
        /\ pc[r] = "insert" => call[r].op = "create"
        /\ call[r].op = "create" /\ pc[r] \in {"check_company", "check_tags", "insert"}
               => call[r].name \in Names /\ call[r].company \in Companies

\* An instance is loaded before it is stamped.
InstanceRead == \A r \in Requests : pc[r] = "stamp" => obj[r] \in Row

\* A row has a key that was inserted.
RowsUsed == \A i \in Ids : row[i] # Null => i \in used

Shape == KeyKnown /\ CreateComplete /\ InstanceRead /\ RowsUsed

-----------------------------------------------------------------------------
(* The operators the actions are built from. *)

\* A statement that writes rows and links of the right types keeps the types
\* of the table, of the through table and of touched.
LEMMA WriteType ==
    ASSUME TypeOK, NEW r, NEW newRow \in [Ids -> Row \union {Null}],
           NEW newLinks \in SUBSET (Ids \X Tags), NEW own,
           Write(r, newRow, newLinks, own)
    PROVE  /\ row' \in [Ids -> Row \union {Null}]
           /\ links' \in SUBSET (Ids \X Tags)
           /\ touched' \in [Requests -> SUBSET {"row", "links"}]
BY DEF Write, TypeOK, RowTypeOK

\* kwargs_clean leads to one of its own lookups or to the first statement of
\* the function, which for a create is the INSERT and for nothing else.
LEMMA CleanEnds ==
    ASSUME NEW c \in Call
    PROVE  /\ Clean(c) \in {"check_company", "check_tags", FirstWrite(c)}
           /\ AfterCompany(c) \in {"check_tags", FirstWrite(c)}
           /\ FirstWrite(c) \in {"insert", "update", "clear", "refresh"}
           /\ FirstWrite(c) = "insert" <=> c.op = "create"
           /\ AfterUpdate(c) \in {"clear", "refresh"}
BY DEF Clean, AfterCompany, FirstWrite, AfterUpdate, Call

\* kwargs_clean looks up related rows only.
LEMMA RelatedTags == ASSUME NEW c \in Call PROVE Related(c) \in SUBSET Tags
BY DEF Related, HasTags, Call

\* The calls of the four functions have the type of calls.
LEMMA NoCallType == NoCall \in Call
BY DEF NoCall, Call

\* The key of an inserted row goes into the call.
LEMMA SetId ==
    ASSUME NEW c \in Call, NEW i \in Ids
    PROVE  /\ [c EXCEPT !.id = i] \in Call
           /\ [c EXCEPT !.id = i].id = i
           /\ [c EXCEPT !.id = i].op = c.op
           /\ [c EXCEPT !.id = i].batch = c.batch
           /\ [c EXCEPT !.id = i].name = c.name
           /\ [c EXCEPT !.id = i].company = c.company
           /\ [c EXCEPT !.id = i].tags = c.tags
BY DEF Call

\* Writing the columns of data over a row gives a row that is as live as it
\* was, provided the company is one.
LEMMA OverwriteRow ==
    ASSUME NEW v \in Row, NEW c \in Call
    PROVE  /\ Overwrite(v, c).deleted_at = v.deleted_at
           /\ Overwrite(v, c).company \in Companies => Overwrite(v, c) \in Row
BY DEF Overwrite, Row, Call

\* Stamping a row gives a row.
LEMMA RestampRow ==
    ASSUME NEW v \in Row, NEW t \in Nat
    PROVE  /\ [v EXCEPT !.deleted_at = t] \in Row
           /\ [v EXCEPT !.deleted_at = t].deleted_at = t
           /\ [v EXCEPT !.deleted_at = t].name = v.name
BY DEF Row

\* Deleting rows keeps the types of the table and of the through table.
LEMMA WithoutType ==
    ASSUME TypeOK, NEW b
    PROVE  /\ Without(b) \in [Ids -> Row \union {Null}]
           /\ Unlinked(b) \in SUBSET (Ids \X Tags)
BY DEF Without, Unlinked, TypeOK, RowTypeOK

-----------------------------------------------------------------------------
\* Initially the types are right and no call runs.
LEMMA InitTypeOK == Init => TypeOK /\ Shape
BY NoCallType DEF Init, TypeOK, RowTypeOK, Shape, KeyKnown, CreateComplete,
    InstanceRead, RowsUsed, ByKey, NoCall, Waiting

\* Every step keeps the types and the shape of the calls.  The steps that start
\* a call share Begin; those that write share Write; the others leave the
\* database alone.
LEMMA NextTypeOK ==
    ASSUME TypeOK, Shape, [Next]_vars
    PROVE  TypeOK' /\ Shape'
<1> USE DEF ByKey, Waiting, Done
<1>1. ASSUME NEW r \in Requests, CallCreate(r) PROVE TypeOK' /\ Shape'
  <2>1. PICK n \in Names, c \in Companies, ts \in SUBSET Tags :
          LET a == [NoCall EXCEPT !.name = n, !.company = c, !.tags = ts]
          IN  Begin(r, a, Clean(a)) /\ UNCHANGED stamp
    BY <1>1 DEF CallCreate
  <2> DEFINE a == [NoCall EXCEPT !.name = n, !.company = c, !.tags = ts]
  <2>2. /\ a \in Call
        /\ a.op = "create" /\ a.id = Null /\ a.batch = {}
        /\ a.name = n /\ a.company = c
    BY DEF NoCall, Call
  <2>3. Begin(r, a, Clean(a)) /\ UNCHANGED stamp
    BY <2>1
  <2>4. Clean(a) \in {"check_company", "check_tags", "insert"}
    BY <2>2, CleanEnds
  <2>5. Related(a) \in SUBSET Tags
    BY <2>2, RelatedTags
  <2> HIDE DEF a
  <2>6. TypeOK'
    BY <2>2, <2>3, <2>4, <2>5 DEF TypeOK, RowTypeOK, Begin, Goto, NoWrite, env
  <2>7. Shape'
    BY <2>2, <2>3, <2>4 DEF TypeOK, Shape, KeyKnown, CreateComplete, InstanceRead,
        RowsUsed, Begin, Goto, NoWrite, env
  <2> QED BY <2>6, <2>7
<1>2. ASSUME NEW r \in Requests, CallUpdate(r) PROVE TypeOK' /\ Shape'
  <2>1. PICK a \in Call : /\ Begin(r, a, "get") /\ UNCHANGED stamp
                          /\ a.op = "update" /\ a.id \in used /\ a.batch = {}
    <3>1. PICK i \in used, n \in Names \union {Unset},
               c \in Companies \union {Unset, Null}, ts \in {Unset, Null} \union SUBSET Tags :
            /\ Begin(r, [op |-> "update", id |-> i, batch |-> {},
                         name |-> n, company |-> c, tags |-> ts], "get")
            /\ UNCHANGED stamp
      BY <1>2 DEF CallUpdate
    <3>2. [op |-> "update", id |-> i, batch |-> {},
           name |-> n, company |-> c, tags |-> ts] \in Call
      BY DEF Call, TypeOK
    <3> QED BY <3>1, <3>2
  <2>2. Related(a) \in SUBSET Tags
    BY RelatedTags
  <2>3. TypeOK'
    BY <2>1, <2>2 DEF TypeOK, RowTypeOK, Begin, Goto, NoWrite, env
  <2>4. Shape'
    BY <2>1 DEF TypeOK, Shape, KeyKnown, CreateComplete, InstanceRead,
        RowsUsed, Begin, Goto, NoWrite, env
  <2> QED BY <2>3, <2>4
<1>3. ASSUME NEW r \in Requests, CallDelete(r) PROVE TypeOK' /\ Shape'
  <2>1. PICK a \in Call : /\ Begin(r, a, "delete") /\ stamp' = [stamp EXCEPT ![r] = clock]
                          /\ a.op = "delete" /\ a.id = Null /\ a.batch \subseteq used
    <3>1. PICK b \in SUBSET used \ {{}} :
            /\ Begin(r, [NoCall EXCEPT !.op = "delete", !.batch = b], "delete")
            /\ stamp' = [stamp EXCEPT ![r] = clock]
      BY <1>3 DEF CallDelete
    <3> DEFINE a == [NoCall EXCEPT !.op = "delete", !.batch = b]
    <3>2. /\ a \in Call
          /\ a.op = "delete" /\ a.id = Null /\ a.batch = b
      BY DEF NoCall, Call, TypeOK
    <3> HIDE DEF a
    <3>3. Begin(r, a, "delete") /\ stamp' = [stamp EXCEPT ![r] = clock]
      BY <3>1 DEF a
    <3> QED BY <3>2, <3>3
  <2>2. Related(a) \in SUBSET Tags
    BY RelatedTags
  <2>3. TypeOK'
    BY <2>1, <2>2 DEF TypeOK, RowTypeOK, Begin, Goto, NoWrite, env
  <2>4. Shape'
    BY <2>1 DEF TypeOK, Shape, KeyKnown, CreateComplete, InstanceRead,
        RowsUsed, Begin, Goto, NoWrite, env
  <2> QED BY <2>3, <2>4
<1>4. ASSUME NEW r \in Requests, CallFakeDelete(r) PROVE TypeOK' /\ Shape'
  <2>1. PICK a \in Call : /\ Begin(r, a, "get") /\ UNCHANGED stamp
                          /\ a.op = "fake_delete" /\ a.id \in used /\ a.batch \subseteq used
    <3>1. PICK i \in used :
            /\ Begin(r, [NoCall EXCEPT !.op = "fake_delete", !.id = i, !.batch = {i}], "get")
            /\ UNCHANGED stamp
      BY <1>4 DEF CallFakeDelete
    <3> DEFINE a == [NoCall EXCEPT !.op = "fake_delete", !.id = i, !.batch = {i}]
    <3>2. /\ a \in Call
          /\ a.op = "fake_delete" /\ a.id = i /\ a.batch = {i}
      BY DEF NoCall, Call, TypeOK
    <3> HIDE DEF a
    <3>3. Begin(r, a, "get") /\ UNCHANGED stamp
      BY <3>1 DEF a
    <3> QED BY <3>2, <3>3
  <2>2. Related(a) \in SUBSET Tags
    BY RelatedTags
  <2>3. TypeOK'
    BY <2>1, <2>2 DEF TypeOK, RowTypeOK, Begin, Goto, NoWrite, env
  <2>4. Shape'
    BY <2>1 DEF TypeOK, Shape, KeyKnown, CreateComplete, InstanceRead,
        RowsUsed, Begin, Goto, NoWrite, env
  <2> QED BY <2>3, <2>4
<1>5. ASSUME NEW r \in Requests, Get(r) PROVE TypeOK' /\ Shape'
  <2>1. call[r] \in Call /\ row[call[r].id] \in Row \union {Null}
    BY <1>5 DEF Get, TypeOK, RowTypeOK, Shape, KeyKnown
  <2>2. \/ /\ row[call[r].id] = Null /\ pc' = [pc EXCEPT ![r] = "rejected"]
        \/ /\ row[call[r].id] \in Row /\ pc' = [pc EXCEPT ![r] = "stamp"]
        \/ /\ call[r].op = "update" /\ pc' = [pc EXCEPT ![r] = Clean(call[r])]
        \/ pc' = [pc EXCEPT ![r] = "fetch"]
    BY <1>5, <2>1 DEF Get, Goto
  <2>3. /\ Clean(call[r]) \in Waiting
        /\ call[r].op = "update" => Clean(call[r]) # "insert"
        /\ Clean(call[r]) # "stamp"
    BY <2>1, CleanEnds
  <2>4. TypeOK'
    BY <1>5, <2>1, <2>2, <2>3 DEF TypeOK, RowTypeOK, Get, NoWrite, env
  <2>5. Shape'
    BY <1>5, <2>1, <2>2, <2>3 DEF TypeOK, Shape, KeyKnown, CreateComplete,
        InstanceRead, RowsUsed, Get, NoWrite, env
  <2> QED BY <2>4, <2>5
<1>6. ASSUME NEW r \in Requests, CheckCompany(r) PROVE TypeOK' /\ Shape'
  <2>1. call[r] \in Call
    BY DEF TypeOK
  <2>2. \/ pc' = [pc EXCEPT ![r] = AfterCompany(call[r])]
        \/ pc' = [pc EXCEPT ![r] = "rejected"]
    BY <1>6 DEF CheckCompany, Goto
  <2>3. AfterCompany(call[r]) \in Waiting /\ AfterCompany(call[r]) # "stamp"
    BY <2>1, CleanEnds
  <2>4. TypeOK'
    BY <1>6, <2>2, <2>3 DEF TypeOK, RowTypeOK, CheckCompany, NoWrite, env, locals
  <2>5. Shape'
    BY <1>6, <2>1, <2>2, <2>3, CleanEnds DEF TypeOK, Shape, KeyKnown, CreateComplete,
        InstanceRead, RowsUsed, CheckCompany, NoWrite, env, locals
  <2> QED BY <2>4, <2>5
<1>7. ASSUME NEW r \in Requests, CheckTag(r) PROVE TypeOK' /\ Shape'
  <2>1. call[r] \in Call
    BY DEF TypeOK
  <2>2. \/ pc' = [pc EXCEPT ![r] = FirstWrite(call[r])]
        \/ pc' = [pc EXCEPT ![r] = "rejected"]
        \/ pc' = [pc EXCEPT ![r] = "check_tags"]
    BY <1>7 DEF CheckTag, Goto
  <2>3. FirstWrite(call[r]) \in Waiting /\ FirstWrite(call[r]) # "stamp"
    BY <2>1, CleanEnds
  <2>4. TypeOK'
    BY <1>7, <2>2, <2>3 DEF TypeOK, RowTypeOK, CheckTag, NoWrite, env
  <2>5. Shape'
    BY <1>7, <2>1, <2>2, <2>3, CleanEnds DEF TypeOK, Shape, KeyKnown, CreateComplete,
        InstanceRead, RowsUsed, CheckTag, NoWrite, env
  <2> QED BY <2>4, <2>5
<1>8. ASSUME NEW r \in Requests, Insert(r) PROVE TypeOK' /\ Shape'
  <2> DEFINE v == [name |-> call[r].name, company |-> call[r].company,
                   deleted_at |-> ToDbValue(Null)]
  <2>1. v \in Row
    BY <1>8 DEF Insert, Shape, CreateComplete, Row, ToDbValue
  <2>2. PICK i \in Ids \ used :
          LET new == [row EXCEPT ![i] = v] IN
             IF Duplicate(new) \/ call[r].company \notin companies
             THEN Goto(r, "rejected") /\ NoWrite /\ UNCHANGED <<call, obj>>
             ELSE /\ Write(r, new, links, {"row", "links"})
                  /\ used' = used \union {i}
                  /\ call' = [call EXCEPT ![r].id = i]
                  /\ obj' = [obj EXCEPT ![r] = v]
                  /\ Affect(r, {"insert"})
                  /\ Goto(r, IF HasTags(call[r]) /\ call[r].tags # {}
                             THEN "link" ELSE "fetch")
    BY <1>8 DEF Insert
  <2>3. pc[r] = "insert" /\ UNCHANGED <<companies, tags, clock, todo, stamp>>
    BY <1>8 DEF Insert, env
  <2> DEFINE new == [row EXCEPT ![i] = v]
  <2>4. new \in [Ids -> Row \union {Null}] /\ new[i] = v
        /\ \A j \in Ids \ {i} : new[j] = row[j]
    BY <2>1 DEF TypeOK, RowTypeOK
  <2> HIDE DEF v, new
  <2>5. CASE Goto(r, "rejected") /\ NoWrite /\ UNCHANGED <<call, obj>>
    BY <2>3, <2>5 DEF TypeOK, RowTypeOK, Shape, KeyKnown, CreateComplete,
        InstanceRead, RowsUsed, Goto, NoWrite
  <2>6. CASE /\ Write(r, new, links, {"row", "links"})
             /\ used' = used \union {i}
             /\ call' = [call EXCEPT ![r].id = i]
             /\ obj' = [obj EXCEPT ![r] = v]
             /\ Affect(r, {"insert"})
             /\ Goto(r, IF HasTags(call[r]) /\ call[r].tags # {} THEN "link" ELSE "fetch")
    <3>1. row' = new /\ links' = links
      BY <2>6 DEF Write
    <3>2. touched' \in [Requests -> SUBSET {"row", "links"}]
      BY <2>4, <2>6, WriteType DEF TypeOK
    <3>3. effects' \in [Requests ->
              SUBSET {"insert", "update", "clear", "link", "delete", "restamp"}]
      BY <2>6 DEF Affect, TypeOK
    <3>4. /\ call' \in [Requests -> Call]
          /\ call'[r] = [call[r] EXCEPT !.id = i]
          /\ \A s \in Requests \ {r} : call'[s] = call[s]
      <4>1. call[r] \in Call /\ [call[r] EXCEPT !.id = i] \in Call
        BY SetId DEF TypeOK
      <4>2. call' = [call EXCEPT ![r] = [call[r] EXCEPT !.id = i]]
        BY <2>6
      <4> QED BY <4>1, <4>2 DEF TypeOK
    <3>5. call'[r].id = i /\ call'[r].op = call[r].op /\ call'[r].batch = call[r].batch
      BY <3>4, SetId DEF TypeOK
    <3>6. \/ pc' = [pc EXCEPT ![r] = "link"]
          \/ pc' = [pc EXCEPT ![r] = "fetch"]
      BY <2>6 DEF Goto
    <3>7. TypeOK'
      BY <2>1, <2>3, <2>4, <2>6, <3>1, <3>2, <3>3, <3>4, <3>6 DEF TypeOK, RowTypeOK
    <3>8. KeyKnown'
      BY <2>6, <3>4, <3>5, <3>6 DEF TypeOK, Shape, KeyKnown
    <3>9. CreateComplete' /\ InstanceRead'
      BY <2>3, <2>6, <3>4, <3>5, <3>6 DEF TypeOK, Shape, CreateComplete, InstanceRead
    <3>10. RowsUsed'
      BY <2>4, <2>6, <3>1 DEF Shape, RowsUsed
    <3> QED BY <3>7, <3>8, <3>9, <3>10 DEF Shape
  <2> QED BY <2>2, <2>5, <2>6 DEF v, new
<1>9. ASSUME NEW r \in Requests, UpdateRow(r) PROVE TypeOK' /\ Shape'
  <2> DEFINE i == call[r].id
             v == Overwrite(row[i], call[r])
             new == [row EXCEPT ![i] = v]
  <2>1. call[r] \in Call /\ i \in used /\ i \in Ids /\ pc[r] = "update"
    BY <1>9 DEF UpdateRow, TypeOK, Shape, KeyKnown
  <2>2. AfterUpdate(call[r]) \in {"clear", "refresh"}
    BY <2>1, CleanEnds
  <2>3. UNCHANGED <<used, companies, tags, clock, call, obj, todo, stamp>>
    BY <1>9 DEF UpdateRow, env, locals, NoWrite
  <2>4. \/ NoWrite /\ Goto(r, AfterUpdate(call[r]))
        \/ NoWrite /\ Goto(r, "rejected")
        \/ /\ row[i] # Null /\ v.company \in companies
           /\ Write(r, new, links, {"row"})
           /\ Affect(r, {"update"}) /\ Goto(r, AfterUpdate(call[r]))
    BY <1>9 DEF UpdateRow
  <2>5. CASE NoWrite /\ (Goto(r, AfterUpdate(call[r])) \/ Goto(r, "rejected"))
    BY <2>1, <2>2, <2>3, <2>5 DEF TypeOK, RowTypeOK, Shape, KeyKnown, CreateComplete,
        InstanceRead, RowsUsed, Goto, NoWrite
  <2>6. CASE /\ row[i] # Null /\ v.company \in companies
             /\ Write(r, new, links, {"row"})
             /\ Affect(r, {"update"}) /\ Goto(r, AfterUpdate(call[r]))
    <3>1. v \in Row
      <4>1. row[i] \in Row /\ v.company \in Companies
        BY <2>1, <2>6 DEF TypeOK, RowTypeOK
      <4> QED BY <2>1, <4>1, OverwriteRow
    <3>2. new \in [Ids -> Row \union {Null}] /\ \A j \in Ids \ {i} : new[j] = row[j]
      BY <3>1 DEF TypeOK, RowTypeOK
    <3> HIDE DEF v, new
    <3>3. /\ row' = new /\ links' = links
          /\ touched' \in [Requests -> SUBSET {"row", "links"}]
      BY <2>6, <3>2, WriteType DEF Write, TypeOK
    <3>4. TypeOK'
      BY <2>2, <2>3, <2>6, <3>2, <3>3 DEF TypeOK, RowTypeOK, Affect, Goto
    <3>5. RowsUsed'
      BY <2>1, <2>3, <3>2, <3>3 DEF Shape, RowsUsed
    <3>6. KeyKnown' /\ CreateComplete' /\ InstanceRead'
      BY <2>1, <2>2, <2>3, <2>6 DEF TypeOK, Shape, KeyKnown, CreateComplete,
          InstanceRead, Goto
    <3> QED BY <3>4, <3>5, <3>6 DEF Shape
  <2> QED BY <2>4, <2>5, <2>6
<1>10. ASSUME NEW r \in Requests, Clear(r) PROVE TypeOK' /\ Shape'
  <2>1. call[r].id \in used /\ pc[r] = "clear"
    BY <1>10 DEF Clear, Shape, KeyKnown
  <2>2. UNCHANGED <<used, companies, tags, clock, call, obj, todo, stamp>>
    BY <1>10 DEF Clear, env, locals
  <2>3. /\ row' = row /\ links' \in SUBSET (Ids \X Tags)
        /\ touched' \in [Requests -> SUBSET {"row", "links"}]
    <3>1. {l \in links : l[1] # call[r].id} \in SUBSET (Ids \X Tags)
      BY DEF TypeOK
    <3> QED BY <1>10, <3>1, WriteType DEF Clear, Write, TypeOK, RowTypeOK
  <2>4. \/ pc' = [pc EXCEPT ![r] = "refresh"]
        \/ pc' = [pc EXCEPT ![r] = "link"]
    BY <1>10 DEF Clear, Goto
  <2>5. effects' = [effects EXCEPT ![r] = @ \union {"clear"}] \/ effects' = [effects EXCEPT ![r] = @ \union {}]
    BY <1>10 DEF Clear, Affect
  <2>6. TypeOK'
    BY <2>2, <2>3, <2>4, <2>5 DEF TypeOK, RowTypeOK
  <2>7. Shape'
    BY <2>1, <2>2, <2>3, <2>4 DEF TypeOK, Shape, KeyKnown, CreateComplete,
        InstanceRead, RowsUsed
  <2> QED BY <2>6, <2>7
<1>25. ASSUME NEW r \in Requests, FindLinks(r) PROVE TypeOK' /\ Shape'
  <2>1. call[r].id \in used /\ pc[r] = "link"
    BY <1>25 DEF FindLinks, Shape, KeyKnown
  <2>2. UNCHANGED <<row, used, links, effects, touched, companies, tags, clock, call, obj, stamp>>
    BY <1>25 DEF FindLinks, NoWrite, env
  <2>3. PICK s \in {"add", "fetch", "refresh"} : pc' = [pc EXCEPT ![r] = s]
    BY <1>25 DEF FindLinks, Goto, AfterLink
  <2>4. todo' \in [Requests -> SUBSET Tags]
    <3>1. Related(call[r]) \in SUBSET Tags
      BY RelatedTags DEF TypeOK
    <3> QED BY <1>25, <3>1 DEF FindLinks, TypeOK
  <2>5. TypeOK'
    BY <2>2, <2>3, <2>4 DEF TypeOK, RowTypeOK
  <2>6. Shape'
    BY <2>1, <2>2, <2>3 DEF TypeOK, Shape, KeyKnown, CreateComplete,
        InstanceRead, RowsUsed
  <2> QED BY <2>5, <2>6
<1>11. ASSUME NEW r \in Requests, Link(r) PROVE TypeOK' /\ Shape'
  <2>1. call[r].id \in used /\ pc[r] = "add"
    BY <1>11 DEF Link, Shape, KeyKnown
  <2>2. UNCHANGED <<used, companies, tags, clock, call, obj, todo, stamp>>
    BY <1>11 DEF Link, NoWrite, env, locals
  <2>3. /\ row' = row /\ links' \in SUBSET (Ids \X Tags)
        /\ touched' \in [Requests -> SUBSET {"row", "links"}]
    <3>1. links \union ({call[r].id} \X todo[r]) \in SUBSET (Ids \X Tags)
      BY <2>1 DEF TypeOK
    <3>2. CASE NoWrite
      BY <3>2 DEF NoWrite, TypeOK
    <3>3. CASE Write(r, row, links \union ({call[r].id} \X todo[r]), {})
      BY <3>1, <3>3, WriteType DEF Write, TypeOK, RowTypeOK
    <3> QED BY <1>11, <3>2, <3>3 DEF Link
  <2>4. \E s \in {"error", "fetch", "refresh"} : pc' = [pc EXCEPT ![r] = s]
    BY <1>11 DEF Link, Goto, AfterLink
  <2>5. effects' = [effects EXCEPT ![r] = @ \union {"link"}] \/ effects' = effects
    BY <1>11 DEF Link, Affect, NoWrite
  <2>6. TypeOK'
    BY <2>2, <2>3, <2>4, <2>5 DEF TypeOK, RowTypeOK
  <2>7. Shape'
    BY <2>1, <2>2, <2>3, <2>4 DEF TypeOK, Shape, KeyKnown, CreateComplete,
        InstanceRead, RowsUsed
  <2> QED BY <2>6, <2>7
<1>12. ASSUME NEW r \in Requests, Refresh(r) PROVE TypeOK' /\ Shape'
  <2>1. call[r].id \in used /\ pc[r] = "refresh"
    BY <1>12 DEF Refresh, Shape, KeyKnown
  <2>2. TypeOK'
    BY <1>12, <2>1 DEF TypeOK, RowTypeOK, Refresh, Goto, NoWrite, env
  <2>3. Shape'
    BY <1>12, <2>1 DEF TypeOK, Shape, KeyKnown, CreateComplete, InstanceRead,
        RowsUsed, Refresh, Goto, NoWrite, env
  <2> QED BY <2>2, <2>3
<1>13. ASSUME NEW r \in Requests, Fetch(r) PROVE TypeOK' /\ Shape'
  <2>1. /\ \E s \in Done : pc' = [pc EXCEPT ![r] = s]
        /\ UNCHANGED <<row, used, companies, tags, links, clock,
                       call, obj, todo, stamp, effects, touched>>
    BY <1>13 DEF Fetch, Goto, NoWrite, env, locals
  <2>2. TypeOK'
    BY <2>1 DEF TypeOK, RowTypeOK
  <2>3. Shape'
    BY <2>1 DEF TypeOK, Shape, KeyKnown, CreateComplete, InstanceRead, RowsUsed
  <2> QED BY <2>2, <2>3
<1>14. ASSUME NEW r \in Requests, Stamp(r) PROVE TypeOK' /\ Shape'
  <2>1. obj' \in [Requests -> Row \union {Null}]
    <3>1. obj[r] \in Row /\ [obj[r] EXCEPT !.deleted_at = clock] \in Row
      BY <1>14 DEF Stamp, Shape, InstanceRead, TypeOK, Row
    <3>2. obj' = [obj EXCEPT ![r] = [obj[r] EXCEPT !.deleted_at = clock]]
      BY <1>14 DEF Stamp
    <3> QED BY <3>1, <3>2 DEF TypeOK
  <2>2. TypeOK'
    BY <1>14, <2>1 DEF TypeOK, RowTypeOK, Stamp, Goto, NoWrite, env
  <2>3. call[r].id \in used /\ \A s \in Requests \ {r} : obj'[s] = obj[s]
    BY <1>14 DEF Stamp, Shape, KeyKnown, TypeOK
  <2>4. Shape'
    BY <1>14, <2>3 DEF TypeOK, Shape, KeyKnown, CreateComplete, InstanceRead,
        RowsUsed, Stamp, Goto, NoWrite, env
  <2> QED BY <2>2, <2>4
<1>15. ASSUME NEW r \in Requests, Save(r) PROVE TypeOK' /\ Shape'
  <2> DEFINE i == call[r].id
             new == [row EXCEPT ![i].deleted_at = stamp[r]]
  <2>1. i \in used /\ i \in Ids /\ pc[r] = "save"
    BY <1>15 DEF Save, TypeOK, Shape, KeyKnown
  <2>2. UNCHANGED <<used, companies, tags, clock, call, obj, todo, stamp>>
    BY <1>15 DEF Save, NoWrite, env, locals
  <2>3. \/ Goto(r, "error") /\ NoWrite
        \/ /\ row[i] # Null /\ Write(r, new, links, {"row"})
           /\ Affect(r, StampEffects({i})) /\ Goto(r, "ok")
    BY <1>15 DEF Save
  <2>4. CASE Goto(r, "error") /\ NoWrite
    BY <2>1, <2>2, <2>4 DEF TypeOK, RowTypeOK, Shape, KeyKnown, CreateComplete,
        InstanceRead, RowsUsed, Goto, NoWrite
  <2>5. CASE /\ row[i] # Null /\ Write(r, new, links, {"row"})
             /\ Affect(r, StampEffects({i})) /\ Goto(r, "ok")
    <3>1. /\ new = [row EXCEPT ![i] = [row[i] EXCEPT !.deleted_at = stamp[r]]]
          /\ [row[i] EXCEPT !.deleted_at = stamp[r]] \in Row
      BY <2>1, <2>5, RestampRow DEF TypeOK, RowTypeOK
    <3>2. new \in [Ids -> Row \union {Null}] /\ \A j \in Ids \ {i} : new[j] = row[j]
      BY <3>1 DEF TypeOK, RowTypeOK
    <3> HIDE DEF new
    <3>3. /\ row' = new /\ links' = links
          /\ touched' \in [Requests -> SUBSET {"row", "links"}]
      BY <2>5, <3>2, WriteType DEF Write, TypeOK
    <3>4. TypeOK'
      BY <2>2, <2>5, <3>2, <3>3 DEF TypeOK, RowTypeOK, Affect, Goto, StampEffects
    <3>5. RowsUsed'
      BY <2>1, <2>2, <3>2, <3>3 DEF Shape, RowsUsed
    <3>6. KeyKnown' /\ CreateComplete' /\ InstanceRead'
      BY <2>1, <2>2, <2>5 DEF TypeOK, Shape, KeyKnown, CreateComplete,
          InstanceRead, Goto
    <3> QED BY <3>4, <3>5, <3>6 DEF Shape
  <2> QED BY <2>3, <2>4, <2>5
<1>16. ASSUME NEW r \in Requests, SoftDelete(r) PROVE TypeOK' /\ Shape'
  <2> DEFINE hit == {i \in call[r].batch : row[i] # Null /\ row[i].deleted_at # stamp[r]}
             new == [i \in Ids |-> IF i \in hit THEN [row[i] EXCEPT !.deleted_at = stamp[r]]
                                   ELSE row[i]]
  <2>1. pc[r] = "delete" /\ UNCHANGED <<used, companies, tags, clock, call, obj, todo, stamp>>
    BY <1>16 DEF SoftDelete, NoWrite, env, locals
  <2>2. \/ (Goto(r, "rejected") \/ Goto(r, "error")) /\ NoWrite
        \/ /\ Write(r, new, links, {})
           /\ Affect(r, StampEffects(hit)) /\ Goto(r, "ok")
    BY <1>16 DEF SoftDelete
  <2>3. CASE (Goto(r, "rejected") \/ Goto(r, "error")) /\ NoWrite
    BY <2>1, <2>3 DEF TypeOK, RowTypeOK, Shape, KeyKnown, CreateComplete,
        InstanceRead, RowsUsed, Goto, NoWrite
  <2>4. CASE /\ Write(r, new, links, {})
             /\ Affect(r, StampEffects(hit)) /\ Goto(r, "ok")
    <3>1. \A i \in Ids : new[i] \in Row \union {Null} /\ (new[i] # Null => row[i] # Null)
      BY RestampRow DEF TypeOK, RowTypeOK
    <3>2. new \in [Ids -> Row \union {Null}]
      BY <3>1
    <3> HIDE DEF new, hit
    <3>3. /\ row' = new /\ links' = links
          /\ touched' \in [Requests -> SUBSET {"row", "links"}]
      BY <2>4, <3>2, WriteType DEF Write, TypeOK
    <3>4. TypeOK'
      BY <2>1, <2>4, <3>2, <3>3 DEF TypeOK, RowTypeOK, Affect, Goto, StampEffects
    <3>5. RowsUsed'
      BY <2>1, <3>1, <3>3 DEF Shape, RowsUsed
    <3>6. KeyKnown' /\ CreateComplete' /\ InstanceRead'
      BY <2>1, <2>4 DEF TypeOK, Shape, KeyKnown, CreateComplete, InstanceRead, Goto
    <3> QED BY <3>4, <3>5, <3>6 DEF Shape
  <2> QED BY <2>2, <2>3, <2>4
<1>17. ASSUME NEW r \in Requests, HardDelete(r) PROVE TypeOK' /\ Shape'
  <2> DEFINE hit == {i \in call[r].batch : row[i] # Null}
  <2>1. pc[r] = "delete" /\ UNCHANGED <<used, companies, tags, clock, call, obj, todo, stamp>>
    BY <1>17 DEF HardDelete, NoWrite, env, locals
  <2>2. \/ Goto(r, "rejected") /\ NoWrite
        \/ /\ Write(r, Without(hit), Unlinked(hit), {})
           /\ Affect(r, {"delete"}) /\ Goto(r, "ok")
    BY <1>17 DEF HardDelete
  <2>3. CASE Goto(r, "rejected") /\ NoWrite
    BY <2>1, <2>3 DEF TypeOK, RowTypeOK, Shape, KeyKnown, CreateComplete,
        InstanceRead, RowsUsed, Goto, NoWrite
  <2>4. CASE /\ Write(r, Without(hit), Unlinked(hit), {})
             /\ Affect(r, {"delete"}) /\ Goto(r, "ok")
    <3> HIDE DEF hit
    <3>1. /\ row' = Without(hit) /\ Without(hit) \in [Ids -> Row \union {Null}]
          /\ links' \in SUBSET (Ids \X Tags)
          /\ touched' \in [Requests -> SUBSET {"row", "links"}]
      <4>1. /\ Without(hit) \in [Ids -> Row \union {Null}]
            /\ Unlinked(hit) \in SUBSET (Ids \X Tags)
        BY WithoutType
      <4>2. row' = Without(hit) /\ links' = Unlinked(hit)
        BY <2>4 DEF Write
      <4>3. touched' \in [Requests -> SUBSET {"row", "links"}]
        BY <2>4, <4>1, WriteType
      <4> QED BY <4>1, <4>2, <4>3
    <3>2. TypeOK'
      BY <2>1, <2>4, <3>1 DEF TypeOK, RowTypeOK, Affect, Goto
    <3>3. RowsUsed'
      BY <2>1, <3>1 DEF Shape, RowsUsed, Without
    <3>4. KeyKnown' /\ CreateComplete' /\ InstanceRead'
      BY <2>1, <2>4 DEF TypeOK, Shape, KeyKnown, CreateComplete, InstanceRead, Goto
    <3> QED BY <3>2, <3>3, <3>4 DEF Shape
  <2> QED BY <2>2, <2>3, <2>4
<1>18. ASSUME NEW r \in Requests, Leave(r) PROVE TypeOK' /\ Shape'
  <2>1. TypeOK'
    BY <1>18, NoCallType DEF TypeOK, RowTypeOK, Leave, Goto, env
  <2>2. Shape'
    BY <1>18 DEF TypeOK, Shape, KeyKnown, CreateComplete, InstanceRead,
        RowsUsed, Leave, Goto, NoCall
  <2> QED BY <2>1, <2>2
<1>19. CASE Tick
  BY <1>19 DEF TypeOK, RowTypeOK, Shape, KeyKnown, CreateComplete, InstanceRead,
      RowsUsed, Tick, NoWrite, locals
<1>20. ASSUME NEW b \in SUBSET Ids,
              Write(Null, Without(b), Unlinked(b), {}),
              companies' \subseteq companies,
              UNCHANGED <<used, tags, clock, pc, locals, effects>>
       PROVE  TypeOK' /\ Shape'
  <2>1. /\ row' = Without(b) /\ Without(b) \in [Ids -> Row \union {Null}]
        /\ links' \in SUBSET (Ids \X Tags)
        /\ touched' \in [Requests -> SUBSET {"row", "links"}]
    <3>1. /\ Without(b) \in [Ids -> Row \union {Null}]
          /\ Unlinked(b) \in SUBSET (Ids \X Tags)
      BY WithoutType
    <3>2. row' = Without(b) /\ links' = Unlinked(b)
      BY <1>20 DEF Write
    <3>3. touched' \in [Requests -> SUBSET {"row", "links"}]
      BY <1>20, <3>1, WriteType
    <3> QED BY <3>1, <3>2, <3>3
  <2>2. TypeOK'
    BY <1>20, <2>1 DEF TypeOK, RowTypeOK, locals
  <2>3. Shape'
    BY <1>20, <2>1 DEF TypeOK, Shape, KeyKnown, CreateComplete, InstanceRead,
        RowsUsed, Without, locals
  <2> QED BY <2>2, <2>3
<1>21. ASSUME NEW i \in Ids, RealDelete(i) PROVE TypeOK' /\ Shape'
  <2>1. {i} \in SUBSET Ids /\ Write(Null, Without({i}), Unlinked({i}), {})
    BY <1>21 DEF RealDelete
  <2> QED BY <1>20, <1>21, <2>1 DEF RealDelete, env
<1>22. ASSUME NEW c \in Companies, DropCompany(c) PROVE TypeOK' /\ Shape'
  <2> DEFINE b == {i \in Ids : row[i] # Null /\ row[i].company = c}
  <2>1. b \in SUBSET Ids /\ Write(Null, Without(b), Unlinked(b), {})
    BY <1>22 DEF DropCompany
  <2> QED BY <1>20, <1>22, <2>1 DEF DropCompany
<1>23. ASSUME NEW t \in Tags, DropTag(t) PROVE TypeOK' /\ Shape'
  <2>1. /\ row' = row /\ links' \in SUBSET (Ids \X Tags)
        /\ touched' \in [Requests -> SUBSET {"row", "links"}]
    <3>1. {l \in links : l[2] # t} \in SUBSET (Ids \X Tags)
      BY DEF TypeOK
    <3> QED BY <1>23, <3>1, WriteType DEF DropTag, Write, TypeOK, RowTypeOK
  <2>2. TypeOK'
    BY <1>23, <2>1 DEF TypeOK, RowTypeOK, DropTag, locals
  <2>3. Shape'
    BY <1>23, <2>1 DEF TypeOK, Shape, KeyKnown, CreateComplete, InstanceRead,
        RowsUsed, DropTag, locals
  <2> QED BY <2>2, <2>3
<1>24. CASE UNCHANGED vars
  BY <1>24 DEF TypeOK, RowTypeOK, Shape, KeyKnown, CreateComplete, InstanceRead,
      RowsUsed, vars
<1> QED
  BY <1>1, <1>2, <1>3, <1>4, <1>5, <1>6, <1>7, <1>8, <1>9, <1>10, <1>11, <1>12,
     <1>13, <1>14, <1>15, <1>16, <1>17, <1>18, <1>19, <1>21, <1>22, <1>23, <1>24, <1>25
     DEF Next, Fault, Return

\* Whatever the interleaving, the variables have their types; in particular
\* the table never holds a row whose deleted_at is NULL.
THEOREM TypeCorrect == Spec => [](TypeOK /\ Shape)
  BY InitTypeOK, NextTypeOK, PTL DEF Spec


-----------------------------------------------------------------------------
(* The invariant behind the properties. *)

\* The statements each function goes through.
StatementsOf(op) ==
    CASE op = "create" -> {"check_company", "check_tags", "insert", "link", "add", "fetch"}
      [] op = "update" -> {"get", "check_company", "check_tags", "update", "clear",
                           "link", "add", "refresh", "fetch"}
      [] op = "delete" -> {"delete"}
      [] OTHER -> {"get", "stamp", "save"}

\* A call is at a statement of its own function, and an instance is deleted
\* through its own key.
InFunction ==
    \A r \in Requests :
        /\ pc[r] \in StatementsOf(call[r].op) \union Done \union {"idle"}
        /\ call[r].op = "fake_delete" => call[r].batch = {call[r].id}

\* A deletion time is never the 0 that stands for "not deleted".
StampPositive ==
    /\ clock > 0
    /\ \A r \in Requests : pc[r] \in {"save", "delete"} => stamp[r] > 0

\* The table respects its unique index.
UniqueKey == ~Duplicate(row)

\* Until its first write, and when it is refused, a call has changed nothing.
Early == {"idle", "get", "check_company", "check_tags", "insert", "update",
          "stamp", "save", "delete", "rejected"}
EffectsLate == \A r \in Requests : pc[r] \in Early => effects[r] = {}

\* After its UPDATE, an update has changed the row or the row is gone for good;
\* once refresh_from_db found the row, it has changed it.
UpdateTraced ==
    \A r \in Requests :
        call[r].op = "update" /\ HasColumns(call[r]) =>
            /\ pc[r] \in {"clear", "link", "add", "refresh"}
                   => "update" \in effects[r] \/ row[call[r].id] = Null
            /\ pc[r] \in {"fetch", "ok"} => "update" \in effects[r]

\* The rows of an answered delete are not live.
BatchDead ==
    \A r \in Requests :
        call[r].op \in {"delete", "fake_delete"} /\ pc[r] \in {"ok", "rejected"}
            => \A i \in call[r].batch : ~Live(row[i])

SafetyInv ==
    InFunction /\ StampPositive /\ UniqueKey /\ EffectsLate /\ UpdateTraced /\ BatchDead

-----------------------------------------------------------------------------
(* The table. *)

\* What a step does to the rows: the unique index stays respected, keys are
\* not forgotten, and a key once inserted neither gets a row back nor has its
\* deleted row revived.
RowsAge ==
    /\ UniqueKey'
    /\ used \subseteq used'
    /\ \A i \in used : /\ row[i] = Null => row'[i] = Null
                       /\ Live(row'[i]) => Live(row[i])

\* What Write says of the rows alone.
LEMMA WriteRow ==
    ASSUME NEW r, NEW newRow, NEW newLinks, NEW own, Write(r, newRow, newLinks, own)
    PROVE  row' = newRow
BY DEF Write

\* Removing rows cannot break the unique index.
LEMMA RemovalAges ==
    ASSUME TypeOK, UniqueKey, NEW b, row' = Without(b), used' = used
    PROVE  RowsAge
<1>1. \A i \in Ids : row'[i] \in {row[i], Null}
  BY DEF Without
<1>2. UniqueKey'
  BY <1>1 DEF UniqueKey, Duplicate, SameKey
<1> QED BY <1>1, <1>2 DEF RowsAge, Live, TypeOK

\* Every step ages the rows.
LEMMA StepAges ==
    ASSUME TypeOK, Shape, StampPositive, UniqueKey, [Next]_vars
    PROVE  RowsAge
<1>1. ASSUME row' = row, used' = used PROVE RowsAge
  BY <1>1 DEF RowsAge, UniqueKey, Duplicate
<1>2. ASSUME NEW r \in Requests, Insert(r) PROVE RowsAge
  <2> DEFINE v == [name |-> call[r].name, company |-> call[r].company,
                   deleted_at |-> ToDbValue(Null)]
  <2>1. PICK i \in Ids \ used :
          LET new == [row EXCEPT ![i] = v] IN
             IF Duplicate(new) \/ call[r].company \notin companies
             THEN NoWrite
             ELSE Write(r, new, links, {"row", "links"}) /\ used' = used \union {i}
    BY <1>2 DEF Insert
  <2> DEFINE new == [row EXCEPT ![i] = v]
  <2>2. \A j \in used : new[j] = row[j]
    BY DEF TypeOK, RowTypeOK
  <2> HIDE DEF v
  <2>3. CASE NoWrite
    BY <1>1, <2>3 DEF NoWrite
  <2>4. CASE ~Duplicate(new) /\ row' = new /\ used' = used \union {i}
    BY <2>2, <2>4 DEF RowsAge, UniqueKey, Duplicate
  <2> QED BY <2>1, <2>3, <2>4 DEF Write, v
<1>3. ASSUME NEW r \in Requests, UpdateRow(r) PROVE RowsAge
  <2> DEFINE i == call[r].id
             v == Overwrite(row[i], call[r])
             new == [row EXCEPT ![i] = v]
  <2>1. i \in Ids /\ call[r] \in Call
    BY <1>3 DEF UpdateRow, TypeOK, Shape, KeyKnown, ByKey
  <2>2. \/ NoWrite
        \/ /\ row[i] # Null /\ ~Duplicate(new)
           /\ row' = new /\ used' = used
    BY <1>3 DEF UpdateRow, Write
  <2>3. CASE row[i] # Null /\ ~Duplicate(new) /\ row' = new /\ used' = used
    <3>1. row[i] \in Row /\ v.deleted_at = row[i].deleted_at
      BY <2>1, <2>3, OverwriteRow DEF TypeOK, RowTypeOK
    <3>2. row'[i] = v /\ \A j \in Ids \ {i} : row'[j] = row[j]
      BY <2>1, <2>3 DEF TypeOK, RowTypeOK
    <3>3. Live(row'[i]) => Live(row[i])
      BY <2>3, <3>1, <3>2 DEF Live
    <3>4. UniqueKey'
      BY <2>3 DEF UniqueKey, Duplicate
    <3> QED BY <2>1, <2>3, <3>2, <3>3, <3>4 DEF RowsAge, TypeOK
  <2> QED BY <1>1, <2>2, <2>3 DEF NoWrite
<1>4. ASSUME NEW b \in SUBSET Ids, NEW t \in Nat, t > 0, ~Duplicate(row'), used' = used,
             row' = [i \in Ids |-> IF i \in b THEN [row[i] EXCEPT !.deleted_at = t]
                                   ELSE row[i]],
             \A i \in b : row[i] # Null
      PROVE  RowsAge
  <2>1. \A i \in b : /\ row[i] \in Row /\ row'[i] = [row[i] EXCEPT !.deleted_at = t]
                     /\ row'[i].deleted_at = t
    BY <1>4, RestampRow DEF TypeOK, RowTypeOK
  <2>2. \A i \in b : ~Live(row'[i])
    BY <1>4, <2>1, SentinelAssumption DEF Live
  <2>3. \A i \in Ids \ b : row'[i] = row[i]
    BY <1>4
  <2> QED BY <1>4, <2>2, <2>3 DEF RowsAge, UniqueKey, Duplicate, TypeOK
<1>5. ASSUME NEW r \in Requests, Save(r) PROVE RowsAge
  <2> DEFINE i == call[r].id
             new == [row EXCEPT ![i].deleted_at = stamp[r]]
  <2>1. i \in Ids /\ stamp[r] \in Nat /\ stamp[r] > 0
    BY <1>5 DEF Save, TypeOK, Shape, KeyKnown, ByKey, StampPositive
  <2>2. \/ NoWrite
        \/ row[i] # Null /\ ~Duplicate(new) /\ row' = new /\ used' = used
    BY <1>5 DEF Save, Write
  <2>3. new = [j \in Ids |-> IF j \in {i} THEN [row[j] EXCEPT !.deleted_at = stamp[r]]
                             ELSE row[j]]
    BY <2>1 DEF TypeOK, RowTypeOK
  <2> HIDE DEF i, new
  <2>4. CASE row[i] # Null /\ ~Duplicate(new) /\ row' = new /\ used' = used
    <3>1. {i} \in SUBSET Ids /\ \A j \in {i} : row[j] # Null
      BY <2>1, <2>4
    <3>2. ~Duplicate(row')
      BY <2>4
    <3> QED BY <1>4, <2>1, <2>3, <2>4, <3>1, <3>2
  <2> QED BY <1>1, <2>2, <2>4 DEF NoWrite
<1>6. ASSUME NEW r \in Requests, SoftDelete(r) PROVE RowsAge
  <2> DEFINE hit == {i \in call[r].batch : row[i] # Null /\ row[i].deleted_at # stamp[r]}
             new == [i \in Ids |-> IF i \in hit THEN [row[i] EXCEPT !.deleted_at = stamp[r]]
                                   ELSE row[i]]
  <2>1. stamp[r] \in Nat /\ stamp[r] > 0 /\ hit \in SUBSET Ids
        /\ \A i \in hit : row[i] # Null
    BY <1>6 DEF SoftDelete, TypeOK, StampPositive, Shape, KeyKnown
  <2>2. \/ NoWrite
        \/ ~Duplicate(new) /\ row' = new /\ used' = used
    BY <1>6 DEF SoftDelete, Write
  <2> HIDE DEF hit
  <2> QED BY <1>1, <1>4, <2>1, <2>2 DEF NoWrite
<1>7. ASSUME NEW r \in Requests, HardDelete(r) PROVE RowsAge
  <2> DEFINE hit == {i \in call[r].batch : row[i] # Null}
  <2>1. \/ NoWrite
        \/ Write(r, Without(hit), Unlinked(hit), {}) /\ used' = used
    BY <1>7 DEF HardDelete
  <2> HIDE DEF hit
  <2>2. \/ NoWrite
        \/ row' = Without(hit) /\ used' = used
    BY <2>1, WriteRow
  <2> QED BY <1>1, <2>2, RemovalAges DEF NoWrite
<1>8. ASSUME NEW i \in Ids, RealDelete(i) PROVE RowsAge
  BY <1>8, WriteRow, RemovalAges DEF RealDelete
<1>9. ASSUME NEW c \in Companies, DropCompany(c) PROVE RowsAge
  <2> DEFINE b == {i \in Ids : row[i] # Null /\ row[i].company = c}
  <2>1. row' = Without(b) /\ used' = used
    BY <1>9, WriteRow DEF DropCompany
  <2> HIDE DEF b
  <2> QED BY <2>1, RemovalAges
<1>10. ASSUME NEW r \in Requests,
              \/ CallCreate(r) \/ CallUpdate(r) \/ CallDelete(r) \/ CallFakeDelete(r)
              \/ Get(r) \/ CheckCompany(r) \/ CheckTag(r)
              \/ Refresh(r) \/ Fetch(r) \/ Stamp(r) \/ Fault(r) \/ Return(r)
       PROVE  row' = row /\ used' = used
  BY <1>10 DEF CallCreate, CallUpdate, CallDelete, CallFakeDelete, Begin, Get,
      CheckCompany, CheckTag, Refresh, Fetch, Stamp, Fault, Return, Leave, NoWrite
<1>11. ASSUME NEW r \in Requests, Clear(r) \/ FindLinks(r) \/ Link(r) PROVE row' = row /\ used' = used
  BY <1>11 DEF Clear, FindLinks, Link, Write, NoWrite
<1>12. Tick \/ (\E t \in Tags : DropTag(t)) \/ UNCHANGED vars => row' = row /\ used' = used
  BY DEF Tick, DropTag, Write, NoWrite, vars
<1> QED
  BY <1>1, <1>2, <1>3, <1>5, <1>6, <1>7, <1>8, <1>9, <1>10, <1>11, <1>12 DEF Next

-----------------------------------------------------------------------------
(* The calls. *)

\* Initially the invariant holds.
LEMMA InitSafety == Init => SafetyInv
BY DEF Init, SafetyInv, InFunction, StatementsOf, StampPositive, UniqueKey, Duplicate,
    EffectsLate, UpdateTraced, BatchDead, NoCall, HasColumns, Early

\* The first statements of a create and of an update.
LEMMA CleanInFunction ==
    ASSUME NEW c \in Call, c.op \in {"create", "update"}
    PROVE  /\ Clean(c) \in StatementsOf(c.op) /\ AfterCompany(c) \in StatementsOf(c.op)
           /\ FirstWrite(c) \in StatementsOf(c.op)
           /\ HasColumns(c) => FirstWrite(c) \in {"insert", "update"}
BY DEF Clean, AfterCompany, FirstWrite, AfterUpdate, StatementsOf, Call

\* What a step of r may do to the calls: those of the others stay as they are,
\* and r's own data stay except for the key that an INSERT adds.
OthersStay(r) ==
    \A s \in Requests \ {r} : /\ pc'[s] = pc[s] /\ call'[s] = call[s]
                              /\ stamp'[s] = stamp[s] /\ effects'[s] = effects[s]

\* The invariants of the calls follow from what they say of r alone.
LocalInv(r) ==
    /\ pc[r] \in StatementsOf(call[r].op) \union Done \union {"idle"}
    /\ call[r].op = "fake_delete" => call[r].batch = {call[r].id}
    /\ pc[r] \in {"save", "delete"} => stamp[r] > 0
    /\ pc[r] \in Early => effects[r] = {}
    /\ call[r].op = "update" /\ HasColumns(call[r]) =>
         /\ pc[r] \in {"clear", "link", "add", "refresh"}
                => "update" \in effects[r] \/ row[call[r].id] = Null
         /\ pc[r] \in {"fetch", "ok"} => "update" \in effects[r]
    /\ call[r].op \in {"delete", "fake_delete"} /\ pc[r] \in {"ok", "rejected"}
         => \A i \in call[r].batch : ~Live(row[i])

LEMMA LocalInvs ==
    SafetyInv <=> /\ clock > 0 /\ UniqueKey
                  /\ \A r \in Requests : LocalInv(r)
BY DEF SafetyInv, LocalInv, InFunction, StampPositive, EffectsLate, UpdateTraced, BatchDead

\* A call that does not move keeps its invariant while the rows age.
LEMMA StayingCall ==
    ASSUME TypeOK, Shape, RowsAge, NEW s \in Requests, LocalInv(s),
           pc'[s] = pc[s], call'[s] = call[s], stamp'[s] = stamp[s], effects'[s] = effects[s]
    PROVE  LocalInv(s)'
<1>1. /\ call[s].batch \subseteq used
      /\ call[s].op = "update" /\ pc[s] \in {"clear", "link", "add", "refresh"}
            => call[s].id \in used
  BY DEF Shape, KeyKnown, ByKey
<1>2. \A i \in call[s].batch : ~Live(row[i]) => ~Live(row'[i])
  BY <1>1 DEF RowsAge
<1>3. call[s].op = "update" /\ pc[s] \in {"clear", "link", "add", "refresh"}
        /\ row[call[s].id] = Null => row'[call[s].id] = Null
  BY <1>1 DEF RowsAge
<1> QED BY <1>2, <1>3 DEF LocalInv

\* Every step of a call keeps the invariant of that call.
LEMMA MovingCall ==
    ASSUME TypeOK, Shape, SafetyInv, RowsAge, NEW r \in Requests,
           \/ CallCreate(r) \/ CallUpdate(r) \/ CallDelete(r) \/ CallFakeDelete(r)
           \/ Get(r) \/ CheckCompany(r) \/ CheckTag(r)
           \/ Insert(r) \/ UpdateRow(r) \/ Clear(r)
           \/ FindLinks(r) \/ Link(r) \/ Refresh(r) \/ Fetch(r)
           \/ Stamp(r) \/ Save(r) \/ SoftDelete(r) \/ HardDelete(r)
           \/ Fault(r) \/ Return(r)
    PROVE  LocalInv(r)' /\ OthersStay(r)
<1> USE DEF OthersStay, Goto, Done
<1>0. LocalInv(r) /\ clock > 0 /\ call[r] \in Call
  BY LocalInvs DEF TypeOK
<1>1. CASE CallCreate(r)
  <2>1. PICK a \in Call : /\ Begin(r, a, Clean(a)) /\ UNCHANGED stamp
                          /\ a.op = "create"
    <3>1. PICK n \in Names, c \in Companies, ts \in SUBSET Tags :
            LET a == [NoCall EXCEPT !.name = n, !.company = c, !.tags = ts]
            IN  Begin(r, a, Clean(a)) /\ UNCHANGED stamp
      BY <1>1 DEF CallCreate
    <3> DEFINE a == [NoCall EXCEPT !.name = n, !.company = c, !.tags = ts]
    <3>2. a \in Call /\ a.op = "create"
      BY DEF NoCall, Call
    <3>3. Begin(r, a, Clean(a)) /\ UNCHANGED stamp
      BY <3>1
    <3> HIDE DEF a
    <3> QED BY <3>2, <3>3
  <2>2. Clean(a) \in {"check_company", "check_tags", "insert"}
    BY <2>1, CleanEnds
  <2> QED BY <1>0, <2>1, <2>2 DEF Begin, LocalInv, NoWrite, StatementsOf, TypeOK, Early
<1>2. CASE CallUpdate(r)
  <2>1. PICK a \in Call : Begin(r, a, "get") /\ UNCHANGED stamp /\ a.op = "update"
    <3>1. PICK i \in used, n \in Names \union {Unset},
               c \in Companies \union {Unset, Null}, ts \in {Unset, Null} \union SUBSET Tags :
            /\ Begin(r, [op |-> "update", id |-> i, batch |-> {},
                         name |-> n, company |-> c, tags |-> ts], "get")
            /\ UNCHANGED stamp
      BY <1>2 DEF CallUpdate
    <3>2. [op |-> "update", id |-> i, batch |-> {},
           name |-> n, company |-> c, tags |-> ts] \in Call
      BY DEF Call, TypeOK
    <3> QED BY <3>1, <3>2
  <2> QED BY <1>0, <2>1 DEF Begin, LocalInv, NoWrite, StatementsOf, TypeOK, Early
<1>3. CASE CallDelete(r)
  <2>1. PICK a \in Call : /\ Begin(r, a, "delete") /\ stamp' = [stamp EXCEPT ![r] = clock]
                          /\ a.op = "delete"
    <3>1. PICK b \in SUBSET used \ {{}} :
            /\ Begin(r, [NoCall EXCEPT !.op = "delete", !.batch = b], "delete")
            /\ stamp' = [stamp EXCEPT ![r] = clock]
      BY <1>3 DEF CallDelete
    <3> DEFINE a == [NoCall EXCEPT !.op = "delete", !.batch = b]
    <3>2. a \in Call /\ a.op = "delete"
      BY DEF NoCall, Call, TypeOK
    <3> HIDE DEF a
    <3>3. Begin(r, a, "delete") /\ stamp' = [stamp EXCEPT ![r] = clock]
      BY <3>1 DEF a
    <3> QED BY <3>2, <3>3
  <2> QED BY <1>0, <2>1 DEF Begin, LocalInv, NoWrite, StatementsOf, TypeOK, Early
<1>4. CASE CallFakeDelete(r)
  <2>1. PICK a \in Call : /\ Begin(r, a, "get") /\ UNCHANGED stamp
                          /\ a.op = "fake_delete" /\ a.batch = {a.id}
    <3>1. PICK i \in used :
            /\ Begin(r, [NoCall EXCEPT !.op = "fake_delete", !.id = i, !.batch = {i}], "get")
            /\ UNCHANGED stamp
      BY <1>4 DEF CallFakeDelete
    <3> DEFINE a == [NoCall EXCEPT !.op = "fake_delete", !.id = i, !.batch = {i}]
    <3>2. a \in Call /\ a.op = "fake_delete" /\ a.batch = {a.id}
      BY DEF NoCall, Call, TypeOK
    <3> HIDE DEF a
    <3>3. Begin(r, a, "get") /\ UNCHANGED stamp
      BY <3>1 DEF a
    <3> QED BY <3>2, <3>3
  <2> QED BY <1>0, <2>1 DEF Begin, LocalInv, NoWrite, StatementsOf, TypeOK, Early
<1>5. CASE Get(r)
  <2>1. /\ call[r].op \in {"update", "fake_delete"} /\ effects[r] = {}
        /\ UNCHANGED <<row, call, stamp, effects>> /\ pc[r] = "get"
    BY <1>0, <1>5 DEF Get, NoWrite, LocalInv, StatementsOf, Call, Early
  <2>2. \/ /\ row[call[r].id] = Null /\ pc' = [pc EXCEPT ![r] = "rejected"]
        \/ call[r].op = "fake_delete" /\ pc' = [pc EXCEPT ![r] = "stamp"]
        \/ call[r].op = "update" /\ HasData(call[r]) /\ pc' = [pc EXCEPT ![r] = Clean(call[r])]
        \/ call[r].op = "update" /\ ~HasData(call[r]) /\ pc' = [pc EXCEPT ![r] = "fetch"]
    BY <1>5, <2>1 DEF Get
  <2>3. CASE row[call[r].id] = Null /\ pc' = [pc EXCEPT ![r] = "rejected"]
    BY <1>0, <2>1, <2>3 DEF LocalInv, TypeOK, Live, Early
  <2>4. CASE call[r].op = "fake_delete" /\ pc' = [pc EXCEPT ![r] = "stamp"]
    BY <1>0, <2>1, <2>4 DEF LocalInv, TypeOK, StatementsOf, Early
  <2>5. CASE call[r].op = "update" /\ pc' = [pc EXCEPT ![r] = Clean(call[r])]
    <3>1. /\ Clean(call[r]) \in {"check_company", "check_tags", "update", "clear", "refresh"}
          /\ HasColumns(call[r]) => Clean(call[r]) \notin {"clear", "refresh"}
      BY <1>0, <2>5 DEF Clean, AfterCompany, FirstWrite, AfterUpdate
    <3> QED BY <1>0, <2>1, <2>5, <3>1 DEF LocalInv, TypeOK, StatementsOf, Early
  <2>6. CASE call[r].op = "update" /\ ~HasData(call[r]) /\ pc' = [pc EXCEPT ![r] = "fetch"]
    BY <1>0, <2>1, <2>6 DEF LocalInv, TypeOK, StatementsOf, Early, HasData
  <2> QED BY <2>2, <2>3, <2>4, <2>5, <2>6
<1>6. CASE CheckCompany(r) \/ CheckTag(r)
  <2>1. /\ call[r].op \in {"create", "update"} /\ effects[r] = {}
        /\ UNCHANGED <<row, call, stamp, effects>>
    BY <1>0, <1>6 DEF CheckCompany, CheckTag, NoWrite, locals, LocalInv, StatementsOf, Call, Early
  <2>2. \E s \in {"rejected", "check_tags", AfterCompany(call[r]), FirstWrite(call[r])} :
            pc' = [pc EXCEPT ![r] = s]
    BY <1>6 DEF CheckCompany, CheckTag
  <2>3. \E s \in {"rejected", "check_tags", FirstWrite(call[r])} : pc' = [pc EXCEPT ![r] = s]
    BY <1>0, <2>2, CleanEnds
  <2>4. /\ FirstWrite(call[r]) \in StatementsOf(call[r].op)
        /\ FirstWrite(call[r]) \in {"insert", "update", "clear", "refresh"}
        /\ HasColumns(call[r]) => FirstWrite(call[r]) \in {"insert", "update"}
    BY <1>0, <2>1, CleanInFunction, CleanEnds
  <2> QED BY <1>0, <2>1, <2>3, <2>4 DEF LocalInv, TypeOK, StatementsOf, Early
<1>7. CASE Insert(r)
  <2>1. /\ call[r].op = "create" /\ effects[r] = {} /\ UNCHANGED stamp
    BY <1>0, <1>7 DEF Insert, Shape, CreateComplete, LocalInv, Early
  <2>2. \/ Goto(r, "rejected") /\ NoWrite /\ UNCHANGED call
        \/ \E i \in Ids :
             /\ call' = [call EXCEPT ![r].id = i]
             /\ Affect(r, {"insert"})
             /\ \E s \in {"link", "fetch"} : pc' = [pc EXCEPT ![r] = s]
    BY <1>7 DEF Insert
  <2>3. CASE Goto(r, "rejected") /\ NoWrite /\ UNCHANGED call
    BY <1>0, <2>1, <2>3 DEF LocalInv, TypeOK, NoWrite, Early
  <2>4. CASE \E i \in Ids :
             /\ call' = [call EXCEPT ![r].id = i]
             /\ Affect(r, {"insert"})
             /\ \E s \in {"link", "fetch"} : pc' = [pc EXCEPT ![r] = s]
    <3>1. PICK i \in Ids : call' = [call EXCEPT ![r] = [call[r] EXCEPT !.id = i]]
      BY <2>4
    <3>2. call'[r].op = "create" /\ \A s \in Requests \ {r} : call'[s] = call[s]
      BY <1>0, <2>1, <3>1, SetId DEF TypeOK
    <3> QED BY <1>0, <2>1, <2>4, <3>2 DEF LocalInv, TypeOK, Affect, StatementsOf, Early
  <2> QED BY <2>2, <2>3, <2>4
<1>8. CASE UpdateRow(r)
  <2>1. /\ call[r].op = "update" /\ effects[r] = {}
        /\ UNCHANGED <<call, stamp>>
    BY <1>0, <1>8 DEF UpdateRow, LocalInv, locals, StatementsOf, Call, Early
  <2>2. AfterUpdate(call[r]) \in {"clear", "refresh"}
    BY <1>0, CleanEnds
  <2>3. \/ row[call[r].id] = Null /\ Goto(r, AfterUpdate(call[r])) /\ NoWrite
        \/ Goto(r, "rejected") /\ NoWrite
        \/ Affect(r, {"update"}) /\ Goto(r, AfterUpdate(call[r]))
    BY <1>8 DEF UpdateRow
  <2> QED BY <1>0, <2>1, <2>2, <2>3 DEF LocalInv, TypeOK, NoWrite, Affect, StatementsOf, Early
<1>9. CASE Clear(r)
  <2>1. /\ call[r].op = "update" /\ UNCHANGED <<call, stamp>> /\ pc[r] = "clear"
        /\ \E s \in {"refresh", "link"} : pc' = [pc EXCEPT ![r] = s]
        /\ \E e \in SUBSET {"clear"} : Affect(r, e)
    BY <1>0, <1>9 DEF Clear, LocalInv, locals, StatementsOf, Call
  <2>2. row' = row
    BY <1>9, WriteRow DEF Clear
  <2> QED BY <1>0, <2>1, <2>2 DEF LocalInv, TypeOK, Affect, StatementsOf, Early
<1>20. CASE FindLinks(r)
  <2>1. /\ call[r].op \in {"create", "update"} /\ pc[r] = "link"
        /\ UNCHANGED <<row, call, stamp, effects>>
        /\ \/ pc' = [pc EXCEPT ![r] = "add"]
           \/ call[r].op = "create" /\ pc' = [pc EXCEPT ![r] = "fetch"]
           \/ call[r].op = "update" /\ pc' = [pc EXCEPT ![r] = "refresh"]
    BY <1>0, <1>20 DEF FindLinks, AfterLink, NoWrite, LocalInv, StatementsOf, Call
  <2> QED BY <1>0, <2>1 DEF LocalInv, TypeOK, StatementsOf, Early
<1>10. CASE Link(r)
  <2>1. /\ call[r].op \in {"create", "update"} /\ UNCHANGED <<call, stamp>> /\ pc[r] = "add"
        /\ \/ pc' = [pc EXCEPT ![r] = "error"]
           \/ call[r].op = "create" /\ pc' = [pc EXCEPT ![r] = "fetch"]
           \/ call[r].op = "update" /\ pc' = [pc EXCEPT ![r] = "refresh"]
        /\ \E e \in SUBSET {"link"} : Affect(r, e)
    <3>1. /\ call[r].op \in {"create", "update"} /\ UNCHANGED <<call, stamp>> /\ pc[r] = "add"
          /\ \/ pc' = [pc EXCEPT ![r] = "error"]
             \/ call[r].op = "create" /\ pc' = [pc EXCEPT ![r] = "fetch"]
             \/ call[r].op = "update" /\ pc' = [pc EXCEPT ![r] = "refresh"]
      BY <1>0, <1>10 DEF Link, AfterLink, LocalInv, locals, StatementsOf, Call
    <3>2. effects' = effects => Affect(r, {})
      BY DEF Affect, TypeOK
    <3> QED BY <1>10, <3>1, <3>2 DEF Link, NoWrite
  <2>2. row' = row
    BY <1>10, WriteRow DEF Link, NoWrite
  <2> QED BY <1>0, <2>1, <2>2 DEF LocalInv, TypeOK, Affect, StatementsOf, Early
<1>11. CASE Refresh(r)
  BY <1>0, <1>11 DEF Refresh, NoWrite, LocalInv, TypeOK, StatementsOf, Early
<1>12. CASE Fetch(r)
  <2>1. call[r].op \in {"create", "update"} /\ pc[r] = "fetch"
    BY <1>0, <1>12 DEF Fetch, LocalInv, StatementsOf, Call
  <2> QED BY <1>0, <1>12, <2>1 DEF Fetch, NoWrite, locals, LocalInv, TypeOK, Early
<1>13. CASE Stamp(r)
  <2>1. call[r].op = "fake_delete" /\ pc[r] = "stamp"
    BY <1>0, <1>13 DEF Stamp, LocalInv, StatementsOf, Call
  <2> QED BY <1>0, <1>13, <2>1 DEF Stamp, NoWrite, LocalInv, TypeOK, StatementsOf, Early
<1>14. CASE Save(r)
  <2> DEFINE i == call[r].id
             new == [row EXCEPT ![i].deleted_at = stamp[r]]
  <2>1. /\ call[r].op = "fake_delete" /\ call[r].batch = {i} /\ stamp[r] > 0
        /\ i \in Ids /\ UNCHANGED <<call, stamp>>
    <3>1. i \in Ids
      BY <1>14 DEF Save, Shape, KeyKnown, ByKey, TypeOK
    <3> QED BY <1>0, <1>14, <3>1 DEF Save, locals, LocalInv, StatementsOf, Call
  <2>2. \/ Goto(r, "error") /\ NoWrite
        \/ row[i] # Null /\ row' = new /\ Goto(r, "ok") /\ Affect(r, StampEffects({i}))
    BY <1>14, WriteRow DEF Save
  <2>3. CASE Goto(r, "error") /\ NoWrite
    BY <1>0, <2>1, <2>3 DEF LocalInv, TypeOK, NoWrite, Early
  <2>4. CASE row[i] # Null /\ row' = new /\ Goto(r, "ok") /\ Affect(r, StampEffects({i}))
    <3>1. row'[i] = [row[i] EXCEPT !.deleted_at = stamp[r]] /\ row'[i].deleted_at = stamp[r]
      <4>1. row[i] \in Row /\ stamp[r] \in Nat
        BY <2>1, <2>4 DEF TypeOK, RowTypeOK
      <4>2. row'[i] = [row[i] EXCEPT !.deleted_at = stamp[r]]
        BY <2>1, <2>4 DEF TypeOK, RowTypeOK
      <4> QED BY <4>1, <4>2, RestampRow
    <3>2. ~Live(row'[i])
      BY <2>1, <3>1, SentinelAssumption DEF Live, TypeOK
    <3> QED BY <1>0, <2>1, <2>4, <3>2 DEF LocalInv, TypeOK, Affect, Early
  <2> QED BY <2>2, <2>3, <2>4
<1>15. CASE SoftDelete(r)
  <2> DEFINE hit == {i \in call[r].batch : row[i] # Null /\ row[i].deleted_at # stamp[r]}
             new == [i \in Ids |-> IF i \in hit THEN [row[i] EXCEPT !.deleted_at = stamp[r]]
                                   ELSE row[i]]
  <2>1. /\ pc[r] = "delete" /\ call[r].op = "delete" /\ stamp[r] > 0 /\ stamp[r] \in Nat
        /\ call[r].batch \subseteq Ids /\ UNCHANGED <<call, stamp>>
    BY <1>0, <1>15 DEF SoftDelete, locals, LocalInv, StatementsOf, Call, TypeOK
  <2>2. \/ hit = {} /\ Goto(r, "rejected") /\ NoWrite
        \/ Goto(r, "error") /\ NoWrite
        \/ row' = new /\ Goto(r, "ok") /\ Affect(r, StampEffects(hit))
    BY <1>15, WriteRow DEF SoftDelete
  <2>3. \A i \in call[r].batch \ hit : ~Live(row[i])
    BY <2>1, SentinelAssumption DEF Live, TypeOK
  <2>4. CASE hit = {} /\ Goto(r, "rejected") /\ NoWrite
    <3>1. \A i \in call[r].batch : ~Live(row'[i])
      BY <2>3, <2>4 DEF NoWrite
    <3> HIDE DEF hit, new
    <3> QED BY <1>0, <2>1, <2>4, <3>1 DEF LocalInv, TypeOK, NoWrite, Early
  <2>5. CASE Goto(r, "error") /\ NoWrite
    BY <1>0, <2>1, <2>5 DEF LocalInv, TypeOK, NoWrite, Early
  <2>6. CASE row' = new /\ Goto(r, "ok") /\ Affect(r, StampEffects(hit))
    <3>1. \A i \in hit : row'[i] = [row[i] EXCEPT !.deleted_at = stamp[r]] /\ row[i] \in Row
      <4>1. \A i \in hit : i \in Ids /\ row[i] # Null
        BY <2>1
      <4>2. \A i \in Ids : i \in hit => row'[i] = [row[i] EXCEPT !.deleted_at = stamp[r]]
        BY <2>6
      <4> QED BY <4>1, <4>2 DEF TypeOK, RowTypeOK
    <3>2. \A i \in hit : ~Live(row'[i])
      <4>1. \A i \in hit : row'[i].deleted_at = stamp[r]
        <5>1. SUFFICES ASSUME NEW i \in hit PROVE row'[i].deleted_at = stamp[r]
          OBVIOUS
        <5>2. row'[i] = [row[i] EXCEPT !.deleted_at = stamp[r]] /\ row[i] \in Row
          BY <3>1
        <5> QED BY <2>1, <5>2, RestampRow
      <4> QED BY <2>1, <4>1, SentinelAssumption DEF Live
    <3>3. \A i \in call[r].batch \ hit : row'[i] = row[i]
      BY <2>1, <2>6
    <3> HIDE DEF hit, new
    <3>4. \A i \in call[r].batch : ~Live(row'[i])
      BY <2>3, <3>2, <3>3
    <3> QED BY <1>0, <2>1, <2>6, <3>4 DEF LocalInv, TypeOK, Affect, Early
  <2> QED BY <2>2, <2>4, <2>5, <2>6
<1>16. CASE HardDelete(r)
  <2> DEFINE hit == {i \in call[r].batch : row[i] # Null}
  <2>1. /\ pc[r] = "delete" /\ call[r].op = "delete" /\ call[r].batch \subseteq Ids /\ UNCHANGED <<call, stamp>>
    BY <1>0, <1>16 DEF HardDelete, locals, LocalInv, StatementsOf, Call, TypeOK
  <2>2. \/ hit = {} /\ Goto(r, "rejected") /\ NoWrite
        \/ row' = Without(hit) /\ Goto(r, "ok") /\ Affect(r, {"delete"})
    <3>1. \/ hit = {} /\ Goto(r, "rejected") /\ NoWrite
          \/ /\ Write(r, Without(hit), Unlinked(hit), {})
             /\ Goto(r, "ok") /\ Affect(r, {"delete"})
      BY <1>16 DEF HardDelete
    <3> HIDE DEF hit
    <3> QED BY <3>1, WriteRow
  <2>3. CASE hit = {} /\ Goto(r, "rejected") /\ NoWrite
    <3>1. \A i \in call[r].batch : ~Live(row'[i])
      BY <2>3 DEF NoWrite, Live
    <3> HIDE DEF hit
    <3> QED BY <1>0, <2>1, <2>3, <3>1 DEF LocalInv, TypeOK, NoWrite, Early
  <2>4. CASE row' = Without(hit) /\ Goto(r, "ok") /\ Affect(r, {"delete"})
    <3>1. \A i \in call[r].batch : ~Live(row'[i])
      BY <2>1, <2>4 DEF Without, Live
    <3> QED BY <1>0, <2>1, <2>4, <3>1 DEF LocalInv, TypeOK, Affect, Early
  <2> QED BY <2>2, <2>3, <2>4
<1>17. CASE Fault(r) \/ Return(r)
  BY <1>0, <1>17 DEF Fault, Return, Leave, LocalInv, TypeOK, NoCall, Early
<1> QED
  BY <1>1, <1>2, <1>3, <1>4, <1>5, <1>6, <1>7, <1>8, <1>9, <1>10, <1>11, <1>12,
     <1>13, <1>14, <1>15, <1>16, <1>17, <1>20

\* The clock never goes back to 0.
LEMMA ClockAges == ASSUME TypeOK, clock > 0, [Next]_vars PROVE clock' > 0
<1>1. ASSUME NEW r \in Requests,
             \/ CallCreate(r) \/ CallUpdate(r) \/ CallDelete(r) \/ CallFakeDelete(r)
             \/ Get(r) \/ CheckCompany(r) \/ CheckTag(r)
             \/ Refresh(r) \/ Fetch(r) \/ Stamp(r) \/ Fault(r) \/ Return(r)
      PROVE  clock' = clock
  BY <1>1 DEF CallCreate, CallUpdate, CallDelete, CallFakeDelete, Begin, Get,
      CheckCompany, CheckTag, Refresh, Fetch, Stamp, Fault, Return, Leave, env
<1>2. ASSUME NEW r \in Requests,
             \/ Insert(r) \/ UpdateRow(r) \/ Clear(r) \/ FindLinks(r) \/ Link(r)
             \/ Save(r) \/ SoftDelete(r) \/ HardDelete(r)
      PROVE  clock' = clock
  BY <1>2 DEF Insert, UpdateRow, Clear, FindLinks, Link, Save, SoftDelete, HardDelete, env
<1>3. \A i \in Ids : RealDelete(i) => clock' = clock
  BY DEF RealDelete, env
<1>4. /\ \A c \in Companies : DropCompany(c) => clock' = clock
      /\ \A t \in Tags : DropTag(t) => clock' = clock
      /\ UNCHANGED vars => clock' = clock
      /\ Tick => clock' = clock + 1
  BY DEF DropCompany, DropTag, vars, Tick
<1> QED BY <1>1, <1>2, <1>3, <1>4 DEF Next, TypeOK

\* The invariant is inductive.
LEMMA NextSafety ==
    ASSUME TypeOK, Shape, SafetyInv, [Next]_vars
    PROVE  SafetyInv' /\ RowsAge
<1>1. RowsAge
  BY StepAges DEF SafetyInv
<1>2. clock' > 0 /\ UniqueKey'
  BY <1>1, ClockAges DEF RowsAge, SafetyInv, StampPositive
<1>3. \A r \in Requests : LocalInv(r)
  BY LocalInvs
<1>4. \A r \in Requests : LocalInv(r)'
  <2>1. ASSUME NEW r \in Requests, LocalInv(r)', OthersStay(r), NEW s \in Requests
        PROVE  LocalInv(s)'
    <3>1. CASE s = r
      BY <2>1, <3>1
    <3>2. CASE s # r
      BY <1>1, <1>3, <2>1, <3>2, StayingCall DEF OthersStay
    <3> QED BY <3>1, <3>2
  <2>2. ASSUME UNCHANGED <<pc, call, stamp, effects>>, NEW s \in Requests
        PROVE  LocalInv(s)'
    BY <1>1, <1>3, <2>2, StayingCall
  <2>3. \/ UNCHANGED <<pc, call, stamp, effects>>
        \/ \E r \in Requests : LocalInv(r)' /\ OthersStay(r)
    <3>1. ASSUME \/ Tick \/ \E i \in Ids : RealDelete(i)
                 \/ \E c \in Companies : DropCompany(c)
                 \/ \E t \in Tags : DropTag(t)
                 \/ UNCHANGED vars
          PROVE  UNCHANGED <<pc, call, stamp, effects>>
      BY <3>1 DEF Tick, RealDelete, DropCompany, DropTag, NoWrite, locals, vars
    <3> QED BY <1>1, <3>1, MovingCall DEF Next
  <2> QED BY <2>1, <2>2, <2>3
<1>5. (\A r \in Requests : LocalInv(r))' => (SafetyInv)'
  BY <1>2 DEF SafetyInv, LocalInv, InFunction, StampPositive, EffectsLate, UpdateTraced,
     BatchDead, UniqueKey
<1> QED BY <1>1, <1>4, <1>5

\* The invariant holds throughout.
THEOREM SafetyInvariant == Spec => [](TypeOK /\ Shape /\ SafetyInv)
<1>1. Init => TypeOK /\ Shape /\ SafetyInv
  BY InitTypeOK, InitSafety
<1>2. TypeOK /\ Shape /\ SafetyInv /\ [Next]_vars => (TypeOK /\ Shape /\ SafetyInv)'
  BY NextTypeOK, NextSafety
<1> QED BY <1>1, <1>2, PTL DEF Spec

-----------------------------------------------------------------------------
(* The properties. *)

\* Live rows share a stored deleted_at, so that the index keeps their names apart.
LEMMA LiveNamesApart == ASSUME TypeOK, UniqueKey PROVE UniqueLive
<1> SUFFICES ASSUME NEW i \in Ids, NEW j \in Ids,
                    Live(row[i]), Live(row[j]), row[i].name = row[j].name, i # j
             PROVE  FALSE
  BY DEF UniqueLive
<1>1. row[i] \in Row /\ row[j] \in Row
  BY DEF Live, TypeOK, RowTypeOK
<1>2. row[i].deleted_at = 0 /\ row[j].deleted_at = 0
  BY <1>1, SentinelAssumption DEF Live, Row
<1>3. SameKey(row[i], row[j])
  BY <1>2, SentinelAssumption DEF SameKey
<1> QED BY <1>3 DEF UniqueKey, Duplicate, Live

\* However creates, updates and deletes interleave, at most one live row has a
\* given name: the stored deleted_at of live rows is equal, so that the unique
\* index of the database applies to them.
THEOREM OneLiveRowPerName == Spec => []UniqueLive
<1>1. TypeOK /\ SafetyInv => UniqueLive
  BY LiveNamesApart DEF SafetyInv
<1> QED BY <1>1, SafetyInvariant, PTL

\* No call, whatever stale instance it holds, brings a deleted row back to life.
THEOREM DeletedForGood == Spec => TombstonesStay
<1>1. TypeOK /\ Shape /\ SafetyInv /\ [Next]_vars
        => [\A i \in Ids : row[i] # Null /\ ~Live(row[i]) => ~Live(row'[i])]_row
  <2> SUFFICES ASSUME TypeOK, Shape, SafetyInv, [Next]_vars,
                      NEW i \in Ids, row[i] # Null, ~Live(row[i])
               PROVE  ~Live(row'[i])
    OBVIOUS
  <2>1. i \in used
    BY DEF Shape, RowsUsed
  <2> QED BY <2>1, NextSafety DEF RowsAge
<1> QED BY <1>1, SafetyInvariant, PTL DEF Spec, TombstonesStay

\* A refused call has changed nothing in the database.
THEOREM RefusalsAreClean == Spec => []RejectedChangedNothing
<1>1. SafetyInv => RejectedChangedNothing
  BY DEF SafetyInv, EffectsLate, RejectedChangedNothing, Early
<1> QED BY <1>1, SafetyInvariant, PTL

\* An update answered with success has executed its UPDATE on a row.
THEOREM OkUpdatesHappened == Spec => []OkUpdateHappened
<1>1. SafetyInv => OkUpdateHappened
  BY DEF SafetyInv, UpdateTraced, OkUpdateHappened
<1> QED BY <1>1, SafetyInvariant, PTL

\* After either answer of a delete none of its rows is live.
THEOREM DeletesDelete == Spec => []DeleteAnswer
<1>1. SafetyInv => DeleteAnswer
  BY DEF SafetyInv, BatchDead, DeleteAnswer
<1> QED BY <1>1, SafetyInvariant, PTL

-----------------------------------------------------------------------------
(* Crud implements RowTable. *)

\* The abstract key, before and after a step.
Key(i) == KeyOf(row[i], i \in used)
Keys == [i \in Ids |-> Key(i)]

\* What a key stands for, by the column values of its row.
LEMMA KeyCases ==
    ASSUME NEW v, NEW i, NEW keys, v # Null => i \in keys
    PROVE  /\ i \notin keys => KeyOf(v, i \in keys) = Table!Free
           /\ i \in keys /\ v = Null => KeyOf(v, i \in keys) = Table!Gone
           /\ Live(v) => KeyOf(v, i \in keys) = Table!LiveRow(v.name)
           /\ v # Null /\ ~Live(v) => KeyOf(v, i \in keys) = Table!DeletedRow(v.name)
BY DEF KeyOf, Live, Table!Free, Table!Gone, Table!LiveRow, Table!DeletedRow

\* The same of the keys of a state, and of the next one.
LEMMA KeyBefore ==
    ASSUME Shape, NEW i \in Ids
    PROVE  /\ i \notin used => Key(i) = Table!Free
           /\ i \in used /\ row[i] = Null => Key(i) = Table!Gone
           /\ Live(row[i]) => Key(i) = Table!LiveRow(row[i].name)
           /\ row[i] # Null /\ ~Live(row[i]) => Key(i) = Table!DeletedRow(row[i].name)
BY KeyCases DEF Key, Shape, RowsUsed

LEMMA KeyAfter ==
    ASSUME Shape', NEW i \in Ids
    PROVE  /\ i \notin used' => Key(i)' = Table!Free
           /\ i \in used' /\ row'[i] = Null => Key(i)' = Table!Gone
           /\ Live(row'[i]) => Key(i)' = Table!LiveRow(row'[i].name)
           /\ row'[i] # Null /\ ~Live(row'[i]) => Key(i)' = Table!DeletedRow(row'[i].name)
BY KeyCases DEF Key, Shape, RowsUsed

\* A key with its row and its insertion unchanged is unchanged.
LEMMA KeyStays ==
    ASSUME NEW i \in Ids, row'[i] = row[i], i \in used' <=> i \in used
    PROVE  Key(i)' = Key(i)
BY DEF Key

\* Only a live row has the key of one.
LEMMA LiveKeys ==
    ASSUME Shape, NEW i \in Ids, NEW n, Key(i) = Table!LiveRow(n)
    PROVE  Live(row[i]) /\ row[i].name = n
BY KeyBefore DEF Table!Free, Table!Gone, Table!LiveRow, Table!DeletedRow

-----------------------------------------------------------------------------
(* How statements change the keys. *)

\* A row that is live after a step in which no other key changed was put there.
LEMMA PutRow ==
    ASSUME TypeOK, TypeOK', Shape, Shape', UniqueLive',
           NEW i \in Ids, Live(row'[i]), Live(row[i]) \/ i \notin used,
           \A j \in Ids \ {i} : row'[j] = row[j] /\ (j \in used' <=> j \in used)
    PROVE  Table!Next
<1> DEFINE n == row'[i].name
<1>1. n \in Names
  BY DEF TypeOK, RowTypeOK, Row, Live
<1>2. Key(i)' = Table!LiveRow(n) /\ Keys[i].stage \in {"free", "live"}
  BY KeyBefore, KeyAfter DEF Keys, Table!Free, Table!LiveRow
<1>3. \A j \in Ids \ {i} : Keys[j] # Table!LiveRow(n)
  BY LiveKeys DEF Keys, UniqueLive
<1>4. Keys' = [Keys EXCEPT ![i] = Table!LiveRow(n)]
  BY <1>2, KeyStays DEF Keys
<1> HIDE DEF n
<1>5. Table!Put(i, n)
  BY <1>2, <1>3, <1>4 DEF Table!Put, Keys, Key
<1> QED BY <1>1, <1>5 DEF Table!Next

\* A deleted row is renamed.
LEMMA RenameRow ==
    ASSUME TypeOK', Shape, Shape', NEW i \in Ids, used' = used,
           row[i] # Null, ~Live(row[i]), row'[i] # Null, ~Live(row'[i]),
           \A j \in Ids \ {i} : row'[j] = row[j]
    PROVE  Table!Next
<1> DEFINE n == row'[i].name
<1>1. n \in Names
  BY DEF TypeOK, RowTypeOK, Row
<1>2. Key(i)' = Table!DeletedRow(n) /\ Keys[i].stage = "deleted"
  BY KeyBefore, KeyAfter DEF Keys, Table!DeletedRow
<1>3. Keys' = [Keys EXCEPT ![i] = Table!DeletedRow(n)]
  BY <1>2, KeyStays DEF Keys
<1> HIDE DEF n
<1>4. Table!RenameDeleted(i, n)
  BY <1>2, <1>3 DEF Table!RenameDeleted, Keys, Key
<1> QED BY <1>1, <1>4 DEF Table!Next

\* The rows of b, and no others, go.
LEMMA PurgeRows ==
    ASSUME Shape, Shape', NEW b \in SUBSET Ids, \A i \in b : row[i] # Null,
           row' = Without(b), used' = used
    PROVE  Table!Next
<1>1. \A i \in b : Keys[i].stage \in {"live", "deleted"}
  BY KeyBefore DEF Keys, Table!LiveRow, Table!DeletedRow
<1>2. \A i \in b : Key(i)' = Table!Gone
  BY KeyAfter DEF Without, Shape, RowsUsed
<1>3. \A i \in Ids \ b : Key(i)' = Key(i)
  BY KeyStays DEF Without
<1>4. Keys' = [i \in Ids |-> IF i \in b THEN Table!Gone ELSE Keys[i]]
  BY <1>2, <1>3 DEF Keys
<1>5. Table!Purge(b)
  BY <1>1, <1>4 DEF Table!Purge, Keys, Key
<1> QED BY <1>5 DEF Table!Next

\* The rows of b get the deletion time t.
LEMMA StampRows ==
    ASSUME TypeOK, Shape, Shape', NEW b \in SUBSET Ids, \A i \in b : row[i] # Null,
           NEW t \in Nat, t > 0, used' = used,
           row' = [i \in Ids |-> IF i \in b THEN [row[i] EXCEPT !.deleted_at = t]
                                 ELSE row[i]]
    PROVE  Table!Next
<1> DEFINE live == {i \in b : Live(row[i])}
<1>1. \A i \in b : /\ row[i] \in Row /\ row'[i] # Null
                   /\ row'[i].name = row[i].name /\ row'[i].deleted_at = t
  BY RestampRow, SentinelAssumption DEF TypeOK, RowTypeOK, Row
<1>2. \A i \in b : ~Live(row'[i])
  BY <1>1, SentinelAssumption DEF Live
<1>3. \A i \in live : Key(i) = Table!LiveRow(row[i].name)
  BY KeyBefore
<1>4. \A i \in b : Key(i)' = Table!DeletedRow(row[i].name)
  BY <1>1, <1>2, KeyAfter
<1>5. \A i \in b \ live : Key(i)' = Key(i)
  BY <1>4, KeyBefore
<1>6. \A i \in Ids \ b : Key(i)' = Key(i)
  BY KeyStays
<1>7. Keys' = [i \in Ids |-> IF i \in live THEN Table!DeletedRow(Keys[i].name) ELSE Keys[i]]
  BY <1>3, <1>4, <1>5, <1>6 DEF Keys, Table!LiveRow
<1>8. \A i \in live : Keys[i].stage = "live"
  BY <1>3 DEF Keys, Table!LiveRow
<1>9. live \in SUBSET Ids
  OBVIOUS
<1> HIDE DEF live
<1>10. Table!Delete(live)
  BY <1>7, <1>8 DEF Table!Delete, Keys, Key
<1> QED BY <1>9, <1>10 DEF Table!Next

-----------------------------------------------------------------------------
(* The refinement. *)

LEMMA InitRefines == Init => Table!Init
<1> SUFFICES ASSUME Init PROVE Keys = [i \in Ids |-> Table!Free]
  BY DEF Table!Init, Keys, Key
<1>1. ASSUME NEW i \in Ids PROVE Key(i) = Table!Free
  BY <1>1 DEF Init, Key, KeyOf, Table!Free
<1> QED BY <1>1 DEF Keys

LEMMA StepRefines ==
    ASSUME TypeOK, TypeOK', Shape, Shape', StampPositive, UniqueLive', [Next]_vars
    PROVE  [Table!Next]_Keys
<1>1. ASSUME row' = row, used' = used PROVE Keys' = Keys
  BY <1>1 DEF Keys, Key
<1>2. ASSUME NEW r \in Requests, Insert(r) PROVE [Table!Next]_Keys
  <2> DEFINE v == [name |-> call[r].name, company |-> call[r].company,
                   deleted_at |-> ToDbValue(Null)]
  <2>1. PICK i \in Ids \ used :
          LET new == [row EXCEPT ![i] = v] IN
             IF Duplicate(new) \/ call[r].company \notin companies
             THEN NoWrite
             ELSE Write(r, new, links, {"row", "links"}) /\ used' = used \union {i}
    BY <1>2 DEF Insert
  <2> DEFINE new == [row EXCEPT ![i] = v]
  <2>2. \/ NoWrite
        \/ row' = new /\ used' = used \union {i}
    BY <2>1 DEF Write
  <2>3. v \in Row
    BY <1>2 DEF Insert, Shape, CreateComplete, ToDbValue, Row
  <2>4. Live(v)
    BY <2>3, SentinelAssumption DEF Live, ToDbValue
  <2>5. CASE row' = new /\ used' = used \union {i}
    <3>1. Live(row'[i]) /\ \A j \in Ids \ {i} : row'[j] = row[j] /\ (j \in used' <=> j \in used)
      BY <2>4, <2>5 DEF TypeOK, RowTypeOK
    <3> QED BY <3>1, PutRow
  <2> QED BY <1>1, <2>2, <2>5 DEF NoWrite
<1>3. ASSUME NEW r \in Requests, UpdateRow(r) PROVE [Table!Next]_Keys
  <2> DEFINE i == call[r].id
             v == Overwrite(row[i], call[r])
             new == [row EXCEPT ![i] = v]
  <2>1. i \in Ids /\ i \in used /\ call[r] \in Call
    BY <1>3 DEF UpdateRow, TypeOK, Shape, KeyKnown, ByKey
  <2>2. \/ NoWrite
        \/ row[i] # Null /\ v.company \in companies /\ row' = new /\ used' = used
    BY <1>3 DEF UpdateRow, Write
  <2>3. CASE row[i] # Null /\ v.company \in companies /\ row' = new /\ used' = used
    <3>0. row[i] \in Row /\ v.company \in Companies
      BY <2>1, <2>3 DEF TypeOK, RowTypeOK
    <3>1. v \in Row /\ v.deleted_at = row[i].deleted_at
      BY <2>1, <3>0, OverwriteRow
    <3>2. row'[i] = v /\ \A j \in Ids \ {i} : row'[j] = row[j]
      BY <2>1, <2>3 DEF TypeOK, RowTypeOK
    <3>3. v # Null /\ (Live(v) <=> Live(row[i]))
      BY <2>3, <3>0, <3>1, SentinelAssumption DEF Live
    <3> HIDE DEF i, v, new
    <3>4. CASE Live(row[i])
      BY <2>1, <2>3, <3>2, <3>3, <3>4, PutRow
    <3>5. CASE ~Live(row[i])
      BY <2>1, <2>3, <3>2, <3>3, <3>5, RenameRow
    <3> QED BY <3>4, <3>5
  <2> QED BY <1>1, <2>2, <2>3 DEF NoWrite
<1>4. ASSUME NEW r \in Requests, Save(r) PROVE [Table!Next]_Keys
  <2> DEFINE i == call[r].id
             new == [row EXCEPT ![i].deleted_at = stamp[r]]
  <2>1. i \in Ids /\ stamp[r] \in Nat /\ stamp[r] > 0
    BY <1>4 DEF Save, TypeOK, Shape, KeyKnown, ByKey, StampPositive
  <2>2. \/ NoWrite
        \/ row[i] # Null /\ row' = new /\ used' = used
    BY <1>4 DEF Save, Write
  <2>3. new = [j \in Ids |-> IF j \in {i} THEN [row[j] EXCEPT !.deleted_at = stamp[r]]
                             ELSE row[j]]
    BY <2>1 DEF TypeOK, RowTypeOK
  <2> HIDE DEF i, new
  <2>4. CASE row[i] # Null /\ row' = new /\ used' = used
    <3>1. {i} \in SUBSET Ids /\ \A j \in {i} : row[j] # Null
      BY <2>1, <2>4
    <3> QED BY <2>1, <2>3, <2>4, <3>1, StampRows
  <2> QED BY <1>1, <2>2, <2>4 DEF NoWrite
<1>5. ASSUME NEW r \in Requests, SoftDelete(r) PROVE [Table!Next]_Keys
  <2> DEFINE hit == {i \in call[r].batch : row[i] # Null /\ row[i].deleted_at # stamp[r]}
             new == [i \in Ids |-> IF i \in hit THEN [row[i] EXCEPT !.deleted_at = stamp[r]]
                                   ELSE row[i]]
  <2>1. stamp[r] \in Nat /\ stamp[r] > 0 /\ hit \in SUBSET Ids
        /\ \A i \in hit : row[i] # Null
    BY <1>5 DEF SoftDelete, TypeOK, StampPositive, Shape, KeyKnown
  <2>2. \/ NoWrite
        \/ row' = new /\ used' = used
    BY <1>5 DEF SoftDelete, Write
  <2> HIDE DEF hit
  <2> QED BY <1>1, <2>1, <2>2, StampRows DEF NoWrite
<1>6. ASSUME NEW r \in Requests, HardDelete(r) PROVE [Table!Next]_Keys
  <2> DEFINE hit == {i \in call[r].batch : row[i] # Null}
  <2>1. \/ NoWrite
        \/ Write(r, Without(hit), Unlinked(hit), {}) /\ used' = used
    BY <1>6 DEF HardDelete
  <2>2. hit \in SUBSET Ids /\ \A i \in hit : row[i] # Null
    BY <1>6 DEF TypeOK, HardDelete, Call
  <2> HIDE DEF hit
  <2>3. \/ NoWrite
        \/ row' = Without(hit) /\ used' = used
    BY <2>1, WriteRow
  <2> QED BY <1>1, <2>2, <2>3, PurgeRows DEF NoWrite
<1>7. ASSUME NEW i \in Ids, RealDelete(i) PROVE [Table!Next]_Keys
  <2>1. row[i] # Null /\ row' = Without({i}) /\ used' = used
    BY <1>7, WriteRow DEF RealDelete
  <2> QED BY <2>1, PurgeRows
<1>8. ASSUME NEW c \in Companies, DropCompany(c) PROVE [Table!Next]_Keys
  <2> DEFINE b == {i \in Ids : row[i] # Null /\ row[i].company = c}
  <2>1. row' = Without(b) /\ used' = used
    BY <1>8, WriteRow DEF DropCompany
  <2>2. b \in SUBSET Ids /\ \A i \in b : row[i] # Null
    OBVIOUS
  <2> HIDE DEF b
  <2> QED BY <2>1, <2>2, PurgeRows
<1>9. ASSUME NEW r \in Requests,
             \/ CallCreate(r) \/ CallUpdate(r) \/ CallDelete(r) \/ CallFakeDelete(r)
             \/ Get(r) \/ CheckCompany(r) \/ CheckTag(r)
             \/ Refresh(r) \/ Fetch(r) \/ Stamp(r) \/ Fault(r) \/ Return(r)
      PROVE  row' = row /\ used' = used
  BY <1>9 DEF CallCreate, CallUpdate, CallDelete, CallFakeDelete, Begin, Get,
      CheckCompany, CheckTag, Refresh, Fetch, Stamp, Fault, Return, Leave, NoWrite
<1>10. ASSUME NEW r \in Requests, Clear(r) \/ FindLinks(r) \/ Link(r) PROVE row' = row /\ used' = used
  BY <1>10 DEF Clear, FindLinks, Link, Write, NoWrite
<1>11. Tick \/ (\E t \in Tags : DropTag(t)) \/ UNCHANGED vars => row' = row /\ used' = used
  BY DEF Tick, DropTag, Write, NoWrite, vars
<1> QED
  BY <1>1, <1>2, <1>3, <1>4, <1>5, <1>6, <1>7, <1>8, <1>9, <1>10, <1>11 DEF Next

\* Whatever calls overlap, the rows go through the stages of RowTable and no
\* others, and the names of live rows stay apart: an interleaving of statements
\* of services/crud.py is, for who looks at the table, a sequence of whole
\* operations.
THEOREM RowsImplementTable == Spec => ImplementsRowTable
<1>1. TypeOK /\ Shape /\ SafetyInv => UniqueLive
  BY LiveNamesApart DEF SafetyInv
<1>2. /\ TypeOK /\ Shape /\ SafetyInv /\ UniqueLive
      /\ (TypeOK /\ Shape /\ SafetyInv /\ UniqueLive)'
      /\ [Next]_vars
      => [Table!Next]_Keys
  BY StepRefines DEF SafetyInv
<1>3. Keys = [i \in Ids |-> KeyOf(row[i], i \in used)]
  BY DEF Keys, Key
<1> QED BY <1>1, <1>2, SafetyInvariant, InitRefines, PTL
       DEF Spec, ImplementsRowTable, Table!Spec, Keys, Key

-----------------------------------------------------------------------------
(* Refused creates, and deletions that fail. *)

\* A create is refused only for a live row of the same name or for a company
\* that is gone: a deleted row does not block its name.
THEOREM RefusedCreatesJustified == Spec => RefusedCreateIsJustified
<1>1. TypeOK /\ Shape /\ SafetyInv /\ [Next]_vars
        => [\A r \in Requests :
              call[r].op = "create" /\ pc[r] = "insert" /\ pc'[r] = "rejected"
                => \/ \E i \in Ids : Live(row[i]) /\ row[i].name = call[r].name
                   \/ call[r].company \notin companies]_vars
  <2> SUFFICES ASSUME TypeOK, Shape, SafetyInv, Next, NEW r \in Requests,
                      pc[r] = "insert", pc'[r] = "rejected"
               PROVE  \/ \E i \in Ids : Live(row[i]) /\ row[i].name = call[r].name
                      \/ call[r].company \notin companies
    BY DEF vars
  <2>1. Insert(r)
    <3>1. ASSUME NEW s \in Requests,
                 \/ CallCreate(s) \/ CallUpdate(s) \/ CallDelete(s) \/ CallFakeDelete(s)
                 \/ Get(s) \/ CheckCompany(s) \/ CheckTag(s)
                 \/ UpdateRow(s) \/ Clear(s) \/ FindLinks(s) \/ Link(s)
                 \/ Refresh(s) \/ Fetch(s)
                 \/ Stamp(s) \/ Save(s) \/ SoftDelete(s) \/ HardDelete(s) \/ Return(s)
          PROVE  pc[s] # "insert"
      BY <3>1 DEF CallCreate, CallUpdate, CallDelete, CallFakeDelete, Begin, Get,
          CheckCompany, CheckTag, UpdateRow, Clear, FindLinks, Link, Refresh, Fetch, Stamp, Save,
          SoftDelete, HardDelete, Return, Done
    <3>2. ~Fault(r)
      BY DEF Fault, Leave, Goto, TypeOK
    <3>3. ASSUME Tick \/ (\E i \in Ids : RealDelete(i)) \/ (\E c \in Companies : DropCompany(c))
                 \/ \E t \in Tags : DropTag(t)
          PROVE  FALSE
      BY <3>3 DEF Tick, RealDelete, DropCompany, DropTag
    <3>4. \A s \in Requests \ {r} : ~OthersStay(s)
      BY DEF OthersStay
    <3>5. RowsAge
      BY NextSafety
    <3> QED BY <3>1, <3>2, <3>3, <3>4, <3>5, MovingCall DEF Next
  <2> DEFINE v == [name |-> call[r].name, company |-> call[r].company,
                   deleted_at |-> ToDbValue(Null)]
  <2>2. PICK i \in Ids \ used :
          LET new == [row EXCEPT ![i] = v] IN
             \/ Duplicate(new) \/ call[r].company \notin companies
             \/ pc' = [pc EXCEPT ![r] = IF HasTags(call[r]) /\ call[r].tags # {}
                                        THEN "link" ELSE "fetch"]
    BY <2>1 DEF Insert, Goto
  <2> DEFINE new == [row EXCEPT ![i] = v]
  <2>3. Duplicate(new) \/ call[r].company \notin companies
    BY <2>2 DEF TypeOK
  <2>4. v.name = call[r].name /\ v.deleted_at = 0
    BY DEF ToDbValue
  <2> HIDE DEF v
  <2>5. ASSUME Duplicate(new)
        PROVE  \E j \in Ids : Live(row[j]) /\ row[j].name = call[r].name
    <3>1. new[i] = v /\ \A j \in Ids \ {i} : new[j] = row[j]
      BY DEF TypeOK, RowTypeOK
    <3>2. \A j, k \in Ids \ {i} : j # k /\ row[j] # Null /\ row[k] # Null
                                    => ~SameKey(row[j], row[k])
      BY DEF SafetyInv, UniqueKey, Duplicate
    <3>3. PICK j \in Ids \ {i} : row[j] # Null /\ (SameKey(v, row[j]) \/ SameKey(row[j], v))
      BY <2>5, <3>1, <3>2 DEF Duplicate
    <3>4. row[j].deleted_at = 0 /\ row[j].name = call[r].name
      BY <2>4, <3>3 DEF SameKey
    <3> QED BY <3>3, <3>4 DEF Live
  <2> QED BY <2>3, <2>5
<1> QED BY <1>1, SafetyInvariant, PTL DEF Spec, RefusedCreateIsJustified

\* A deletion fails with an exception nobody expected only if the row is gone,
\* or if another row of its name has the deletion time it took, or is in its
\* batch: neither an older tombstone of the name nor a live row stops it.
THEOREM DeletionsFailOnlyTogether == Spec => DeletionFailsOnlyInItsSecond
<1>1. TypeOK /\ Shape /\ SafetyInv /\ [Next]_vars
        => [\A r \in Requests :
              pc[r] \in {"save", "delete"} /\ pc'[r] = "error"
                => \/ call[r].op = "fake_delete" /\ row[call[r].id] = Null
                   \/ \E i \in call[r].batch, j \in Ids :
                         /\ i # j /\ row[i] # Null /\ row[j] # Null
                         /\ row[i].name = row[j].name
                         /\ row[j].deleted_at = stamp[r] \/ j \in call[r].batch]_vars
  <2> DEFINE Together(r) ==
               \E i \in call[r].batch, j \in Ids :
                  /\ i # j /\ row[i] # Null /\ row[j] # Null
                  /\ row[i].name = row[j].name
                  /\ row[j].deleted_at = stamp[r] \/ j \in call[r].batch
  <2> SUFFICES ASSUME TypeOK, Shape, SafetyInv, Next, NEW r \in Requests,
                      pc[r] \in {"save", "delete"}, pc'[r] = "error"
               PROVE  \/ call[r].op = "fake_delete" /\ row[call[r].id] = Null
                      \/ Together(r)
    BY DEF vars
  <2>1. Save(r) \/ SoftDelete(r)
    <3>1. ASSUME NEW s \in Requests,
                 \/ CallCreate(s) \/ CallUpdate(s) \/ CallDelete(s) \/ CallFakeDelete(s)
                 \/ Get(s) \/ CheckCompany(s) \/ CheckTag(s) \/ Insert(s)
                 \/ UpdateRow(s) \/ Clear(s) \/ FindLinks(s) \/ Link(s)
                 \/ Refresh(s) \/ Fetch(s) \/ Stamp(s) \/ Return(s)
          PROVE  pc[s] \notin {"save", "delete"}
      BY <3>1 DEF CallCreate, CallUpdate, CallDelete, CallFakeDelete, Begin, Get,
          CheckCompany, CheckTag, Insert, UpdateRow, Clear, FindLinks, Link, Refresh, Fetch,
          Stamp, Return, Done
    <3>2. ~Fault(r) /\ ~HardDelete(r)
      BY DEF Fault, Leave, HardDelete, Goto, TypeOK
    <3>3. ASSUME Tick \/ (\E i \in Ids : RealDelete(i)) \/ (\E c \in Companies : DropCompany(c))
                 \/ \E t \in Tags : DropTag(t)
          PROVE  FALSE
      BY <3>3 DEF Tick, RealDelete, DropCompany, DropTag
    <3>4. \A s \in Requests \ {r} : ~OthersStay(s)
      BY DEF OthersStay
    <3>5. RowsAge
      BY NextSafety
    <3> QED BY <3>1, <3>2, <3>3, <3>4, <3>5, MovingCall DEF Next
  <2>2. LocalInv(r) /\ call[r] \in Call /\ call[r].batch \subseteq Ids
    BY LocalInvs DEF TypeOK, Shape, KeyKnown
  \* Two rows collide only where the statement has moved one of them.
  <2>3. ASSUME NEW hit \in SUBSET call[r].batch, NEW new,
               new = [i \in Ids |-> IF i \in hit THEN [row[i] EXCEPT !.deleted_at = stamp[r]]
                                    ELSE row[i]],
               \A i \in hit : row[i] # Null,
               Duplicate(new)
        PROVE  Together(r)
    <3>1. PICK i \in Ids, j \in Ids : i # j /\ new[i] # Null /\ new[j] # Null
                                       /\ SameKey(new[i], new[j])
      BY <2>3 DEF Duplicate
    <3>2. \A k \in hit : /\ k \in Ids /\ row[k] # Null
                          /\ new[k].name = row[k].name /\ new[k].deleted_at = stamp[r]
      <4> SUFFICES ASSUME NEW k \in hit
                   PROVE  /\ k \in Ids /\ row[k] # Null
                          /\ new[k].name = row[k].name /\ new[k].deleted_at = stamp[r]
        OBVIOUS
      <4>1. k \in Ids /\ row[k] \in Row /\ stamp[r] \in Nat
        BY <2>2, <2>3 DEF TypeOK, RowTypeOK
      <4>2. new[k] = [row[k] EXCEPT !.deleted_at = stamp[r]]
        BY <2>3, <4>1
      <4> QED BY <2>3, <4>1, <4>2 DEF Row
    <3>3. \A k \in Ids \ hit : new[k] = row[k]
      BY <2>3
    <3>4. i \in hit \/ j \in hit
      BY <3>1, <3>3 DEF SafetyInv, UniqueKey, Duplicate
    <3>5. ASSUME NEW k \in hit, NEW l \in Ids, k # l, new[l] # Null,
                 new[k].name = new[l].name, new[k].deleted_at = new[l].deleted_at
          PROVE  Together(r)
      <4>1. row[l] # Null /\ row[k].name = row[l].name
        BY <3>2, <3>3, <3>5
      <4>2. row[l].deleted_at = stamp[r] \/ l \in call[r].batch
        BY <2>3, <3>2, <3>3, <3>5
      <4> QED BY <3>2, <3>5, <4>1, <4>2
    <3> HIDE DEF Together
    <3> QED BY <3>1, <3>4, <3>5 DEF SameKey
  <2>4. CASE Save(r)
    <3> DEFINE i == call[r].id
               new == [row EXCEPT ![i].deleted_at = stamp[r]]
    <3>1. call[r].op = "fake_delete" /\ call[r].batch = {i} /\ i \in Ids
      BY <2>2, <2>4 DEF Save, LocalInv, StatementsOf, Call, Done
    <3>2. row[i] = Null \/ Duplicate(new)
      BY <2>4 DEF Save, Goto, TypeOK
    <3>3. new = [j \in Ids |-> IF j \in {i} THEN [row[j] EXCEPT !.deleted_at = stamp[r]]
                               ELSE row[j]]
      BY <3>1 DEF TypeOK, RowTypeOK
    <3>4. {i} \in SUBSET call[r].batch
      BY <3>1
    <3> HIDE DEF new, Together
    <3> QED BY <2>3, <3>1, <3>2, <3>3, <3>4
  <2>5. CASE SoftDelete(r)
    <3> DEFINE hit == {i \in call[r].batch : row[i] # Null /\ row[i].deleted_at # stamp[r]}
               new == [i \in Ids |-> IF i \in hit THEN [row[i] EXCEPT !.deleted_at = stamp[r]]
                                     ELSE row[i]]
    <3>1. Duplicate(new)
      BY <2>5 DEF SoftDelete, Goto, TypeOK
    <3>2. hit \in SUBSET call[r].batch /\ \A i \in hit : row[i] # Null
      OBVIOUS
    <3> HIDE DEF hit, Together
    <3> QED BY <2>3, <3>1, <3>2
  <2> QED BY <2>1, <2>4, <2>5
<1> QED BY <1>1, SafetyInvariant, PTL DEF Spec, DeletionFailsOnlyInItsSecond

-----------------------------------------------------------------------------
(* What the answers say. *)

\* What a call has written and what it has read back, as long as nobody else
\* changed it.
AnswerInv(r) ==
    LET c == call[r] IN
    /\ c.op = "update" => c.id \in used
    /\ c.op = "create" /\ pc[r] \in {"link", "add", "fetch", "ok"} => obj[r] = Overwrite(obj[r], c)
    /\ c.op = "update" /\ HasColumns(c) /\ "row" \notin touched[r] =>
         /\ pc[r] \in {"clear", "link", "add", "refresh"}
                => row[c.id] = Null \/ row[c.id] = Overwrite(row[c.id], c)
         /\ pc[r] \in {"fetch", "ok"} => obj[r] = Overwrite(obj[r], c)
    /\ c.op = "update" /\ HasTags(c) /\ "links" \notin touched[r] =>
         /\ pc[r] \in {"link", "add"} => LinksOf(c.id) = {}
         /\ pc[r] = "add" => todo[r] = c.tags
         /\ pc[r] \in {"refresh", "fetch", "ok"} => LinksOf(c.id) = c.tags

AnswersInv == \A r \in Requests : AnswerInv(r)

\* What another's write leaves of what s relies on.
Seen(s) ==
    /\ touched[s] \subseteq touched'[s]
    /\ "row" \notin touched'[s] => row'[call[s].id] = row[call[s].id]
    /\ "links" \notin touched'[s]
         => {t \in Tags : <<call[s].id, t>> \in links'} = LinksOf(call[s].id)

LEMMA WriteSeen ==
    ASSUME TypeOK, NEW r, NEW newRow, NEW newLinks, NEW own,
           Write(r, newRow, newLinks, own),
           NEW s \in Requests, s # r, call[s].id \in Ids
    PROVE  Seen(s)
<1>1. row' = newRow /\ links' = newLinks
  BY DEF Write
<1>2. touched'[s] = touched[s]
         \union (IF newRow[call[s].id] # row[call[s].id] THEN {"row"} ELSE {})
         \union (IF \E t \in Tags :
                       (<<call[s].id, t>> \in newLinks) # (<<call[s].id, t>> \in links)
                 THEN {"links"} ELSE {})
  BY SentinelAssumption DEF Write
<1>3. "links" \notin touched'[s]
         => \A t \in Tags : <<call[s].id, t>> \in newLinks <=> <<call[s].id, t>> \in links
  BY <1>2
<1> QED BY <1>1, <1>2, <1>3 DEF Seen, LinksOf

\* A call that does not move keeps its answer.
LEMMA StayingAnswer ==
    ASSUME NEW s \in Requests, AnswerInv(s), used \subseteq used',
           call[s].op = "update" => Seen(s),
           pc'[s] = pc[s], call'[s] = call[s], obj'[s] = obj[s], todo'[s] = todo[s]
    PROVE  AnswerInv(s)'
<1>1. LinksOf(call[s].id)' = {t \in Tags : <<call[s].id, t>> \in links'}
  BY DEF LinksOf
<1>2. call[s].op = "update" => call[s].id \in used'
  BY DEF AnswerInv
<1>3. call[s].op = "update" /\ "links" \notin touched'[s]
        => "links" \notin touched[s] /\ LinksOf(call[s].id)' = LinksOf(call[s].id)
  BY <1>1 DEF Seen
<1>4. call[s].op = "update" /\ "row" \notin touched'[s]
        => "row" \notin touched[s] /\ row'[call[s].id] = row[call[s].id]
  BY DEF Seen
<1> QED BY <1>2, <1>3, <1>4 DEF AnswerInv

\* The same of a call that another one leaves alone, and of one beside which
\* something that is not a call writes.
LEMMA UntouchedSeen ==
    ASSUME NEW s \in Requests, UNCHANGED <<row, links>>, touched'[s] = touched[s]
    PROVE  Seen(s)
BY DEF Seen, LinksOf

LEMMA OthersSee ==
    ASSUME TypeOK, NEW r \in Requests, NEW s \in Requests, s # r, call[s].id \in Ids,
           \/ CallCreate(r) \/ CallUpdate(r) \/ CallDelete(r) \/ CallFakeDelete(r)
           \/ Get(r) \/ CheckCompany(r) \/ CheckTag(r)
           \/ Insert(r) \/ UpdateRow(r) \/ Clear(r)
           \/ FindLinks(r) \/ Link(r) \/ Refresh(r) \/ Fetch(r)
           \/ Stamp(r) \/ Save(r) \/ SoftDelete(r) \/ HardDelete(r)
           \/ Fault(r) \/ Return(r)
    PROVE  Seen(s)
<1>1. ASSUME NoWrite PROVE Seen(s)
  BY <1>1, UntouchedSeen DEF NoWrite
<1>2. ASSUME \/ CallCreate(r) \/ CallUpdate(r) \/ CallDelete(r) \/ CallFakeDelete(r)
             \/ Get(r) \/ CheckCompany(r) \/ CheckTag(r) \/ FindLinks(r)
             \/ Refresh(r) \/ Fetch(r) \/ Stamp(r)
      PROVE  NoWrite
  BY <1>2 DEF CallCreate, CallUpdate, CallDelete, CallFakeDelete, Begin, Get,
      CheckCompany, CheckTag, FindLinks, Refresh, Fetch, Stamp
<1>3. CASE Insert(r)
  <2> DEFINE v == [name |-> call[r].name, company |-> call[r].company,
                   deleted_at |-> ToDbValue(Null)]
  <2>1. NoWrite \/ \E i \in Ids : Write(r, [row EXCEPT ![i] = v], links, {"row", "links"})
    BY <1>3 DEF Insert
  <2> HIDE DEF v
  <2> QED BY <1>1, <2>1, WriteSeen
<1>4. CASE UpdateRow(r)
  <2> DEFINE new == [row EXCEPT ![call[r].id] = Overwrite(row[call[r].id], call[r])]
  <2>1. NoWrite \/ Write(r, new, links, {"row"})
    BY <1>4 DEF UpdateRow
  <2> HIDE DEF new
  <2> QED BY <1>1, <2>1, WriteSeen
<1>5. CASE Clear(r)
  BY <1>5, WriteSeen DEF Clear
<1>6. CASE Link(r)
  BY <1>1, <1>6, WriteSeen DEF Link
<1>7. CASE Save(r)
  <2> DEFINE new == [row EXCEPT ![call[r].id].deleted_at = stamp[r]]
  <2>1. NoWrite \/ Write(r, new, links, {"row"})
    BY <1>7 DEF Save
  <2> HIDE DEF new
  <2> QED BY <1>1, <2>1, WriteSeen
<1>8. CASE SoftDelete(r)
  <2> DEFINE hit == {i \in call[r].batch : row[i] # Null /\ row[i].deleted_at # stamp[r]}
             new == [i \in Ids |-> IF i \in hit THEN [row[i] EXCEPT !.deleted_at = stamp[r]]
                                   ELSE row[i]]
  <2>1. NoWrite \/ Write(r, new, links, {})
    BY <1>8 DEF SoftDelete
  <2> HIDE DEF hit, new
  <2> QED BY <1>1, <2>1, WriteSeen
<1>9. CASE HardDelete(r)
  <2> DEFINE hit == {i \in call[r].batch : row[i] # Null}
  <2>1. NoWrite \/ Write(r, Without(hit), Unlinked(hit), {})
    BY <1>9 DEF HardDelete
  <2> HIDE DEF hit
  <2> QED BY <1>1, <2>1, WriteSeen
<1>10. CASE Fault(r) \/ Return(r)
  <2>1. UNCHANGED <<row, links>> /\ touched'[s] = touched[s]
    BY <1>10 DEF Fault, Return, Leave, TypeOK
  <2> QED BY <2>1, UntouchedSeen
<1> QED BY <1>1, <1>2, <1>3, <1>4, <1>5, <1>6, <1>7, <1>8, <1>9, <1>10

\* Only the call that moves changes the instance and the list it holds.
LEMMA OthersKeepObj ==
    ASSUME TypeOK, NEW r \in Requests, NEW s \in Requests, s # r,
           \/ CallCreate(r) \/ CallUpdate(r) \/ CallDelete(r) \/ CallFakeDelete(r)
           \/ Get(r) \/ CheckCompany(r) \/ CheckTag(r)
           \/ Insert(r) \/ UpdateRow(r) \/ Clear(r)
           \/ FindLinks(r) \/ Link(r) \/ Refresh(r) \/ Fetch(r)
           \/ Stamp(r) \/ Save(r) \/ SoftDelete(r) \/ HardDelete(r)
           \/ Fault(r) \/ Return(r)
    PROVE  obj'[s] = obj[s] /\ todo'[s] = todo[s]
<1>1. ASSUME UNCHANGED <<obj, todo>> PROVE obj'[s] = obj[s] /\ todo'[s] = todo[s]
  BY <1>1
<1>2. ASSUME \/ UpdateRow(r) \/ Clear(r) \/ Link(r) \/ CheckCompany(r)
             \/ Fetch(r) \/ Save(r) \/ SoftDelete(r) \/ HardDelete(r)
      PROVE  UNCHANGED <<obj, todo>>
  BY <1>2 DEF CheckCompany, UpdateRow, Clear, Link, Fetch, Save, SoftDelete, HardDelete,
      locals
<1>3. ASSUME \/ CallCreate(r) \/ CallUpdate(r) \/ CallDelete(r) \/ CallFakeDelete(r)
      PROVE  obj'[s] = obj[s] /\ todo'[s] = todo[s]
  BY <1>3 DEF CallCreate, CallUpdate, CallDelete, CallFakeDelete, Begin, TypeOK
<1>4. ASSUME \/ Get(r) \/ Refresh(r) \/ Stamp(r) \/ Fault(r) \/ Return(r) \/ Insert(r)
             \/ CheckTag(r) \/ FindLinks(r)
      PROVE  obj'[s] = obj[s] /\ todo'[s] = todo[s]
  BY <1>4 DEF Get, Refresh, Stamp, Fault, Return, Leave, Insert, CheckTag, FindLinks, TypeOK
<1> QED BY <1>1, <1>2, <1>3, <1>4

\* Where an update passes over its UPDATE, or over the relation as well, data
\* has nothing to write there.
LEMMA FirstWriteHarmless ==
    ASSUME NEW c \in Call
    PROVE  /\ FirstWrite(c) \in {"insert", "update", "clear", "refresh"}
           /\ FirstWrite(c) = "clear" => ~HasColumns(c)
           /\ FirstWrite(c) = "refresh" => ~HasColumns(c) /\ ~HasTags(c)
BY CleanEnds DEF FirstWrite, AfterUpdate

\* An answer that consists of what data says again says the same.
LEMMA OverwriteTwice ==
    ASSUME NEW v, NEW c
    PROVE  Overwrite(v, c) = Overwrite(Overwrite(v, c), c)
BY DEF Overwrite

\* Every step of a call keeps what its answer rests on.
LEMMA MovingAnswer ==
    ASSUME TypeOK, Shape, SafetyInv, used \subseteq used', NEW r \in Requests, AnswerInv(r),
           \/ CallCreate(r) \/ CallUpdate(r) \/ CallDelete(r) \/ CallFakeDelete(r)
           \/ Get(r) \/ CheckCompany(r) \/ CheckTag(r)
           \/ Insert(r) \/ UpdateRow(r) \/ Clear(r)
           \/ FindLinks(r) \/ Link(r) \/ Refresh(r) \/ Fetch(r)
           \/ Stamp(r) \/ Save(r) \/ SoftDelete(r) \/ HardDelete(r)
           \/ Fault(r) \/ Return(r)
    PROVE  AnswerInv(r)'
<1> USE DEF Goto, Done
<1>0. call[r] \in Call /\ LocalInv(r)
  BY LocalInvs DEF TypeOK
<1>1. ASSUME NEW s, s \notin {"link", "add", "fetch", "ok", "clear", "refresh"}, pc' = [pc EXCEPT ![r] = s],
             call'[r].op = "update" => call'[r].id \in used
      PROVE  AnswerInv(r)'
  BY <1>1 DEF AnswerInv, TypeOK
<1>2. CASE CallCreate(r)
  <2>1. PICK n \in Names, c \in Companies, ts \in SUBSET Tags :
          LET a == [NoCall EXCEPT !.name = n, !.company = c, !.tags = ts]
          IN  Begin(r, a, Clean(a))
    BY <1>2 DEF CallCreate
  <2> DEFINE a == [NoCall EXCEPT !.name = n, !.company = c, !.tags = ts]
  <2>2. a \in Call /\ a.op = "create"
    BY DEF NoCall, Call
  <2>3. Begin(r, a, Clean(a))
    BY <2>1
  <2> HIDE DEF a
  <2>4. Clean(a) \in {"check_company", "check_tags", "insert"}
    BY <2>2, CleanEnds
  <2> QED BY <1>1, <2>2, <2>3, <2>4 DEF Begin, TypeOK
<1>3. CASE CallUpdate(r)
  <2>1. PICK a : Begin(r, a, "get") /\ a.id \in used
    BY <1>3 DEF CallUpdate
  <2>2. call'[r] = a /\ pc' = [pc EXCEPT ![r] = "get"]
    BY <2>1 DEF Begin, TypeOK
  <2> QED BY <1>1, <2>1, <2>2
<1>4. CASE CallDelete(r) \/ CallFakeDelete(r)
  <2>1. PICK a : (Begin(r, a, "get") \/ Begin(r, a, "delete")) /\ a.op # "update"
    <3>1. ASSUME NEW b PROVE [NoCall EXCEPT !.op = "delete", !.batch = b].op # "update"
      BY DEF NoCall
    <3>2. ASSUME NEW b, NEW i
          PROVE  [NoCall EXCEPT !.op = "fake_delete", !.id = i, !.batch = b].op # "update"
      BY DEF NoCall
    <3> QED BY <1>4, <3>1, <3>2 DEF CallDelete, CallFakeDelete
  <2>2. call'[r] = a /\ \E s \in {"get", "delete"} : pc' = [pc EXCEPT ![r] = s]
    BY <2>1 DEF Begin, TypeOK
  <2> QED BY <1>1, <2>1, <2>2
<1>5. CASE Get(r)
  <2>1. /\ call[r].op \in {"update", "fake_delete"}
        /\ call' = call
        /\ call[r].id \in used
    BY <1>0, <1>5 DEF Get, LocalInv, StatementsOf, Call, Shape, KeyKnown, ByKey
  <2>2. \/ \E s \in {"rejected", "stamp"} : pc' = [pc EXCEPT ![r] = s]
        \/ pc' = [pc EXCEPT ![r] = Clean(call[r])]
        \/ /\ call[r].op = "update" /\ ~HasData(call[r])
           /\ pc' = [pc EXCEPT ![r] = "fetch"]
    BY <1>5, <2>1 DEF Get
  <2>3. CASE \E s \in {"rejected", "stamp"} : pc' = [pc EXCEPT ![r] = s]
    BY <1>1, <2>1, <2>3
  <2>4. CASE pc' = [pc EXCEPT ![r] = Clean(call[r])]
    <3>1. /\ Clean(call[r]) \in {"check_company", "check_tags", "insert", "update",
                                 "clear", "refresh"}
          /\ Clean(call[r]) = "clear" => ~HasColumns(call[r])
          /\ Clean(call[r]) = "refresh" => ~HasColumns(call[r]) /\ ~HasTags(call[r])
      BY <1>0, CleanEnds, FirstWriteHarmless
    <3> QED BY <2>1, <2>4, <3>1 DEF AnswerInv, TypeOK
  <2>5. CASE /\ call[r].op = "update" /\ ~HasData(call[r])
             /\ pc' = [pc EXCEPT ![r] = "fetch"]
    BY <2>1, <2>5 DEF AnswerInv, TypeOK, HasData, HasTags
  <2> QED BY <2>2, <2>3, <2>4, <2>5
<1>6. CASE CheckCompany(r) \/ CheckTag(r)
  <2>1. call' = call /\ call[r].op \in {"create", "update"}
    BY <1>0, <1>6 DEF CheckCompany, CheckTag, locals, LocalInv, StatementsOf, Call
  <2>2. call[r].op = "update" => call[r].id \in used
    BY DEF AnswerInv
  <2>3. PICK s \in {"rejected", "check_tags", FirstWrite(call[r])} : pc' = [pc EXCEPT ![r] = s]
    <3>1. \E s \in {"rejected", "check_tags", AfterCompany(call[r]), FirstWrite(call[r])} :
            pc' = [pc EXCEPT ![r] = s]
      BY <1>6 DEF CheckCompany, CheckTag
    <3> QED BY <1>0, <3>1, CleanEnds
  <2>4. /\ s \in {"rejected", "check_tags", "insert", "update", "clear", "refresh"}
        /\ s = "clear" => ~HasColumns(call[r])
        /\ s = "refresh" => ~HasColumns(call[r]) /\ ~HasTags(call[r])
    BY <1>0, FirstWriteHarmless
  <2> QED BY <2>1, <2>2, <2>3, <2>4 DEF AnswerInv, TypeOK
<1>7. CASE Insert(r)
  <2>1. /\ call[r].op = "create" /\ call[r].name \in Names /\ call[r].company \in Companies
    BY <1>7 DEF Insert, Shape, CreateComplete
  <2>2. \/ Goto(r, "rejected") /\ UNCHANGED call
        \/ \E i \in Ids :
             /\ call' = [call EXCEPT ![r].id = i]
             /\ obj' = [obj EXCEPT ![r] = [name |-> call[r].name, company |-> call[r].company,
                                           deleted_at |-> ToDbValue(Null)]]
    BY <1>7 DEF Insert
  <2>3. CASE Goto(r, "rejected") /\ UNCHANGED call
    BY <1>1, <2>1, <2>3
  <2>4. ASSUME NEW i \in Ids, call' = [call EXCEPT ![r].id = i],
               obj' = [obj EXCEPT ![r] = [name |-> call[r].name, company |-> call[r].company,
                                          deleted_at |-> ToDbValue(Null)]]
        PROVE  AnswerInv(r)'
    <3>1. /\ call'[r] = [call[r] EXCEPT !.id = i] /\ call'[r].op = "create"
          /\ call'[r].name = call[r].name /\ call'[r].company = call[r].company
      BY <1>0, <2>1, <2>4, SetId DEF TypeOK
    <3>2. obj'[r] = [name |-> call[r].name, company |-> call[r].company,
                     deleted_at |-> ToDbValue(Null)]
      BY <2>4 DEF TypeOK
    <3>3. obj'[r] = Overwrite(obj'[r], call'[r])
      BY <3>1, <3>2 DEF Overwrite
    <3> QED BY <3>1, <3>3 DEF AnswerInv
  <2> QED BY <2>2, <2>3, <2>4
<1>8. CASE UpdateRow(r)
  <2> DEFINE i == call[r].id
             v == Overwrite(row[i], call[r])
             new == [row EXCEPT ![i] = v]
  <2>1. /\ call[r].op = "update" /\ i \in used /\ i \in Ids /\ UNCHANGED <<call, obj>>
    BY <1>0, <1>8 DEF UpdateRow, LocalInv, locals, StatementsOf, Call, Shape, KeyKnown, ByKey,
        TypeOK
  <2>2. \/ Goto(r, "rejected")
        \/ row[i] = Null /\ Goto(r, AfterUpdate(call[r])) /\ NoWrite
        \/ Goto(r, AfterUpdate(call[r])) /\ Write(r, new, links, {"row"})
    BY <1>8 DEF UpdateRow
  <2>3. /\ AfterUpdate(call[r]) \in {"clear", "refresh"}
        /\ AfterUpdate(call[r]) = "refresh" => ~HasTags(call[r])
    BY <1>0, CleanEnds DEF AfterUpdate
  <2>4. CASE Goto(r, "rejected")
    BY <1>1, <2>1, <2>4
  <2>5. CASE row[i] = Null /\ Goto(r, AfterUpdate(call[r])) /\ NoWrite
    BY <2>1, <2>3, <2>5 DEF AnswerInv, TypeOK, NoWrite
  <2>6. CASE Goto(r, AfterUpdate(call[r])) /\ Write(r, new, links, {"row"})
    <3>1. row'[i] = v
      BY <2>1, <2>6, WriteRow DEF TypeOK, RowTypeOK
    <3>2. row'[i] = Overwrite(row'[i], call[r])
      BY <3>1, OverwriteTwice
    <3> QED BY <2>1, <2>3, <2>6, <3>2 DEF AnswerInv, TypeOK
  <2> QED BY <2>2, <2>4, <2>5, <2>6
<1>9. CASE Clear(r)
  <2>1. /\ call[r].op = "update" /\ call[r].id \in used /\ UNCHANGED <<call, obj>>
        /\ pc[r] = "clear"
    BY <1>0, <1>9 DEF Clear, LocalInv, locals, StatementsOf, Call, Shape, KeyKnown, ByKey
  <2>2. /\ row' = row /\ links' = {l \in links : l[1] # call[r].id}
        /\ touched'[r] = touched[r] \ {"links"}
    BY <1>9 DEF Clear, Write
  <2>3. LinksOf(call[r].id)' = {}
    BY <2>1, <2>2 DEF LinksOf
  <2>4. \/ call[r].tags = {} /\ pc' = [pc EXCEPT ![r] = "refresh"]
        \/ pc' = [pc EXCEPT ![r] = "link"]
    BY <1>9 DEF Clear
  <2> QED BY <2>1, <2>2, <2>3, <2>4 DEF AnswerInv, TypeOK
<1>20. CASE FindLinks(r)
  <2>1. /\ call[r].op \in {"create", "update"} /\ call[r].id \in used
        /\ UNCHANGED <<row, links, touched, call, obj>>
        /\ pc[r] = "link"
    BY <1>0, <1>20 DEF FindLinks, NoWrite, LocalInv, StatementsOf, Call, Shape, KeyKnown, ByKey
  <2>2. LinksOf(call[r].id)' = LinksOf(call[r].id)
    BY <2>1 DEF LinksOf
  <2>3. todo'[r] = Related(call[r]) \ LinksOf(call[r].id)
    BY <1>20 DEF FindLinks, TypeOK
  <2>4. CASE pc' = [pc EXCEPT ![r] = "add"]
    BY <2>1, <2>2, <2>3, <2>4 DEF AnswerInv, TypeOK, Related
  <2>5. CASE /\ Related(call[r]) \ LinksOf(call[r].id) = {}
             /\ pc' = [pc EXCEPT ![r] = IF call[r].op = "create" THEN "fetch" ELSE "refresh"]
    BY <2>1, <2>2, <2>5 DEF AnswerInv, TypeOK, Related
  <2> QED BY <1>20, <2>4, <2>5 DEF FindLinks, AfterLink
<1>10. CASE Link(r)
  <2>1. /\ call[r].op \in {"create", "update"} /\ call[r].id \in used /\ UNCHANGED <<call, obj>>
        /\ pc[r] = "add"
    BY <1>0, <1>10 DEF Link, LocalInv, locals, StatementsOf, Call, Shape, KeyKnown, ByKey
  <2>2. CASE Goto(r, "error")
    BY <1>1, <2>1, <2>2
  <2>3. CASE /\ Write(r, row, links \union ({call[r].id} \X todo[r]), {})
             /\ Goto(r, IF call[r].op = "create" THEN "fetch" ELSE "refresh")
    <3>1. /\ row' = row /\ links' = links \union ({call[r].id} \X todo[r])
          /\ touched'[r] = touched[r]
      BY <2>3 DEF Write
    <3>2. todo[r] \subseteq Tags
      BY DEF TypeOK
    <3>3. LinksOf(call[r].id) = {} => LinksOf(call[r].id)' = todo[r]
      BY <2>1, <3>1, <3>2 DEF LinksOf
    <3>4. CASE call[r].op = "create"
      BY <2>1, <2>3, <3>1, <3>4 DEF AnswerInv, TypeOK
    <3>5. CASE call[r].op = "update"
      BY <2>1, <2>3, <3>1, <3>3, <3>5 DEF AnswerInv, TypeOK
    <3> QED BY <2>1, <3>4, <3>5
  <2> QED BY <1>10, <2>2, <2>3 DEF Link, AfterLink
<1>11. CASE Refresh(r)
  <2>1. /\ call[r].op = "update" /\ call[r].id \in used /\ pc[r] = "refresh"
        /\ UNCHANGED <<row, links, touched, call>>
    BY <1>0, <1>11 DEF Refresh, NoWrite, LocalInv, StatementsOf, Call, Shape, KeyKnown, ByKey
  <2>2. CASE Goto(r, "error")
    BY <1>1, <2>1, <2>2
  <2>3. CASE /\ row[call[r].id] # Null /\ Goto(r, "fetch")
             /\ obj' = [obj EXCEPT ![r] = row[call[r].id]]
    <3>1. LinksOf(call[r].id)' = LinksOf(call[r].id)
      BY <2>1 DEF LinksOf
    <3> QED BY <2>1, <2>3, <3>1 DEF AnswerInv, TypeOK
  <2> QED BY <1>11, <2>2, <2>3 DEF Refresh
<1>12. CASE Fetch(r)
  <2>1. /\ call[r].op \in {"create", "update"} /\ pc[r] = "fetch"
        /\ UNCHANGED <<row, used, links, touched, call, obj>>
    BY <1>0, <1>12 DEF Fetch, NoWrite, locals, LocalInv, StatementsOf, Call
  <2>2. LinksOf(call[r].id)' = LinksOf(call[r].id)
    BY <2>1 DEF LinksOf
  <2>3. \E s \in {"ok", "error"} : pc' = [pc EXCEPT ![r] = s]
    BY <1>12 DEF Fetch
  <2> QED BY <2>1, <2>2, <2>3 DEF AnswerInv, TypeOK
<1>13. CASE Stamp(r)
  <2>1. call[r].op = "fake_delete" /\ call' = call
    BY <1>0, <1>13 DEF Stamp, LocalInv, StatementsOf, Call
  <2> QED BY <1>1, <1>13, <2>1 DEF Stamp
<1>14. CASE Save(r)
  <2>1. call[r].op = "fake_delete" /\ call' = call
    BY <1>0, <1>14 DEF Save, locals, LocalInv, StatementsOf, Call
  <2> QED BY <2>1 DEF AnswerInv
<1>15. CASE SoftDelete(r)
  <2>1. call[r].op = "delete" /\ call' = call /\ SoftDeletes
    BY <1>0, <1>15 DEF SoftDelete, locals, LocalInv, StatementsOf, Call
  <2> QED BY <2>1 DEF AnswerInv
<1>16. CASE HardDelete(r)
  <2>1. call[r].op = "delete" /\ call' = call
    BY <1>0, <1>16 DEF HardDelete, locals, LocalInv, StatementsOf, Call
  <2> QED BY <2>1 DEF AnswerInv
<1>17. CASE Fault(r) \/ Return(r)
  <2>1. call'[r] = NoCall /\ NoCall.op = "create" /\ pc' = [pc EXCEPT ![r] = "idle"]
    BY <1>17 DEF Fault, Return, Leave, TypeOK, NoCall
  <2> QED BY <1>1, <2>1
<1> QED
  BY <1>2, <1>3, <1>4, <1>5, <1>6, <1>7, <1>8, <1>9, <1>10, <1>11, <1>12,
     <1>13, <1>14, <1>15, <1>16, <1>17, <1>20

\* What is not a call writes beside all of them.
LEMMA EnvironmentSeen ==
    ASSUME TypeOK, NEW s \in Requests, call[s].id \in Ids,
           \/ Tick \/ \E i \in Ids : RealDelete(i)
           \/ \E c \in Companies : DropCompany(c)
           \/ \E t \in Tags : DropTag(t)
           \/ UNCHANGED vars
    PROVE  Seen(s) /\ UNCHANGED <<pc, call, obj, todo>>
<1>1. s # Null
  BY SentinelAssumption
<1>2. CASE Tick \/ UNCHANGED vars
  BY <1>2, UntouchedSeen DEF Tick, NoWrite, locals, vars
<1>3. ASSUME NEW i \in Ids, RealDelete(i) PROVE Seen(s) /\ UNCHANGED <<pc, call, obj, todo>>
  BY <1>1, <1>3, WriteSeen DEF RealDelete, locals
<1>4. ASSUME NEW c \in Companies, DropCompany(c)
      PROVE  Seen(s) /\ UNCHANGED <<pc, call, obj, todo>>
  <2> DEFINE b == {i \in Ids : row[i] # Null /\ row[i].company = c}
  <2>1. Write(Null, Without(b), Unlinked(b), {}) /\ UNCHANGED <<pc, call, obj, todo>>
    BY <1>4 DEF DropCompany, locals
  <2> HIDE DEF b
  <2> QED BY <1>1, <2>1, WriteSeen
<1>5. ASSUME NEW t \in Tags, DropTag(t) PROVE Seen(s) /\ UNCHANGED <<pc, call, obj, todo>>
  BY <1>1, <1>5, WriteSeen DEF DropTag, locals
<1> QED BY <1>2, <1>3, <1>4, <1>5

\* The invariant of the answers is inductive.
LEMMA NextAnswers ==
    ASSUME TypeOK, Shape, SafetyInv, AnswersInv, [Next]_vars
    PROVE  AnswersInv'
<1> SUFFICES ASSUME NEW s \in Requests PROVE AnswerInv(s)'
  BY DEF AnswersInv
<1>1. used \subseteq used' /\ RowsAge /\ AnswerInv(s)
  BY NextSafety DEF RowsAge, AnswersInv
<1>2. call[s].op = "update" => call[s].id \in Ids
  BY <1>1 DEF AnswerInv, TypeOK
<1>3. ASSUME NEW r \in Requests,
             \/ CallCreate(r) \/ CallUpdate(r) \/ CallDelete(r) \/ CallFakeDelete(r)
             \/ Get(r) \/ CheckCompany(r) \/ CheckTag(r)
             \/ Insert(r) \/ UpdateRow(r) \/ Clear(r)
             \/ FindLinks(r) \/ Link(r) \/ Refresh(r) \/ Fetch(r)
             \/ Stamp(r) \/ Save(r) \/ SoftDelete(r) \/ HardDelete(r)
             \/ Fault(r) \/ Return(r)
      PROVE  AnswerInv(s)'
  <2>1. CASE s = r
    BY <1>1, <1>3, <2>1, MovingAnswer
  <2>2. CASE s # r
    <3>1. pc'[s] = pc[s] /\ call'[s] = call[s]
      BY <1>1, <1>3, <2>2, MovingCall DEF OthersStay
    <3>2. obj'[s] = obj[s] /\ todo'[s] = todo[s]
      BY <1>3, <2>2, OthersKeepObj
    <3>3. call[s].op = "update" => Seen(s)
      BY <1>2, <1>3, <2>2, OthersSee
    <3> QED BY <1>1, <3>1, <3>2, <3>3, StayingAnswer
  <2> QED BY <2>1, <2>2
<1>4. ASSUME \/ Tick \/ \E i \in Ids : RealDelete(i)
             \/ \E c \in Companies : DropCompany(c)
             \/ \E t \in Tags : DropTag(t)
             \/ UNCHANGED vars
      PROVE  AnswerInv(s)'
  <2>1. UNCHANGED <<pc, call, obj, todo>>
    BY <1>4 DEF Tick, RealDelete, DropCompany, DropTag, NoWrite, locals, vars
  <2>2. call[s].op = "update" => Seen(s)
    BY <1>2, <1>4, EnvironmentSeen
  <2> QED BY <1>1, <2>1, <2>2, StayingAnswer
<1> QED BY <1>3, <1>4 DEF Next

\* The invariant of the answers holds throughout.
THEOREM AnswersInvariant == Spec => []AnswersInv
<1>1. Init => AnswersInv
  BY DEF Init, AnswersInv, AnswerInv, NoCall
<1>2. TypeOK /\ Shape /\ SafetyInv /\ AnswersInv /\ [Next]_vars => AnswersInv'
  BY NextAnswers
<1> QED BY <1>1, <1>2, SafetyInvariant, PTL DEF Spec

\* The answer of a create or an update shows what the call wrote, unless others
\* changed the row since: create_obj keeps the instance it inserted, update_obj
\* reads the row again after its last write.
THEOREM AnswersShowWrites == Spec => []ReadYourWrites
<1>1. AnswersInv => ReadYourWrites
  BY DEF AnswersInv, AnswerInv, ReadYourWrites
<1> QED BY <1>1, AnswersInvariant, PTL

\* When update_obj is done with the relation, the row's relation is the set in
\* data, unless others changed it since the clear().
THEOREM LinksAreReplaced == Spec => []ReplacedLinks
<1>1. AnswersInv => ReplacedLinks
  BY DEF AnswersInv, AnswerInv, ReplacedLinks
<1> QED BY <1>1, AnswersInvariant, PTL

=============================================================================

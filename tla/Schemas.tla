-------------------------------- MODULE Schemas --------------------------------
(***************************************************************************)
(* The schemas made from database models: pydantic_model_creator with its  *)
(* index of the schemas made so far, create_sub_fields_model, and what     *)
(* from_queryset prefetches for a schema                                   *)
(* (common/tortoise/contrib/pydantic/creator.py, common/pydantic.py).      *)
(*                                                                         *)
(* A field of a schema is a path: <<"company", "name">> is the field name  *)
(* of the schema nested in the field company.  What a field allows, its    *)
(* title and its default are left out, and so are computed fields.         *)
(***************************************************************************)
EXTENDS Integers, Sequences, FiniteSets, SequencesExt

CONSTANTS
    Model,         \* Model[c]: what describe() tells of the model class c
    Calls,         \* the parameters of pydantic_model_creator
    Declared,      \* schemas made by the creator of the library
    Selections,    \* sets of fields a client asks for
    MaxRecursion,  \* max_recursion of PydanticMeta
    MaxCalls,      \* bound on the calls
    NoName         \* None in Python

\* describe() finds the other model of a relation; the fields of a model have
\* different names and an order.
ASSUME ModelAssumption ==
    \A c \in DOMAIN Model :
        /\ DOMAIN Model[c].raw \subseteq DOMAIN Model[c].to
        /\ \A f \in DOMAIN Model[c].to :
            /\ Model[c].to[f] \in DOMAIN Model /\ Model[c].place[f] \in Nat
            /\ f \notin Model[c].data \union {Model[c].pk}
\* include and exclude are paths of at least one field.
ASSUME CallsAssumption ==
    \A c \in Calls :
        /\ c.cls \in DOMAIN Model
        /\ c.readonly \in BOOLEAN /\ c.cycles \in {"default", "yes", "no"}
        /\ \A p \in c.include \union c.exclude : p \in Seq(Range(p)) /\ p # <<>>
ASSUME BoundsAssumption == MaxRecursion \in Nat /\ MaxCalls \in Nat
\* _get_fetch_fields is not theirs: what it finds of them is nothing.
ASSUME DeclaredAssumption == \A s \in Declared : s.family = "library" /\ s.fetch = {}

VARIABLES
    frames,    \* pydantic_model_creator calls in progress, the innermost first
    index,     \* _MODEL_INDEX
    asked,     \* the parameters of the calls so far (history)
    made,      \* what they answered (history)
    selection  \* what create_sub_fields_model answered last, and for a schema of whom

schemaVars == <<frames, index, asked, made, selection>>

-----------------------------------------------------------------------------
(* Fields. *)

\* Parameters name fields by paths; those of one class are of length 1.
Keeps(include, exclude, n) == (include = {} \/ <<n>> \in include) /\ <<n>> \notin exclude
\* What the parameters say of the schema nested in a field.
Under(f, paths) == {Tail(p) : p \in {q \in paths : Len(q) > 1 /\ q[1] = f}}

\* Backward relations have no column of their own.
Relations(c) == {f \in DOMAIN Model[c].to : f \in DOMAIN Model[c].raw \/ Model[c].backward}
\* include and exclude of a PydanticMeta, which no model sets, are left out.
Columns(c, include, exclude, readonly) ==
    {n \in Model[c].data \union (IF readonly THEN {} ELSE {Model[c].pk}) : Keeps(include, exclude, n)}
\* The columns that the relations of the schema make superfluous.
Raws(c, include, exclude) ==
    {Model[c].raw[f] : f \in {f \in DOMAIN Model[c].raw : Keeps(include, exclude, f)}} \ {Model[c].pk}

\* del field_map[raw_field]: there must be such a column.
RawMissing(c, include, exclude, readonly) ==
    ~readonly /\ ~(Raws(c, include, exclude) \subseteq Columns(c, include, exclude, readonly))
\* With exclude_readonly, the raw columns stay and there are no relations.
Own(c, include, exclude, readonly) ==
    IF readonly THEN Columns(c, include, exclude, TRUE) \ Model[c].readOnly
                ELSE Columns(c, include, exclude, FALSE) \ Raws(c, include, exclude)

-----------------------------------------------------------------------------
(* Schemas: all their fields, those that are relations, and _get_fetch_fields of them. *)

Schema(family, c, paths, rels, fetch) ==
    [family |-> family, cls |-> c, paths |-> paths, rels |-> rels, fetch |-> fetch]
KeyError == Schema("KeyError", NoName, {}, {}, {})

Nest(f, paths) == {<<f>> \o p : p \in paths}
\* Mutant: a nested schema without relations of its own is not prefetched.
FetchInner(f, s) == IF s.family # "repo" THEN {} ELSE Nest(f, s.fetch)
\* Only schemas on the PydanticModel of this repository are recognised.
Fetch(f, s) ==
    IF s.family # "repo" THEN {} ELSE IF s.fetch = {} THEN {<<f>>} ELSE Nest(f, s.fetch)

\* create_sub_fields_model: always a PydanticModel of this repository.
SubFields(s, fields) ==
    LET In(paths) == {p \in paths : p[1] \in fields}
    IN  Schema("repo", s.cls, In(s.paths), In(s.rels), In(s.fetch))

-----------------------------------------------------------------------------
(* One call of pydantic_model_creator. *)

Frame(c, name, include, exclude, readonly, cycles, stack) ==
    [cls |-> c, name |-> name, include |-> include, exclude |-> exclude, cycles |-> cycles,
     stack |-> stack,
     todo |-> IF readonly THEN {} ELSE {f \in Relations(c) : Keeps(include, exclude, f)},
     paths |-> {<<n>> : n \in Own(c, include, exclude, readonly)},
     rels |-> {}, fetch |-> {}]

\* get_name, after the relations: the parameters that are not the defaults are
\* hashed; exclude_readonly is not among them.  Six base32 characters are left of
\* the hash, 30 bits; that two names agree by chance is left out.
\* Mutant: the parameters are left out of the name.
NameByClass(fr) ==
    IF fr.name # NoName THEN <<"given", fr.name>>
    ELSE IF fr.rels = {} THEN <<"leaf", fr.cls>> ELSE <<"default", fr.cls>>
Name(fr) ==
    IF fr.name # NoName THEN <<"given", fr.name>>
    ELSE IF fr.rels = {} THEN <<"leaf", fr.cls>>
    ELSE IF fr.exclude = {} /\ fr.include = {} /\ fr.cycles = "default" THEN <<"default", fr.cls>>
    ELSE <<"hash", fr.cls, fr.exclude, fr.include, fr.stack, fr.cycles>>

\* _pydantic_recursion_protector, with the relation on the stack already.
\* Mutant: the class the relation belongs to is looked at, too.
RefusesSelf(c, stack, cycles) ==
    \/ cycles # "yes" /\ \E i \in 1..Len(stack) : stack[i][1] = c
    \/ \E i \in 2..Len(stack) : i - 1 >= MaxRecursion
Refuses(c, stack, cycles) ==
    \/ cycles # "yes" /\ \E i \in 1..(Len(stack) - 1) : stack[i][1] = c
    \/ \E i \in 2..Len(stack) : i - 1 >= MaxRecursion

Top == frames[1]
\* The relations come in the order of fields_map.
Field == CHOOSE f \in Top.todo : \A g \in Top.todo : Model[Top.cls].place[f] <= Model[Top.cls].place[g]
Nested == Model[Top.cls].to[Field]
NewStack == Append(Top.stack, <<Top.cls, Field>>)
Allowed(cycles) == IF cycles = "yes" THEN "yes" ELSE "no"

Register(name, s) == [n \in DOMAIN index \union {name} |-> IF n \in DOMAIN index THEN index[n] ELSE s]
Answer == Register(Name(Top), Schema("repo", Top.cls, Top.paths, Top.rels, Top.fetch))

Made == {made[k] : k \in DOMAIN made} \ {KeyError}

-----------------------------------------------------------------------------
SchemaInit ==
    /\ frames = <<>>
    /\ index = [n \in {} |-> KeyError]
    /\ asked = <<>>
    /\ made = <<>>
    /\ selection = [of |-> "nobody", schema |-> KeyError]

\* A call from outside, or by pydantic_queryset_creator.
Call ==
    /\ frames = <<>> /\ Len(asked) < MaxCalls
    /\ \E c \in Calls :
        /\ asked' = Append(asked, c)
        /\ IF RawMissing(c.cls, c.include, c.exclude, c.readonly)
           THEN made' = Append(made, KeyError) /\ UNCHANGED frames
           ELSE /\ frames' = <<Frame(c.cls, c.name, c.include, c.exclude, c.readonly, c.cycles, <<>>)>>
                /\ UNCHANGED made
    /\ UNCHANGED <<index, selection>>

\* get_submodel: the relation is left out, and its name excluded.
LeaveOut ==
    /\ frames # <<>> /\ Top.todo # {} /\ Refuses(Nested, NewStack, Top.cycles)
    /\ frames' = [frames EXCEPT ![1].todo = @ \ {Field}, ![1].exclude = @ \union {<<Field>>}]
    /\ UNCHANGED <<index, asked, made, selection>>

\* get_submodel: the schema of the related model is made first.  A KeyError
\* there ends all calls in progress.
Descend ==
    /\ frames # <<>> /\ Top.todo # {} /\ ~Refuses(Nested, NewStack, Top.cycles)
    /\ LET include == Under(Field, Top.include)
           exclude == Under(Field, Top.exclude)
       IN  IF RawMissing(Nested, include, exclude, FALSE)
           THEN made' = Append(made, KeyError) /\ frames' = <<>>
           ELSE /\ frames' = <<Frame(Nested, NoName, include, exclude, FALSE,
                                     Allowed(Top.cycles), NewStack)>> \o frames
                /\ UNCHANGED made
    /\ UNCHANGED <<index, asked, selection>>

\* A nested schema is made, or found under its name.
Nests ==
    /\ Len(frames) > 1 /\ Top.todo = {}
    /\ index' = Answer
    /\ LET s == index'[Name(Top)]
           f == Last(Top.stack)[2]
       IN  frames' = [Tail(frames) EXCEPT
                        ![1].todo = @ \ {f},
                        ![1].paths = @ \union {<<f>>} \union Nest(f, s.paths),
                        ![1].rels = @ \union {<<f>>} \union Nest(f, s.rels),
                        ![1].fetch = @ \union Fetch(f, s)]
    /\ UNCHANGED <<asked, made, selection>>

\* The schema that was asked for is made, or found under its name.
Return ==
    /\ Len(frames) = 1 /\ Top.todo = {}
    /\ index' = Answer
    /\ made' = Append(made, index'[Name(Top)])
    /\ frames' = <<>>
    /\ UNCHANGED <<asked, selection>>

\* create_sub_fields_model, with the id that paginate adds to the selection.
Select ==
    /\ frames = <<>>
    /\ \E s \in Declared \union Made, fields \in Selections :
        selection' = [of |-> s.family, schema |-> SubFields(s, fields \union {"id"})]
    /\ UNCHANGED <<frames, index, asked, made>>

SchemaNext == Call \/ LeaveOut \/ Descend \/ Nests \/ Return \/ Select

SchemaSpec == SchemaInit /\ [][SchemaNext]_schemaVars

-----------------------------------------------------------------------------
(* What a call asks for, whatever was made before. *)

\* A way follows relations from the class of a call, each with the class it
\* belongs to, as in _stack.
ClassAt(c, w) == IF w = <<>> THEN c.cls ELSE Model[Last(w)[1]].to[Last(w)[2]]
Fields(w) == [i \in DOMAIN w |-> w[i][2]]
Below(w, paths) ==
    {SubSeq(p, Len(w) + 1, Len(p)) : p \in {p \in paths : IsStrictPrefix(Fields(w), p)}}

\* The relations a call keeps at the end of a way; without cycles it follows them
\* only to a class that is not on the way but perhaps as its last.
KeptAt(c, w) ==
    {f \in Relations(ClassAt(c, w)) : ~c.readonly /\ Keeps(Below(w, c.include), Below(w, c.exclude), f)}
RefusedAt(c, w) ==
    {f \in Relations(ClassAt(c, w)) :
        \/ c.cycles # "yes" /\ \E i \in DOMAIN w : w[i][1] = Model[ClassAt(c, w)].to[f]
        \/ w # <<>> /\ Len(w) >= MaxRecursion}
Follows(c, w) == KeptAt(c, w) \ RefusedAt(c, w)

IsWay(c, w) ==
    \A i \in DOMAIN w : LET v == SubSeq(w, 1, i - 1)
                        IN  w[i][1] = ClassAt(c, v) /\ w[i][2] \in Follows(c, v)
Steps == UNION {{<<d, f>> : f \in DOMAIN Model[d].to} : d \in DOMAIN Model}
Ways == [c \in Calls |-> {w \in BoundedSeq(Steps, MaxRecursion + 1) : IsWay(c, w)}]

OwnAt(c, w) == Own(ClassAt(c, w), Below(w, c.include), Below(w, c.exclude), c.readonly)
AskedRels == [c \in Calls |-> {Fields(w) : w \in Ways[c] \ {<<>>}}]
AskedPaths == [c \in Calls |->
    AskedRels[c] \union UNION {{Append(Fields(w), n) : n \in OwnAt(c, w)} : w \in Ways[c]}]
AsksTooMuch == {c \in Calls : \E w \in Ways[c] :
    RawMissing(ClassAt(c, w), Below(w, c.include), Below(w, c.exclude), c.readonly)}

\* The columns of a part that an earlier call may decide: all of them where there
\* are no relations, otherwise the raw columns of those that are left out.
ChanceAt(c, w) ==
    LET M == Model[ClassAt(c, w)]
    IN  IF Follows(c, w) = {} THEN M.data \union {M.pk}
        ELSE {M.raw[f] : f \in RefusedAt(c, w) \intersect DOMAIN M.raw}
ByChance == [c \in Calls |-> UNION {{Append(Fields(w), n) : n \in ChanceAt(c, w)} : w \in Ways[c]}]

\* What from_queryset prefetches; for the schemas of the library, that is everything.
Prefetches(s) == IF s.family = "repo" THEN s.fetch ELSE s.rels
Unfetched(s) == {r \in s.rels : ~\E p \in Prefetches(s) : IsPrefix(r, p)}

-----------------------------------------------------------------------------
(* Properties. *)

\* A call fails where it keeps a relation and not its raw column, and only there.
\* Otherwise it answers what it asks for, with three exceptions: a schema that was
\* given a name another call has used, the columns of a part that has no
\* relations, which may be those an earlier call asked for, and the raw columns
\* of relations left out: excluded or left out is the same to the name.
AnsweredUpToLeaves ==
    \A k \in DOMAIN made :
        /\ made[k] = KeyError <=> asked[k] \in AsksTooMuch
        /\ \/ made[k] = KeyError
           \/ asked[k].name # NoName /\ \E j \in 1..(k - 1) : asked[j].name = asked[k].name
           \/ /\ made[k].rels = AskedRels[asked[k]]
              /\ SymDiff(made[k].paths, AskedPaths[asked[k]]) \subseteq ByChance[asked[k]]

\* from_queryset prefetches every relation of a schema at every depth, but of a
\* selection from a schema of the library it prefetches none.
UnfetchedOnlyInSelections ==
    /\ \A s \in Made : Unfetched(s) = {}
    /\ Unfetched(selection.schema) = IF selection.of = "library" THEN selection.schema.rels ELSE {}

\* The docstring of from_queryset: all the relations are prefetched automatically.
Prefetched == \A s \in Made \union {selection.schema} : Unfetched(s) = {}

=============================================================================

---------------------------- MODULE AccountCache ----------------------------
(***************************************************************************)
(* _account_cache of services/dependencies.py in one worker process: the   *)
(* TTLCache that _get_account_by_username reads and fills on behalf of the *)
(* requests that carry a token.                                            *)
(*                                                                         *)
(* The requests of a worker share one event loop: between two awaits a     *)
(* request runs alone, but time passes even then.  The only await is the   *)
(* query, so a request can be overtaken between its miss and its insert.   *)
(* Nothing in the repository removes an entry when its account changes.    *)
(* Other worker processes have caches of their own and meet this one only  *)
(* in the database, where they are part of Change and Remove.              *)
(***************************************************************************)
EXTENDS Integers, FiniteSets

CONSTANTS
    Users,       \* usernames
    Requests,    \* requests in progress in this worker
    TTL,         \* TTLCache(ttl=60 * 60)
    MaxSize,     \* TTLCache(maxsize=256)
    MaxTime,     \* bound on the clock
    MaxVersion,  \* bound on the changes of one account
    Null         \* None

ASSUME TTLAssumption == TTL \in Nat \ {0}
ASSUME MaxSizeAssumption == MaxSize \in Nat \ {0}
ASSUME BoundsAssumption == MaxTime \in Nat /\ MaxVersion \in Nat
ASSUME NullAssumption == Null \notin Nat

VARIABLES
    db,        \* db[u], the version of u's account with deleted_at = 0, or Null
    version,   \* version[u], the last version u's account had
    lapsed,    \* lapsed[u][v], when version v stopped being current (history)
    cache,     \* cache[u], the entry of the cache, or Null
    clock,     \* time.monotonic
    pc,        \* pc[r], where request r is
    user,      \* user[r], the username in r's token
    account,   \* account[r], the account r has read
    readAt,    \* readAt[r], when r's query was executed (history)
    absent     \* absent[r], u had no account at some time since r began (history)

dbVars == <<db, version, lapsed>>
locals == <<user, account, readAt>>
vars == <<db, version, lapsed, cache, clock, pc, user, account, readAt, absent>>

Versions == 1..MaxVersion

\* delay: how long after its query the account was cached (history).
Entry == [account: Versions, expires: Nat, delay: Nat]

\* unauthorized: an ApiException.  KeyError: raised by _account_cache[username].
\* failed: the query raised.
Done == {"ok", "unauthorized", "KeyError", "failed"}
PCs == {"idle", "in", "getitem", "query", "resume"} \union Done

-----------------------------------------------------------------------------
(* cachetools.TTLCache. *)

Fresh(e) == e # Null /\ clock < e.expires

\* __setitem__ drops the expired entries and then, while there is no room, the
\* least recently used of the others.  When each was used is left out: whichever
\* goes, its user is looked up again, so any may.
Others(u) == {w \in Users \ {u} : Fresh(cache[w])}
Evicts(u, gone) ==
    /\ Cardinality(Others(u) \ gone) < MaxSize
    /\ gone # {} => Cardinality(Others(u) \ gone) = MaxSize - 1
SetItem(u, e) ==
    \E gone \in SUBSET Others(u) :
        /\ Evicts(u, gone)
        /\ cache' = [w \in Users |-> IF w = u THEN e
                                     ELSE IF w \in Others(u) \ gone THEN cache[w] ELSE Null]

-----------------------------------------------------------------------------
Init ==
    /\ db = [u \in Users |-> Null]
    /\ version = [u \in Users |-> 0]
    /\ lapsed = [u \in Users |-> [v \in Versions |-> Null]]
    /\ cache = [u \in Users |-> Null]
    /\ clock = 0
    /\ pc = [r \in Requests |-> "idle"]
    /\ user = [r \in Requests |-> Null]
    /\ account = [r \in Requests |-> Null]
    /\ readAt = [r \in Requests |-> 0]
    /\ absent = [r \in Requests |-> FALSE]

Goto(r, s) == pc' = [pc EXCEPT ![r] = s]

\* The event loop runs one request at a time: it does not switch between
\* `username in _account_cache` and `_account_cache[username]`.
LoopAnyone(r) == TRUE  \* mutant: it does
LoopFree(r) == \A s \in Requests \ {r} : pc[s] # "getitem"

\* A request with a valid token arrives; _validate_jwt_token decodes it.
Begin(r, u) ==
    /\ pc[r] = "idle" /\ LoopFree(r)
    /\ Goto(r, "in")
    /\ user' = [user EXCEPT ![r] = u]
    /\ absent' = [absent EXCEPT ![r] = db[u] = Null]
    /\ UNCHANGED <<dbVars, cache, clock, account, readAt>>

\* if username in _account_cache.
Contains(r) ==
    /\ pc[r] = "in" /\ LoopFree(r)
    /\ Goto(r, IF Fresh(cache[user[r]]) THEN "getitem" ELSE "query")
    /\ UNCHANGED <<dbVars, cache, clock, locals, absent>>

\* The account a hit or a query gave: _validate_jwt_token refuses none.
Answer(r) == Goto(r, IF account'[r] = Null THEN "unauthorized" ELSE "ok")

\* Mutant: every hit prolongs the entry.
GetItemSliding(r) ==
    LET e == cache[user[r]] IN
    /\ pc[r] = "getitem"
    /\ account' = [account EXCEPT ![r] = e.account]
    /\ cache' = [cache EXCEPT ![user[r]].expires = clock + TTL]
    /\ Answer(r)
    /\ UNCHANGED <<dbVars, clock, user, readAt, absent>>
\* return _account_cache[username]: raises KeyError if the entry has expired
\* since it was tested for.
GetItem(r) ==
    LET e == cache[user[r]] IN
    /\ pc[r] = "getitem"
    /\ IF Fresh(e)
       THEN /\ account' = [account EXCEPT ![r] = e.account]
            /\ Answer(r)
       ELSE Goto(r, "KeyError") /\ UNCHANGED account
    /\ UNCHANGED <<dbVars, cache, clock, user, readAt, absent>>

\* await Account.get_or_none(username=username, deleted_at=0): the database
\* executes the query; the request resumes later.
Query(r) ==
    /\ pc[r] = "query"
    /\ account' = [account EXCEPT ![r] = db[user[r]]]
    /\ readAt' = [readAt EXCEPT ![r] = clock]
    /\ Goto(r, "resume")
    /\ UNCHANGED <<dbVars, cache, clock, user, absent>>

\* Mutant: what the query gave is cached before it is looked at.
ResumeCachesNone(r) ==
    LET d == clock - readAt[r] IN
    /\ pc[r] = "resume" /\ LoopFree(r)
    /\ SetItem(user[r], [account |-> account[r], expires |-> clock + TTL, delay |-> d])
    /\ Goto(r, IF account[r] = Null THEN "unauthorized" ELSE "ok")
    /\ UNCHANGED <<dbVars, clock, user, account, readAt, absent>>

\* The rest of _get_account_by_username: no account is refused and not cached.
Resume(r) ==
    LET d == clock - readAt[r] IN
    /\ pc[r] = "resume" /\ LoopFree(r)
    /\ IF account[r] = Null
       THEN Goto(r, "unauthorized") /\ UNCHANGED cache
       ELSE /\ Goto(r, "ok")
            /\ SetItem(user[r], [account |-> account[r], expires |-> clock + TTL, delay |-> d])
    /\ UNCHANGED <<dbVars, clock, user, account, readAt, absent>>

\* The database does not answer.
Fail(r) ==
    /\ pc[r] \in {"query", "resume"}
    /\ Goto(r, "failed")
    /\ UNCHANGED <<dbVars, cache, clock, locals, absent>>

Finish(r) ==
    /\ pc[r] \in Done
    /\ Goto(r, "idle")
    /\ user' = [user EXCEPT ![r] = Null]
    /\ account' = [account EXCEPT ![r] = Null]
    /\ readAt' = [readAt EXCEPT ![r] = 0]
    /\ absent' = [absent EXCEPT ![r] = FALSE]
    /\ UNCHANGED <<dbVars, cache, clock>>

Tick ==
    /\ clock < MaxTime
    /\ clock' = clock + 1
    /\ UNCHANGED <<dbVars, cache, pc, locals, absent>>

\* The version that was current is not any more.
Lapse(u) == lapsed' = [lapsed EXCEPT ![u] = [v \in Versions |->
                          IF v = db[u] THEN clock ELSE lapsed[u][v]]]

\* u's account is created, created again or changed.
Change(u) ==
    /\ version[u] < MaxVersion
    /\ version' = [version EXCEPT ![u] = @ + 1]
    /\ db' = [db EXCEPT ![u] = version[u] + 1]
    /\ Lapse(u)
    /\ UNCHANGED <<cache, clock, pc, locals, absent>>

\* u's account is deleted.
Remove(u) ==
    /\ db[u] # Null
    /\ db' = [db EXCEPT ![u] = Null]
    /\ Lapse(u)
    /\ absent' = [r \in Requests |-> absent[r] \/ (pc[r] # "idle" /\ user[r] = u)]
    /\ UNCHANGED <<version, cache, clock, pc, locals>>

Next ==
    \/ \E r \in Requests : \/ \E u \in Users : Begin(r, u)
                           \/ Contains(r) \/ GetItem(r) \/ Query(r) \/ Resume(r)
                           \/ Fail(r) \/ Finish(r)
    \/ Tick
    \/ \E u \in Users : Change(u) \/ Remove(u)

Spec == Init /\ [][Next]_vars

-----------------------------------------------------------------------------
(* Properties. *)

\* The types of the variables; an entry is the account of a user that has one.
TypeOK ==
    /\ db \in [Users -> Versions \union {Null}]
    /\ version \in [Users -> 0..MaxVersion]
    /\ lapsed \in [Users -> [Versions -> Nat \union {Null}]]
    /\ cache \in [Users -> Entry \union {Null}]
    /\ clock \in Nat
    /\ pc \in [Requests -> PCs]
    /\ user \in [Requests -> Users \union {Null}]
    /\ account \in [Requests -> Versions \union {Null}]
    /\ readAt \in [Requests -> Nat]
    /\ absent \in [Requests -> BOOLEAN]

\* How long the account that r is about to get waited for its query to resume.
Waited(r) == IF pc[r] = "getitem" THEN cache[user[r]].delay ELSE clock - readAt[r]

\* An account is served for less than TTL after it was changed or deleted, plus
\* the time the query that cached it took to resume.  Without an invalidation
\* this is all that bounds how stale the cache is.
BoundedStaleness ==
    [][\A r \in Requests :
          pc[r] # "ok" /\ pc'[r] = "ok" =>
              LET t == lapsed[user[r]][account'[r]] IN
              t # Null => clock < t + TTL + Waited(r)]_vars

\* A request is refused only if the account was absent at some time since the
\* request began: a refusal is never remembered.
RefusalIsCurrent ==
    \A r \in Requests : pc[r] = "unauthorized" => absent[r]

\* KeyError has one cause: the second in which the entry expires falls between
\* the test and the lookup.  No other request can remove the entry in between.
KeyErrorOnlyAtExpiry ==
    \A r \in Requests :
        pc[r] = "getitem" => cache[user[r]] # Null

=============================================================================

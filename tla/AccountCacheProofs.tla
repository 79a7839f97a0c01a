------------------------- MODULE AccountCacheProofs -------------------------
(***************************************************************************)
(* How stale an answer of _get_account_by_username can be, for any number  *)
(* of users and requests, any TTL and any size of the cache.               *)
(***************************************************************************)
EXTENDS AccountCache, TLAPS

-----------------------------------------------------------------------------
(* The invariant. *)

\* A request that has begun has a user.
HasUser == \A r \in Requests : pc[r] # "idle" => user[r] \in Users

\* The current version has not lapsed, nor has one that is still to come.
CurrentVersion ==
    \A u \in Users :
        /\ db[u] # Null => db[u] = version[u] /\ lapsed[u][db[u]] = Null
        /\ \A v \in Versions : v > version[u] => lapsed[u][v] = Null

\* The query of a waiting request, and the one that an entry came from, was
\* executed before its account lapsed.  An entry's query was executed at
\* expires - TTL - delay.
ReadBefore(u, v, t) == t <= clock /\ (lapsed[u][v] # Null => t <= lapsed[u][v])
QueriesHonest ==
    \A r \in Requests :
        pc[r] = "resume" => /\ readAt[r] <= clock
                            /\ account[r] # Null => ReadBefore(user[r], account[r], readAt[r])
EntriesHonest ==
    \A u \in Users :
        cache[u] # Null =>
            ReadBefore(u, cache[u].account, cache[u].expires - TTL - cache[u].delay)

\* A request that found no account, or would now find none, has seen it absent.
AbsenceSeen ==
    \A r \in Requests :
        /\ pc[r] \in {"in", "getitem", "query"} /\ db[user[r]] = Null => absent[r]
        /\ pc[r] = "resume" /\ account[r] = Null => absent[r]
        /\ pc[r] = "unauthorized" => absent[r]

Inv == /\ TypeOK /\ HasUser /\ CurrentVersion /\ QueriesHonest /\ EntriesHonest
       /\ AbsenceSeen /\ KeyErrorOnlyAtExpiry

-----------------------------------------------------------------------------
\* An insert leaves every other entry as it was or drops it.
LEMMA SetItemKeeps ==
    ASSUME NEW u \in Users, NEW e, SetItem(u, e)
    PROVE  /\ cache' = [w \in Users |-> cache'[w]]
           /\ cache'[u] = e
           /\ \A w \in Users \ {u} : cache'[w] \in {cache[w], Null}
BY DEF SetItem

\* Initially nothing is cached.
LEMMA InitInv == Init => Inv
<1> SUFFICES ASSUME Init PROVE Inv
  OBVIOUS
<1>1. TypeOK
  BY BoundsAssumption DEF Init, TypeOK, PCs
<1>2. HasUser /\ QueriesHonest /\ EntriesHonest /\ KeyErrorOnlyAtExpiry
  BY DEF Init, HasUser, QueriesHonest, EntriesHonest, KeyErrorOnlyAtExpiry
<1>3. CurrentVersion
  BY DEF Init, CurrentVersion
<1>4. AbsenceSeen
  BY DEF Init, AbsenceSeen
<1> QED BY <1>1, <1>2, <1>3, <1>4 DEF Inv

\* Every step keeps the invariant.
LEMMA NextInv == ASSUME Inv, [Next]_vars PROVE Inv'
<1> USE TTLAssumption, BoundsAssumption, NullAssumption
<1> USE DEF Inv, PCs, Done, Goto, dbVars, locals
<1>1. ASSUME NEW r \in Requests, NEW u \in Users, Begin(r, u) PROVE Inv'
  <2>1. TypeOK' BY <1>1 DEF TypeOK, Begin
  <2>2. HasUser' BY <1>1 DEF TypeOK, HasUser, Begin
  <2>3. CurrentVersion' BY <1>1 DEF CurrentVersion, Begin
  <2>4. QueriesHonest' /\ EntriesHonest'
    BY <1>1 DEF TypeOK, QueriesHonest, EntriesHonest, ReadBefore, Begin
  <2>5. AbsenceSeen' BY <1>1 DEF TypeOK, AbsenceSeen, Begin
  <2>6. KeyErrorOnlyAtExpiry' BY <1>1 DEF TypeOK, KeyErrorOnlyAtExpiry, Begin
  <2> QED BY <2>1, <2>2, <2>3, <2>4, <2>5, <2>6
<1>2. ASSUME NEW r \in Requests, Contains(r) PROVE Inv'
  <2>1. TypeOK' BY <1>2 DEF TypeOK, Contains
  <2>2. HasUser' BY <1>2 DEF TypeOK, HasUser, Contains
  <2>3. CurrentVersion' BY <1>2 DEF CurrentVersion, Contains
  <2>4. QueriesHonest' /\ EntriesHonest'
    BY <1>2 DEF TypeOK, QueriesHonest, EntriesHonest, ReadBefore, Contains
  <2>5. AbsenceSeen' BY <1>2 DEF TypeOK, AbsenceSeen, Contains
  <2>6. KeyErrorOnlyAtExpiry' BY <1>2 DEF TypeOK, KeyErrorOnlyAtExpiry, Contains, Fresh
  <2> QED BY <2>1, <2>2, <2>3, <2>4, <2>5, <2>6
<1>3. ASSUME NEW r \in Requests, GetItem(r) PROVE Inv'
  <2>1. user[r] \in Users /\ cache[user[r]] \in Entry
    BY <1>3 DEF TypeOK, HasUser, KeyErrorOnlyAtExpiry, GetItem
  <2>2. cache[user[r]].account \in Versions /\ cache[user[r]].account # Null
    BY <2>1 DEF Entry, Versions
  <2>3. \/ /\ account' = [account EXCEPT ![r] = cache[user[r]].account]
           /\ pc' = [pc EXCEPT ![r] = "ok"]
        \/ account' = account /\ pc' = [pc EXCEPT ![r] = "KeyError"]
    BY <1>3, <2>2 DEF GetItem, Answer, TypeOK
  <2>4. UNCHANGED <<db, version, lapsed, cache, clock, user, readAt, absent>> /\ pc[r] = "getitem"
    BY <1>3 DEF GetItem
  <2>5. TypeOK' BY <2>2, <2>3, <2>4 DEF TypeOK
  <2>6. HasUser' BY <2>3, <2>4 DEF TypeOK, HasUser
  <2>7. CurrentVersion' BY <2>4 DEF CurrentVersion
  <2>8. QueriesHonest' /\ EntriesHonest'
    BY <2>3, <2>4 DEF TypeOK, QueriesHonest, EntriesHonest, ReadBefore
  <2>9. AbsenceSeen' BY <2>3, <2>4 DEF TypeOK, AbsenceSeen
  <2>10. KeyErrorOnlyAtExpiry' BY <2>3, <2>4 DEF TypeOK, KeyErrorOnlyAtExpiry
  <2> QED BY <2>5, <2>6, <2>7, <2>8, <2>9, <2>10
<1>4. ASSUME NEW r \in Requests, Query(r) PROVE Inv'
  <2>1. user[r] \in Users BY <1>4 DEF HasUser, Query
  <2>2. TypeOK' BY <1>4, <2>1 DEF TypeOK, Query
  <2>3. HasUser' BY <1>4 DEF TypeOK, HasUser, Query
  <2>4. CurrentVersion' BY <1>4 DEF CurrentVersion, Query
  <2>5. QueriesHonest'
    BY <1>4, <2>1 DEF TypeOK, QueriesHonest, ReadBefore, CurrentVersion, Query
  <2>6. EntriesHonest' BY <1>4 DEF EntriesHonest, ReadBefore, Query
  <2>7. AbsenceSeen' BY <1>4 DEF TypeOK, AbsenceSeen, Query
  <2>8. KeyErrorOnlyAtExpiry' BY <1>4 DEF TypeOK, KeyErrorOnlyAtExpiry, Query
  <2> QED BY <2>2, <2>3, <2>4, <2>5, <2>6, <2>7, <2>8
<1>5. ASSUME NEW r \in Requests, Resume(r) PROVE Inv'
  <2> DEFINE u == user[r]
             d == clock - readAt[r]
             e == [account |-> account[r], expires |-> clock + TTL, delay |-> d]
  <2>1. /\ u \in Users /\ pc[r] = "resume" /\ LoopFree(r)
        /\ UNCHANGED <<db, version, lapsed, clock, user, account, readAt, absent>>
    BY <1>5 DEF HasUser, Resume
  <2>2. d \in Nat BY <2>1 DEF QueriesHonest, TypeOK
  <2>3. CASE account[r] = Null
    <3>1. pc' = [pc EXCEPT ![r] = "unauthorized"] /\ cache' = cache
      BY <1>5, <2>3 DEF Resume
    <3>2. TypeOK' BY <2>1, <3>1 DEF TypeOK
    <3>3. HasUser' /\ CurrentVersion'
      BY <2>1, <3>1 DEF TypeOK, HasUser, CurrentVersion
    <3>4. QueriesHonest' /\ EntriesHonest'
      BY <2>1, <3>1 DEF TypeOK, QueriesHonest, EntriesHonest, ReadBefore
    <3>5. AbsenceSeen' /\ KeyErrorOnlyAtExpiry'
      BY <2>1, <2>3, <3>1 DEF TypeOK, AbsenceSeen, KeyErrorOnlyAtExpiry
    <3> QED BY <3>2, <3>3, <3>4, <3>5
  <2>4. CASE account[r] # Null
    <3>1. pc' = [pc EXCEPT ![r] = "ok"] /\ SetItem(u, e)
      BY <1>5, <2>4 DEF Resume
    <3>2. e \in Entry BY <2>2, <2>4 DEF Entry, TypeOK
    <3> HIDE DEF e
    <3>3. /\ cache' \in [Users -> Entry \union {Null}]
          /\ cache'[u] = e
          /\ \A w \in Users \ {u} : cache'[w] \in {cache[w], Null}
      BY <2>1, <3>1, <3>2, SetItemKeeps DEF TypeOK
    <3>4. TypeOK' BY <2>1, <3>1, <3>3 DEF TypeOK
    <3>5. HasUser' /\ CurrentVersion'
      BY <2>1, <3>1 DEF TypeOK, HasUser, CurrentVersion
    <3>6. QueriesHonest'
      BY <2>1, <3>1 DEF TypeOK, QueriesHonest, ReadBefore
    <3>7. ReadBefore(u, account[r], readAt[r])
      BY <2>1, <2>4 DEF QueriesHonest
    <3>8. e.account = account[r] /\ e.expires - TTL - e.delay = readAt[r]
      BY <2>2 DEF e, TypeOK
    <3>9. EntriesHonest'
      BY <2>1, <3>3, <3>7, <3>8 DEF EntriesHonest, ReadBefore, TypeOK
    <3>10. AbsenceSeen' BY <2>1, <3>1 DEF TypeOK, AbsenceSeen
    <3>11. KeyErrorOnlyAtExpiry'
      BY <2>1, <3>1 DEF TypeOK, KeyErrorOnlyAtExpiry, LoopFree
    <3> QED BY <3>4, <3>5, <3>6, <3>9, <3>10, <3>11
  <2> QED BY <2>3, <2>4
<1>6. ASSUME NEW r \in Requests, Fail(r) PROVE Inv'
  BY <1>6 DEF Fail, TypeOK, HasUser, CurrentVersion, QueriesHonest, EntriesHonest,
      ReadBefore, AbsenceSeen, KeyErrorOnlyAtExpiry
<1>7. ASSUME NEW r \in Requests, Finish(r) PROVE Inv'
  BY <1>7 DEF Finish, TypeOK, HasUser, CurrentVersion, QueriesHonest, EntriesHonest,
      ReadBefore, AbsenceSeen, KeyErrorOnlyAtExpiry
<1>8. CASE Tick
  <2>1. clock' = clock + 1 /\ UNCHANGED <<db, version, lapsed, cache, pc, user, account, readAt, absent>>
    BY <1>8 DEF Tick
  <2>2. TypeOK' /\ HasUser' /\ CurrentVersion' /\ AbsenceSeen' /\ KeyErrorOnlyAtExpiry'
    BY <2>1 DEF TypeOK, HasUser, CurrentVersion, AbsenceSeen, KeyErrorOnlyAtExpiry
  <2>3. QueriesHonest' BY <2>1 DEF TypeOK, QueriesHonest, ReadBefore
  <2>4. EntriesHonest'
    <3> SUFFICES ASSUME NEW u \in Users, cache[u] # Null
                 PROVE  ReadBefore(u, cache[u].account,
                                   cache[u].expires - TTL - cache[u].delay)'
      BY <2>1 DEF EntriesHonest
    <3>1. cache[u].expires - TTL - cache[u].delay \in Int
      BY DEF TypeOK, Entry
    <3> QED BY <2>1, <3>1 DEF EntriesHonest, ReadBefore, TypeOK
  <2> QED BY <2>2, <2>3, <2>4
<1>9. ASSUME NEW u \in Users, Change(u) \/ Remove(u) PROVE Inv'
  <2>1. /\ Lapse(u) /\ UNCHANGED <<cache, clock, pc, user, account, readAt>>
        /\ version' \in [Users -> 0..MaxVersion] /\ db' \in [Users -> Versions \union {Null}]
        /\ \A w \in Users \ {u} : db'[w] = db[w] /\ version'[w] = version[w]
        /\ \/ version'[u] = version[u] + 1 /\ db'[u] = version[u] + 1
           \/ version'[u] = version[u] /\ db'[u] = Null
    <3>1. CASE Change(u)
      BY <3>1 DEF Change, TypeOK, Versions
    <3>2. CASE Remove(u)
      BY <3>2 DEF Remove, TypeOK
    <3> QED BY <1>9, <3>1, <3>2
  <2>2. /\ absent' \in [Requests -> BOOLEAN]
        /\ \A r \in Requests : absent[r] => absent'[r]
        /\ \A r \in Requests : pc[r] # "idle" /\ user[r] = u /\ db'[u] = Null => absent'[r]
    <3>1. CASE Change(u)
      BY <3>1 DEF Change, TypeOK
    <3>2. CASE Remove(u)
      BY <3>2 DEF Remove, TypeOK
    <3> QED BY <1>9, <3>1, <3>2
  <2>3. /\ lapsed' \in [Users -> [Versions -> Nat \union {Null}]]
        /\ \A w \in Users, v \in Versions :
              \/ lapsed'[w][v] = lapsed[w][v]
              \/ w = u /\ v = db[u] /\ lapsed'[w][v] = clock
        /\ db[u] # Null => lapsed'[u][db[u]] = clock
    BY <2>1 DEF Lapse, TypeOK
  <2>4. TypeOK' BY <2>1, <2>2, <2>3 DEF TypeOK
  <2>5. HasUser' /\ KeyErrorOnlyAtExpiry'
    BY <2>1 DEF HasUser, KeyErrorOnlyAtExpiry
  <2>6. CurrentVersion'
    <3> SUFFICES ASSUME NEW w \in Users
                 PROVE  /\ db'[w] # Null => db'[w] = version'[w] /\ lapsed'[w][db'[w]] = Null
                        /\ \A v \in Versions : v > version'[w] => lapsed'[w][v] = Null
      BY DEF CurrentVersion
    <3>1. /\ db[w] # Null => db[w] = version[w] /\ lapsed[w][db[w]] = Null
          /\ \A v \in Versions : v > version[w] => lapsed[w][v] = Null
          /\ version[w] \in Nat
      BY DEF CurrentVersion, TypeOK
    <3>2. CASE w # u
      BY <2>1, <2>3, <3>1, <3>2 DEF TypeOK
    <3>3. CASE w = u /\ version'[u] = version[u] + 1 /\ db'[u] = version[u] + 1
      <4>1. version[u] + 1 \in Versions /\ version[u] + 1 # db[u]
        BY <2>1, <3>1, <3>3
      <4>2. \A v \in Versions : v > version[u] => v # db[u]
        BY <3>1, <3>3 DEF Versions
      <4> QED BY <2>3, <3>1, <3>3, <4>1, <4>2 DEF Versions
    <3>4. CASE w = u /\ version'[u] = version[u] /\ db'[u] = Null
      <4>1. \A v \in Versions : v > version[u] => v # db[u]
        BY <3>1, <3>4 DEF Versions
      <4> QED BY <2>3, <3>1, <3>4, <4>1
    <3> QED BY <2>1, <3>2, <3>3, <3>4
  <2>8. QueriesHonest'
    <3> SUFFICES ASSUME NEW r \in Requests, pc[r] = "resume", account[r] # Null
                 PROVE  ReadBefore(user[r], account[r], readAt[r])'
      BY <2>1 DEF QueriesHonest
    <3>1. /\ user[r] \in Users /\ account[r] \in Versions /\ readAt[r] \in Int
          /\ ReadBefore(user[r], account[r], readAt[r])
      BY DEF HasUser, TypeOK, QueriesHonest
    <3> QED BY <2>1, <2>3, <3>1 DEF ReadBefore, TypeOK
  <2>9. EntriesHonest'
    <3> SUFFICES ASSUME NEW w \in Users, cache[w] # Null
                 PROVE  ReadBefore(w, cache[w].account,
                                   cache[w].expires - TTL - cache[w].delay)'
      BY <2>1 DEF EntriesHonest
    <3> DEFINE t == cache[w].expires - TTL - cache[w].delay
    <3>1. t \in Int /\ cache[w].account \in Versions
      BY DEF TypeOK, Entry
    <3>2. ReadBefore(w, cache[w].account, t)
      BY DEF EntriesHonest
    <3>3. t' = t /\ (cache[w].account)' = cache[w].account
      BY <2>1
    <3> HIDE DEF t
    <3>4. ReadBefore(w, cache[w].account, t)'
      BY <2>1, <2>3, <3>1, <3>2, <3>3 DEF ReadBefore, TypeOK
    <3> QED BY <3>4 DEF t
  <2>10. AbsenceSeen'
    BY <2>1, <2>2 DEF AbsenceSeen, TypeOK, HasUser
  <2> QED BY <2>4, <2>5, <2>6, <2>8, <2>9, <2>10
<1>10. CASE UNCHANGED vars
  BY <1>10 DEF vars, TypeOK, HasUser, CurrentVersion, QueriesHonest, EntriesHonest,
      ReadBefore, AbsenceSeen, KeyErrorOnlyAtExpiry
<1> QED
  BY <1>1, <1>2, <1>3, <1>4, <1>5, <1>6, <1>7, <1>8, <1>9, <1>10 DEF Next

\* The invariant holds throughout.
THEOREM CacheInvariant == Spec => []Inv
  BY InitInv, NextInv, PTL DEF Spec

-----------------------------------------------------------------------------
(* The properties. *)

\* The variables have their types.
THEOREM CacheTypes == Spec => []TypeOK
<1>1. Inv => TypeOK
  BY DEF Inv
<1> QED BY <1>1, CacheInvariant, PTL

\* An answer is less than TTL, plus the time its query took to resume, out of
\* date, however the fills of concurrent requests overtake each other.
THEOREM AnswersAreFresh == Spec => BoundedStaleness
<1>1. Inv /\ [Next]_vars =>
        [\A r \in Requests :
            pc[r] # "ok" /\ pc'[r] = "ok" =>
                LET t == lapsed[user[r]][account'[r]] IN
                t # Null => clock < t + TTL + Waited(r)]_vars
  <2> SUFFICES ASSUME Inv, [Next]_vars, NEW r \in Requests, pc[r] # "ok", pc'[r] = "ok",
                      lapsed[user[r]][account'[r]] # Null
               PROVE  clock < lapsed[user[r]][account'[r]] + TTL + Waited(r)
    OBVIOUS
  <2> DEFINE t == lapsed[user[r]][account'[r]]
  <2>1. GetItem(r) \/ Resume(r)
    BY DEF Inv, TypeOK, Next, vars, Begin, Contains, GetItem, Query, Resume, Fail, Finish,
        Tick, Change, Remove, Goto, Answer
  <2>2. user[r] \in Users
    BY <2>1 DEF Inv, HasUser, GetItem, Resume
  <2>3. CASE GetItem(r)
    <3>1. /\ cache[user[r]] \in Entry /\ account'[r] = cache[user[r]].account
          /\ clock < cache[user[r]].expires
      BY <2>2, <2>3 DEF GetItem, Goto, Fresh, Inv, TypeOK
    <3>2. ReadBefore(user[r], account'[r], cache[user[r]].expires - TTL - cache[user[r]].delay)
      BY <2>2, <2>3, <3>1, NullAssumption DEF Inv, EntriesHonest, KeyErrorOnlyAtExpiry, GetItem
    <3>3. t \in Nat
      BY <2>2, <3>1 DEF Inv, TypeOK, Entry
    <3> QED BY <2>3, <3>1, <3>2, <3>3, TTLAssumption
            DEF ReadBefore, Waited, GetItem, Inv, TypeOK, Entry
  <2>4. CASE Resume(r)
    <3>1. account'[r] = account[r] /\ account[r] \in Versions /\ pc[r] = "resume"
      BY <2>4 DEF Resume, Goto, Inv, TypeOK
    <3>2. ReadBefore(user[r], account[r], readAt[r])
      BY <3>1, NullAssumption DEF Inv, QueriesHonest, Versions
    <3>3. t \in Nat
      BY <2>2, <3>1 DEF Inv, TypeOK
    <3> QED BY <3>1, <3>2, <3>3, TTLAssumption DEF ReadBefore, Waited, Inv, TypeOK
  <2> QED BY <2>1, <2>3, <2>4
<1> QED BY <1>1, CacheInvariant, PTL DEF Spec, BoundedStaleness

\* Nobody is refused because of what the cache remembers.
THEOREM RefusalsAreCurrent == Spec => []RefusalIsCurrent
<1>1. Inv => RefusalIsCurrent
  BY DEF Inv, AbsenceSeen, RefusalIsCurrent
<1> QED BY <1>1, CacheInvariant, PTL

\* Between the test and the lookup the entry can expire and nothing else.
THEOREM EntriesStay == Spec => []KeyErrorOnlyAtExpiry
<1>1. Inv => KeyErrorOnlyAtExpiry
  BY DEF Inv
<1> QED BY <1>1, CacheInvariant, PTL

=============================================================================

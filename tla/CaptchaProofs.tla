---------------------------- MODULE CaptchaProofs ----------------------------
(***************************************************************************)
(* What is proved of Captcha: the types, and that a code works once.       *)
(*                                                                         *)
(* The argument follows one issue of a code, a number that no two SETs     *)
(* share.  An issue that was spent is under no key (SpentGone), so a       *)
(* verification that begins later cannot find it; DELETE names a key and   *)
(* not an issue, hence the two conjuncts that tie an issue to one key.     *)
(***************************************************************************)
EXTENDS Captcha, TLAPS

\* A call that has yet to send a command has its arguments; one that has yet to
\* look for a code has found none, one that deletes has found a matching one.
CallShape ==
    \A r \in Requests :
        /\ pc[r] \in {"rate", "set", "get", "delete"} =>
               key[r] \in Keys /\ code[r] \in Codes
        /\ pc[r] = "idle" => got[r] = Null
        /\ pc[r] \in {"delete", "true"} =>
               got[r] # Null /\ Matches(got[r].code, code[r])

\* Every issue that the state speaks of is one that was stored.
Numbered ==
    /\ \A k \in Keys : store[k] # Null => store[k].issue <= issues
    /\ \A r \in Requests : got[r] # Null => got[r].issue <= issues
    /\ \A n \in spent : n <= issues

\* No two keys hold the same issue.
OneKey ==
    \A j, k \in Keys :
        store[j] # Null /\ store[k] # Null /\ store[j].issue = store[k].issue => j = k

\* The issue that a call found is under the key it looked at, or nowhere.
FoundUnderKey ==
    \A r \in Requests, k \in Keys :
        got[r] # Null /\ store[k] # Null /\ store[k].issue = got[r].issue => k = key[r]

\* Under the key a call looked at there is, if anything, what it found or newer.
NoneOlder ==
    \A r \in Requests, k \in Keys :
        got[r] # Null /\ store[k] # Null /\ key[r] = k => got[r].issue <= store[k].issue

\* A spent issue is under no key.
SpentGone == \A k \in Keys : store[k] # Null => store[k].issue \notin spent

\* What a call found had not been spent when the call began.
FoundUnspent ==
    \A r \in Requests :
        /\ before[r] \subseteq spent
        /\ got[r] # Null => got[r].issue \notin before[r]

OnceInv ==
    TypeOK /\ CallShape /\ Numbered /\ OneKey /\ FoundUnderKey /\ NoneOlder
    /\ SpentGone /\ FoundUnspent

USE DEF PCs, Done

LEMMA StoredItem ==
    ASSUME TypeOK, NEW k \in Keys
    PROVE  /\ Stored(k) \in Item \union {Null}
           /\ Stored(k) # Null => store[k] # Null /\ Stored(k) = store[k]
  BY DEF TypeOK, Stored

LEMMA InitOnce == Init => OnceInv
  BY NullAssumption
  DEF Init, OnceInv, TypeOK, CallShape, Numbered, OneKey, FoundUnderKey, NoneOlder,
      SpentGone, FoundUnspent

\* The steps that leave what is stored and what is spent alone.
LEMMA QuietStep ==
    ASSUME OnceInv, NEW r \in Requests,
           Generate(r) \/ Rate(r) \/ Verify(r) \/ Fail(r) \/ Return(r) \/ Tick
    PROVE  OnceInv'
<1> USE NullAssumption
<1>1. CASE Generate(r) \/ Verify(r)
  <2>1. PICK k \in Keys, c \in Codes, s \in {"rate", "get"} : Start(r, k, c, s)
    BY <1>1 DEF Generate, Verify
  <2>2. TypeOK'
    BY <2>1 DEF OnceInv, TypeOK, Start, Goto
  <2>3. CallShape' /\ FoundUnderKey' /\ NoneOlder' /\ FoundUnspent'
    BY <2>1 DEF OnceInv, TypeOK, CallShape, FoundUnderKey, NoneOlder, FoundUnspent, Start, Goto
  <2>4. Numbered' /\ OneKey' /\ SpentGone'
    BY <2>1 DEF OnceInv, Numbered, OneKey, SpentGone, Start
  <2>5. QED BY <2>2, <2>3, <2>4 DEF OnceInv
<1>2. CASE Rate(r) \/ Fail(r)
  <2>1. TypeOK'
    BY <1>2 DEF OnceInv, TypeOK, Rate, Fail, Goto
  <2>2. CallShape'
    BY <1>2 DEF OnceInv, TypeOK, CallShape, Rate, Fail, Goto
  <2>3. Numbered' /\ OneKey' /\ FoundUnderKey' /\ NoneOlder' /\ SpentGone' /\ FoundUnspent'
    BY <1>2 DEF OnceInv, Numbered, OneKey, FoundUnderKey, NoneOlder, SpentGone, FoundUnspent,
                Rate, Fail
  <2>4. QED BY <2>1, <2>2, <2>3 DEF OnceInv
<1>3. CASE Return(r)
  <2>1. TypeOK'
    BY <1>3 DEF OnceInv, TypeOK, Return, Goto
  <2>2. CallShape' /\ FoundUnderKey' /\ NoneOlder' /\ FoundUnspent'
    BY <1>3 DEF OnceInv, TypeOK, CallShape, FoundUnderKey, NoneOlder, FoundUnspent, Return, Goto
  <2>3. Numbered' /\ OneKey' /\ SpentGone'
    BY <1>3 DEF OnceInv, TypeOK, Numbered, OneKey, SpentGone, Return
  <2>4. QED BY <2>1, <2>2, <2>3 DEF OnceInv
<1>4. CASE Tick
  BY <1>4 DEF OnceInv, TypeOK, CallShape, Numbered, OneKey, FoundUnderKey, NoneOlder,
              SpentGone, FoundUnspent, Tick
<1>5. QED BY <1>1, <1>2, <1>3, <1>4

\* GET finds an issue under the key of the call, hence none that was spent.
LEMMA GetStep == ASSUME OnceInv, NEW r \in Requests, Get(r) PROVE OnceInv'
<1> USE NullAssumption
<1> DEFINE item == Stored(key[r])
<1>1. key[r] \in Keys /\ code[r] \in Codes
  BY DEF OnceInv, CallShape, Get
<1>2. item \in Item \union {Null} /\ (item # Null => store[key[r]] # Null /\ item = store[key[r]])
  BY <1>1, StoredItem DEF OnceInv
<1>3. /\ pc[r] = "get"
      /\ got' = [got EXCEPT ![r] = item]
      /\ \/ item # Null /\ Matches(item.code, code[r]) /\ pc' = [pc EXCEPT ![r] = "delete"]
         \/ pc' = [pc EXCEPT ![r] = "false"]
      /\ UNCHANGED <<store, clock, issues, key, code, spent, before>>
  BY DEF Get, Goto
<1> HIDE DEF item
<1>4. TypeOK'
  BY <1>2, <1>3 DEF OnceInv, TypeOK
<1>5. CallShape'
  BY <1>3 DEF OnceInv, TypeOK, CallShape, Matches
<1>6. Numbered' /\ OneKey' /\ SpentGone'
  BY <1>1, <1>2, <1>3 DEF OnceInv, TypeOK, Numbered, OneKey, SpentGone
<1>7. FoundUnderKey'
  BY <1>1, <1>2, <1>3 DEF OnceInv, TypeOK, FoundUnderKey, OneKey
<1>8. FoundUnspent'
  BY <1>1, <1>2, <1>3 DEF OnceInv, TypeOK, FoundUnspent, SpentGone
<1>9. NoneOlder'
  <2>1. item # Null => item.issue \in Nat
    BY <1>2 DEF Item
  <2>2. QED BY <1>1, <1>2, <1>3, <2>1 DEF OnceInv, TypeOK, NoneOlder
<1>10. QED BY <1>4, <1>5, <1>6, <1>7, <1>8, <1>9 DEF OnceInv

\* SET stores an issue that no state has spoken of.
LEMMA SetStep ==
    ASSUME OnceInv, NEW r \in Requests, Set(r) \/ SetUnanswered(r) PROVE OnceInv'
<1> USE NullAssumption
<1> DEFINE new == [code |-> code[r], expires |-> clock + ExpireSeconds, issue |-> issues + 1]
<1>1. key[r] \in Keys /\ code[r] \in Codes
  BY DEF OnceInv, CallShape, Set, SetUnanswered
<1>2. /\ pc[r] = "set"
      /\ issues' = issues + 1
      /\ store' = [store EXCEPT ![key[r]] = new]
      /\ pc' \in {[pc EXCEPT ![r] = "generated"], [pc EXCEPT ![r] = "error"]}
      /\ UNCHANGED <<clock, key, code, got, spent, before>>
  BY DEF Set, SetUnanswered, Put, Goto
<1>3. new \in Item /\ new # Null /\ new.issue = issues + 1
  BY <1>1, ExpireAssumption DEF OnceInv, TypeOK, Item
<1> HIDE DEF new
<1>4. TypeOK'
  BY <1>1, <1>2, <1>3 DEF OnceInv, TypeOK
<1>5. CallShape'
  BY <1>2 DEF OnceInv, TypeOK, CallShape, Matches
<1>6. \A k \in Keys : store'[k] = IF k = key[r] THEN new ELSE store[k]
  BY <1>1, <1>2 DEF OnceInv, TypeOK
<1>7. issues \in Nat /\ spent \subseteq Nat /\ spent' = spent /\ got' = got /\ key' = key
  BY <1>2 DEF OnceInv, TypeOK
<1>8. /\ \A k \in Keys : store[k] # Null => store[k].issue \in Nat
      /\ \A s \in Requests : got[s] # Null => got[s].issue \in Nat
  BY DEF OnceInv, TypeOK, Item
<1>9. Numbered'
  <2>1. \A k \in Keys : store'[k] # Null => store'[k].issue <= issues'
    BY <1>2, <1>3, <1>6, <1>7, <1>8 DEF OnceInv, Numbered
  <2>2. \A s \in Requests : got'[s] # Null => got'[s].issue <= issues'
    BY <1>2, <1>7, <1>8 DEF OnceInv, Numbered
  <2>3. \A n \in spent' : n <= issues'
    BY <1>2, <1>7 DEF OnceInv, Numbered
  <2>4. QED BY <2>1, <2>2, <2>3 DEF Numbered
<1>10. OneKey'
  BY <1>3, <1>6, <1>7, <1>8 DEF OnceInv, OneKey, Numbered
<1>11. FoundUnderKey'
  BY <1>3, <1>6, <1>7, <1>8 DEF OnceInv, FoundUnderKey, Numbered
<1>12. SpentGone'
  BY <1>3, <1>6, <1>7, <1>8 DEF OnceInv, SpentGone, Numbered
<1>13. FoundUnspent'
  BY <1>2 DEF OnceInv, FoundUnspent
<1>14. NoneOlder'
  BY <1>3, <1>6, <1>7, <1>8 DEF OnceInv, NoneOlder, Numbered
<1>15. QED BY <1>4, <1>5, <1>9, <1>10, <1>11, <1>12, <1>13, <1>14 DEF OnceInv

\* DELETE empties the only key that can still hold the issue it spends.
LEMMA DeleteStep ==
    ASSUME OnceInv, NEW r \in Requests, Delete(r) \/ DeleteUnanswered(r) PROVE OnceInv'
<1> USE NullAssumption
<1>1. /\ key[r] \in Keys /\ got[r] # Null /\ Matches(got[r].code, code[r])
      /\ got[r].issue \in Nat
  BY DEF OnceInv, TypeOK, CallShape, Delete, DeleteUnanswered, Item
<1>2. /\ pc[r] = "delete"
      /\ store' = [store EXCEPT ![key[r]] = Null]
      /\ spent' \in {spent, spent \union {got[r].issue}}
      /\ pc' \in {[pc EXCEPT ![r] = "true"], [pc EXCEPT ![r] = "error"]}
      /\ UNCHANGED <<clock, issues, key, code, got, before>>
  BY DEF Delete, DeleteUnanswered, Goto
<1>3. \A k \in Keys : store'[k] = IF k = key[r] THEN Null ELSE store[k]
  BY <1>1, <1>2 DEF OnceInv, TypeOK
<1>4. TypeOK'
  BY <1>1, <1>2 DEF OnceInv, TypeOK
<1>5. CallShape'
  BY <1>1, <1>2 DEF OnceInv, TypeOK, CallShape, Matches
<1>6. Numbered'
  BY <1>1, <1>2, <1>3 DEF OnceInv, TypeOK, Numbered
<1>7. OneKey' /\ FoundUnderKey' /\ NoneOlder'
  BY <1>2, <1>3 DEF OnceInv, OneKey, FoundUnderKey, NoneOlder
<1>8. SpentGone'
  BY <1>1, <1>2, <1>3 DEF OnceInv, SpentGone, FoundUnderKey
<1>9. FoundUnspent'
  BY <1>2 DEF OnceInv, FoundUnspent
<1>10. QED BY <1>4, <1>5, <1>6, <1>7, <1>8, <1>9 DEF OnceInv

LEMMA NextOnce == OnceInv /\ [Next]_vars => OnceInv'
<1> SUFFICES ASSUME OnceInv, [Next]_vars PROVE OnceInv'
  OBVIOUS
<1>1. CASE UNCHANGED vars
  BY <1>1 DEF OnceInv, TypeOK, CallShape, Numbered, OneKey, FoundUnderKey, NoneOlder,
              SpentGone, FoundUnspent, Matches, vars
<1>2. ASSUME NEW r \in Requests, Generate(r) \/ Rate(r) \/ Verify(r) \/ Fail(r) \/ Return(r)
      PROVE  OnceInv'
  BY <1>2, QuietStep
<1>3. ASSUME NEW r \in Requests, Set(r) \/ SetUnanswered(r) PROVE OnceInv'
  BY <1>3, SetStep
<1>4. ASSUME NEW r \in Requests, Get(r) PROVE OnceInv'
  BY <1>4, GetStep
<1>5. ASSUME NEW r \in Requests, Delete(r) \/ DeleteUnanswered(r) PROVE OnceInv'
  BY <1>5, DeleteStep
<1>6. CASE Tick
  BY <1>6 DEF OnceInv, TypeOK, CallShape, Numbered, OneKey, FoundUnderKey, NoneOlder,
              SpentGone, FoundUnspent, Tick
<1>7. QED BY <1>1, <1>2, <1>3, <1>4, <1>5, <1>6 DEF Next

\* The inductive invariant.
THEOREM CodesOnce == Spec => []OnceInv
<1>1. QED BY InitOnce, NextOnce, PTL DEF Spec

\* Type correctness.
THEOREM CaptchaTypes == Spec => []TypeOK
<1>1. OnceInv => TypeOK
  BY DEF OnceInv
<1>2. QED BY CodesOnce, <1>1, PTL

\* verify_captcha_code answers True for an issue of a code at most once to calls
\* that do not overlap, whatever fails, expires or is issued in between.
THEOREM CodesWorkOnce == Spec => []NoReplay
<1>1. OnceInv => NoReplay
  BY DEF OnceInv, CallShape, FoundUnspent, NoReplay
<1>2. QED BY CodesOnce, <1>1, PTL

\* Only the DELETE of a verification whose code matched takes a code away before
\* it expires, the code that was found or a newer one.
THEOREM GuessesKeepCodes == Spec => GuessesAreFree
<1> DEFINE Kept == \A k \in Keys :
                Stored(k) # Null /\ store'[k] = Null =>
                    \E r \in Requests : /\ key[r] = k /\ pc[r] = "delete"
                                        /\ got[r] # Null /\ Matches(got[r].code, code[r])
                                        /\ got[r].issue <= store[k].issue
<1>1. ASSUME OnceInv, [Next]_vars PROVE [Kept]_vars
  <2> SUFFICES ASSUME Next, NEW k \in Keys, Stored(k) # Null, store'[k] = Null
               PROVE  \E r \in Requests : /\ key[r] = k /\ pc[r] = "delete"
                                          /\ got[r] # Null /\ Matches(got[r].code, code[r])
                                          /\ got[r].issue <= store[k].issue
    BY <1>1
  <2>1. store[k] # Null
    BY <1>1, StoredItem DEF OnceInv
  <2>2. ASSUME NEW r \in Requests, Set(r) \/ SetUnanswered(r) PROVE FALSE
    <3> DEFINE new == [code |-> code[r], expires |-> clock + ExpireSeconds,
                       issue |-> issues + 1]
    <3>1. key[r] \in Keys /\ code[r] \in Codes
      BY <1>1, <2>2 DEF OnceInv, CallShape, Set, SetUnanswered
    <3>2. new \in Item
      BY <1>1, <3>1, ExpireAssumption DEF OnceInv, TypeOK, Item
    <3>3. store' = [store EXCEPT ![key[r]] = new]
      BY <2>2 DEF Set, SetUnanswered, Put
    <3> HIDE DEF new
    <3>4. store'[k] \in {store[k], new}
      BY <1>1, <3>1, <3>3 DEF OnceInv, TypeOK
    <3>5. QED BY <2>1, <3>2, <3>4, NullAssumption
  <2>3. PICK r \in Requests : Delete(r) \/ DeleteUnanswered(r)
    BY <2>1, <2>2
    DEF Next, Generate, Rate, Verify, Start, Get, Fail, Return, Tick
  <2>4. key[r] = k
    BY <1>1, <2>1, <2>3 DEF OnceInv, TypeOK, Delete, DeleteUnanswered
  <2>5. got[r].issue <= store[k].issue
    BY <1>1, <2>1, <2>3, <2>4 DEF OnceInv, CallShape, NoneOlder, Delete, DeleteUnanswered
  <2>6. QED BY <1>1, <2>3, <2>4, <2>5 DEF OnceInv, CallShape, Delete, DeleteUnanswered
<1>2. QED BY CodesOnce, <1>1, PTL DEF Spec, GuessesAreFree

=============================================================================

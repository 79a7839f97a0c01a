------------------------------ MODULE Captcha -------------------------------
(***************************************************************************)
(* The one-time codes of storages/redis/util.py: concurrent calls of       *)
(* generate_capthca_code and verify_captcha_code against one Redis server, *)
(* each over a connection of its own RedisConfig.get_redis.                *)
(*                                                                         *)
(* Redis executes a command atomically; between the commands of one call   *)
(* those of others run and time passes.  A command may fail before or      *)
(* after the server executed it.                                           *)
(***************************************************************************)
EXTENDS Integers, FiniteSets

CONSTANTS
    Keys,            \* unique_key
    Codes,           \* codes as they are written
    Lower,           \* Lower[c], the code c in lower case
    Requests,        \* calls in progress, in any worker
    ExpireSeconds,   \* expire_seconds
    MaxTime,         \* bound on the clock, in seconds
    MaxIssues,       \* bound on the number of codes issued
    Null             \* None

ASSUME ExpireAssumption == ExpireSeconds \in Nat \ {0}
ASSUME BoundsAssumption ==
    MaxTime \in Nat /\ MaxIssues \in Nat

VARIABLES
    store,   \* store[k], the code under key k with its expiry and issue, or Null
    clock,   \* the time in seconds
    issues,  \* how many codes were stored
    pc,      \* pc[r], the command call r is about to send, or how it ended
    key,     \* key[r], the argument unique_key
    code,    \* code[r], the code generated or given
    got,     \* got[r], what GET found
    spent,   \* issues some verification has answered True for (history)
    before   \* before[r], the value of spent when call r began (history)

vars == <<store, clock, issues, pc, key, code, got, spent, before>>

\* An issue is a number: each SET stores a new one (history).
Item == [code: Codes, expires: Nat, issue: Nat]

ASSUME NullAssumption ==
    Null \notin Nat /\ Null \notin Codes /\ Null \notin Keys /\ Null \notin Item

Done == {"generated", "true", "false", "error"}
PCs == {"idle", "rate", "set", "get", "delete"} \union Done

\* What GET finds: Redis hides a key from the second in which it expires.
Stored(k) ==
    IF store[k] # Null /\ clock < store[k].expires THEN store[k] ELSE Null

\* cached_code.lower() == code.lower()
Matches(c, d) == Lower[c] = Lower[d]

-----------------------------------------------------------------------------
Init ==
    /\ store = [k \in Keys |-> Null]
    /\ clock = 0
    /\ issues = 0
    /\ pc = [r \in Requests |-> "idle"]
    /\ key = [r \in Requests |-> Null]
    /\ code = [r \in Requests |-> Null]
    /\ got = [r \in Requests |-> Null]
    /\ spent = {}
    /\ before = [r \in Requests |-> {}]

Goto(r, s) == pc' = [pc EXCEPT ![r] = s]

Start(r, k, c, s) ==
    /\ pc[r] = "idle"
    /\ Goto(r, s)
    /\ key' = [key EXCEPT ![r] = k]
    /\ code' = [code EXCEPT ![r] = c]
    /\ before' = [before EXCEPT ![r] = spent]
    /\ UNCHANGED <<store, clock, issues, got, spent>>

\* generate_capthca_code: generate_random_string gives some code.
Generate(r) == \E k \in Keys, c \in Codes : Start(r, k, c, "rate")

\* verify_captcha_code.
Verify(r) == \E k \in Keys, c \in Codes : Start(r, k, c, "get")

\* await r.get(f"{unique_key}:RateLimit"): nothing in the repository sets this
\* key, so GET finds None and the call is never limited.
Rate(r) ==
    /\ pc[r] = "rate"
    /\ Goto(r, "set")
    /\ UNCHANGED <<store, clock, issues, key, code, got, spent, before>>

Put(r) ==
    /\ issues < MaxIssues
    /\ issues' = issues + 1
    /\ store' = [store EXCEPT ![key[r]] =
          [code |-> code[r], expires |-> clock + ExpireSeconds, issue |-> issues + 1]]

\* await r.set(unique_key, code, ex=expire_seconds).
Set(r) ==
    /\ pc[r] = "set"
    /\ Put(r)
    /\ Goto(r, "generated")
    /\ UNCHANGED <<clock, key, code, got, spent, before>>

\* The SET is executed, its reply is lost: the code is stored, nobody knows it.
SetUnanswered(r) ==
    /\ pc[r] = "set"
    /\ Put(r)
    /\ Goto(r, "error")
    /\ UNCHANGED <<clock, key, code, got, spent, before>>

\* cached_code = await r.get(unique_key), then the comparison.
\* Mutant: a code that does not match is deleted as well.
GetDeletesAlways(r) ==
    LET item == Stored(key[r]) IN
    /\ pc[r] = "get"
    /\ got' = [got EXCEPT ![r] = item]
    /\ Goto(r, IF item # Null THEN "delete" ELSE "false")
    /\ UNCHANGED <<store, clock, issues, key, code, spent, before>>
Get(r) ==
    LET item == Stored(key[r]) IN
    /\ pc[r] = "get"
    /\ got' = [got EXCEPT ![r] = item]
    /\ Goto(r, IF item # Null /\ Matches(item.code, code[r]) THEN "delete" ELSE "false")
    /\ UNCHANGED <<store, clock, issues, key, code, spent, before>>

\* await r.delete(unique_key): whatever the key holds by now.
\* Mutant: the code is not deleted.
DeleteSkipped(r) ==
    /\ pc[r] = "delete"
    /\ spent' = spent \union {got[r].issue}
    /\ Goto(r, "true")
    /\ UNCHANGED <<store, clock, issues, key, code, got, before>>
Delete(r) ==
    /\ pc[r] = "delete"
    /\ store' = [store EXCEPT ![key[r]] = Null]
    /\ spent' = spent \union {got[r].issue}
    /\ Goto(r, "true")
    /\ UNCHANGED <<clock, issues, key, code, got, before>>

\* The DELETE is executed, its reply is lost: the call raises.
DeleteUnanswered(r) ==
    /\ pc[r] = "delete"
    /\ store' = [store EXCEPT ![key[r]] = Null]
    /\ Goto(r, "error")
    /\ UNCHANGED <<clock, issues, key, code, got, spent, before>>

\* A command fails before the server executed it.
Fail(r) ==
    /\ pc[r] \in {"rate", "set", "get", "delete"}
    /\ Goto(r, "error")
    /\ UNCHANGED <<store, clock, issues, key, code, got, spent, before>>

Return(r) ==
    /\ pc[r] \in Done
    /\ Goto(r, "idle")
    /\ key' = [key EXCEPT ![r] = Null]
    /\ code' = [code EXCEPT ![r] = Null]
    /\ got' = [got EXCEPT ![r] = Null]
    /\ before' = [before EXCEPT ![r] = {}]
    /\ UNCHANGED <<store, clock, issues, spent>>

Tick ==
    /\ clock < MaxTime
    /\ clock' = clock + 1
    /\ UNCHANGED <<store, issues, pc, key, code, got, spent, before>>

Next ==
    \/ \E r \in Requests :
         \/ Generate(r) \/ Rate(r) \/ Set(r) \/ SetUnanswered(r)
         \/ Verify(r) \/ Get(r) \/ Delete(r) \/ DeleteUnanswered(r)
         \/ Fail(r) \/ Return(r)
    \/ Tick

Spec == Init /\ [][Next]_vars

-----------------------------------------------------------------------------
(* Properties. *)

\* The types of the variables.
TypeOK ==
    /\ store \in [Keys -> Item \union {Null}]
    /\ clock \in Nat
    /\ issues \in Nat
    /\ pc \in [Requests -> PCs]
    /\ key \in [Requests -> Keys \union {Null}]
    /\ code \in [Requests -> Codes \union {Null}]
    /\ got \in [Requests -> Item \union {Null}]
    /\ spent \subseteq Nat
    /\ before \in [Requests -> SUBSET Nat]

\* A code works once: a verification that begins after another one answered
\* True for a code does not answer True for the same issue of it.  (Two that
\* overlap may both do: GET and DELETE are not one command.)
NoReplay ==
    \A r \in Requests : pc[r] = "true" => got[r].issue \notin before[r]

\* A code disappears before it expires only through a verification that found
\* a matching code under its key: a wrong guess uses nothing up.  DELETE names
\* the key, so what goes may be a newer code than the one found, never an older.
GuessesAreFree ==
    [][\A k \in Keys :
          Stored(k) # Null /\ store'[k] = Null =>
              \E r \in Requests :
                  /\ key[r] = k /\ pc[r] = "delete"
                  /\ got[r] # Null /\ Matches(got[r].code, code[r])
                  /\ got[r].issue <= store[k].issue]_vars

=============================================================================

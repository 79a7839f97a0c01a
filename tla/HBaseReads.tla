------------------------------ MODULE HBaseReads ------------------------------
(***************************************************************************)
(* HBaseORM.scan and get_row_list (storages/hbase/models/base.py): one     *)
(* call with its retries, against a table that others change meanwhile.    *)
(*                                                                         *)
(* Both are asynchronous generators: each yield hands a row to a consumer  *)
(* that may take the next one or go away.  scan converts and yields the    *)
(* rows inside its retry loop, get_row_list after it.                      *)
(***************************************************************************)
EXTENDS Integers, Sequences, SequencesExt

CONSTANTS
    LastKey,     \* the row keys are 1..LastKey, in the order of the table
    RetryTimes,  \* Meta.retry_times
    Limit,       \* limit of the scan: how many rows it may return
    MaxChanges   \* bound on the changes of the table

ASSUME LastKeyAssumption == LastKey \in Nat
ASSUME RetryAssumption == RetryTimes \in Nat \ {0}
ASSUME BoundsAssumption == Limit \in Nat \ {0} /\ MaxChanges \in Nat

VARIABLES
    table,     \* table[k]: no row, a row, or a row specify_cls rejects
    changes,   \* how often the table has changed
    mode,      \* the function called
    wanted,    \* row_key_list of get_row_list
    pc,        \* where the call is, or how it ended
    attempt,   \* the value of the loop's counter, from 1
    exc,       \* an exception is remembered in exc
    results,   \* the rows the server returned to the last successful call
    next,      \* index in results of the row to convert next
    yielded,   \* the keys handed to the consumer, in order
    open,      \* clients whose connection was opened and not closed
    failures,  \* attempts that raised (history)
    rejected,  \* a row was rejected by specify_cls (history)
    always,    \* keys whose row was there and good since the call began (history)
    ever       \* keys whose row was there at some time since then (history)

tableVars == <<table, changes, always, ever>>
callVars == <<mode, wanted>>
vars == <<table, changes, mode, wanted, pc, attempt, exc, results, next, yielded,
          open, failures, rejected, always, ever>>

Keys == 1..LastKey
Ended == {"done", "raised", "abandoned"}

Present(k) == table[k] # "none"

\* The order of the table; the keys of get_row_list are asked for in it.
Ascending(S) ==
    {s \in UNION {[1..n -> S] : n \in 0..LastKey} :
        Range(s) = S /\ \A i, j \in DOMAIN s : i < j => s[i] < s[j]}

Row(k) == [key |-> k, good |-> table[k] = "good"]
Cut(s) == [i \in 1..(IF Len(s) < Limit THEN Len(s) ELSE Limit) |-> s[i]]

\* The server: of the range, the first Limit rows; of the keys, those with a row.
\* Mutant: a key without a row is not skipped.
AnswersEvery(rows) ==
    IF mode = "scan"
    THEN \E s \in Ascending({k \in Keys : Present(k)}) : rows = Cut([i \in DOMAIN s |-> Row(s[i])])
    ELSE \E s \in Ascending(wanted) : rows = [i \in DOMAIN s |-> [key |-> s[i], good |-> TRUE]]
Answers(rows) ==
    IF mode = "scan"
    THEN \E s \in Ascending({k \in Keys : Present(k)}) : rows = Cut([i \in DOMAIN s |-> Row(s[i])])
    ELSE \E s \in Ascending({k \in wanted : Present(k)}) : rows = [i \in DOMAIN s |-> Row(s[i])]

-----------------------------------------------------------------------------
Init ==
    /\ table \in [Keys -> {"none", "good", "bad"}]
    /\ changes = 0
    /\ mode \in {"scan", "get_row_list"}
    /\ wanted \in SUBSET Keys
    /\ mode = "scan" => wanted = {}
    /\ pc = "idle"
    /\ attempt = 0
    /\ exc = FALSE
    /\ results = <<>>
    /\ next = 1
    /\ yielded = <<>>
    /\ open = 0
    /\ failures = 0
    /\ rejected = FALSE
    /\ always = {}
    /\ ever = {}

\* The consumer asks for the first row: the body runs up to the loop.
Start ==
    /\ pc = "idle"
    /\ pc' = "connect"
    /\ attempt' = 1
    /\ always' = {k \in Keys : table[k] = "good"}
    /\ ever' = {k \in Keys : Present(k)}
    /\ UNCHANGED <<table, changes, callVars, exc, results, next, yielded, open, failures, rejected>>

\* The loop is over: scan raises what it caught last, get_row_list what it ever
\* caught.
LoopOver == IF exc' THEN "raised" ELSE "deliver"
NextAttempt ==
    IF attempt < RetryTimes THEN attempt' = attempt + 1 /\ pc' = "connect"
                            ELSE attempt' = attempt /\ pc' = LoopOver

\* except Exception as e: exc = e.
Caught ==
    /\ exc' = TRUE
    /\ failures' = failures + 1
    /\ NextAttempt

\* get_thrift2_client.
Connect ==
    /\ pc = "connect"
    /\ pc' = "request"
    /\ open' = open + 1
    /\ UNCHANGED <<tableVars, callVars, attempt, exc, results, next, yielded, failures, rejected>>

ConnectFails ==
    /\ pc = "connect"
    /\ Caught
    /\ UNCHANGED <<tableVars, callVars, results, next, yielded, open, rejected>>

\* client._scan, client._get_rows.
\* Mutant: another attempt goes on at the index where the last one stopped.
RequestGoesOn ==
    /\ pc = "request"
    /\ Answers(results')
    /\ next' = next
    /\ pc' = "close"
    /\ UNCHANGED <<tableVars, callVars, attempt, exc, yielded, open, failures, rejected>>
Request ==
    /\ pc = "request"
    /\ Answers(results')
    /\ next' = 1
    /\ pc' = "close"
    /\ UNCHANGED <<tableVars, callVars, attempt, exc, yielded, open, failures, rejected>>

\* The request or close_connection raises: the client is dropped as it is.
RequestFails ==
    /\ pc \in {"request", "close"}
    /\ Caught
    /\ UNCHANGED <<tableVars, callVars, results, next, yielded, open, rejected>>

\* client.close_connection(): before the first row is looked at.
\* Mutant: an empty result returns first.
CloseAfterEmpty ==
    /\ pc = "close" /\ mode = "scan"
    /\ open' = IF results = <<>> THEN open ELSE open - 1
    /\ pc' = "deliver"
    /\ UNCHANGED <<tableVars, callVars, attempt, exc, results, next, yielded, failures, rejected>>
CloseScan ==
    /\ pc = "close" /\ mode = "scan"
    /\ open' = open - 1
    /\ pc' = "deliver"
    /\ UNCHANGED <<tableVars, callVars, attempt, exc, results, next, yielded, failures, rejected>>

\* get_row_list: the loop goes on after an attempt that succeeded.
\* Mutant: an attempt that succeeded forgets the exceptions.
CloseForgives ==
    /\ pc = "close" /\ mode = "get_row_list"
    /\ open' = open - 1
    /\ exc' = FALSE
    /\ NextAttempt
    /\ UNCHANGED <<tableVars, callVars, results, next, yielded, failures, rejected>>
CloseRows ==
    /\ pc = "close" /\ mode = "get_row_list"
    /\ open' = open - 1
    /\ exc' = exc
    /\ NextAttempt
    /\ UNCHANGED <<tableVars, callVars, results, next, yielded, failures, rejected>>

\* specify_cls accepts the row and it is yielded.
Yield ==
    /\ pc = "deliver" /\ next <= Len(results) /\ results[next].good
    /\ yielded' = Append(yielded, results[next].key)
    /\ next' = next + 1
    /\ pc' = "yield"
    /\ UNCHANGED <<tableVars, callVars, attempt, exc, results, open, failures, rejected>>

\* specify_cls rejects the row.  scan catches this and tries again from the
\* start; in get_row_list it reaches the consumer.
Reject ==
    /\ pc = "deliver" /\ next <= Len(results) /\ ~results[next].good
    /\ rejected' = TRUE
    /\ IF mode = "scan" THEN Caught
       ELSE pc' = "raised" /\ exc' = exc /\ UNCHANGED <<attempt, failures>>
    /\ UNCHANGED <<tableVars, callVars, results, next, yielded, open>>

\* Mutant: the connection is closed after the rows, and this may raise.
FinishCloses ==
    /\ pc = "deliver" /\ next > Len(results)
    /\ \/ pc' = "done" /\ UNCHANGED <<attempt, exc, failures>>
       \/ mode = "scan" /\ Caught
    /\ UNCHANGED <<tableVars, callVars, results, next, yielded, open, rejected>>
Finish ==
    /\ pc = "deliver" /\ next > Len(results)
    /\ pc' = "done"
    /\ UNCHANGED <<tableVars, callVars, attempt, exc, results, next, yielded, open, failures, rejected>>

\* The consumer asks for the next row, or closes the generator: GeneratorExit is
\* no Exception.
Resume ==
    /\ pc = "yield"
    /\ pc' = "deliver"
    /\ UNCHANGED <<tableVars, callVars, attempt, exc, results, next, yielded, open, failures, rejected>>
Abandon ==
    /\ pc = "yield"
    /\ pc' = "abandoned"
    /\ UNCHANGED <<tableVars, callVars, attempt, exc, results, next, yielded, open, failures, rejected>>

\* Somebody puts or deletes a row.
Change ==
    /\ changes < MaxChanges /\ pc \notin {"idle"} \union Ended
    /\ \E k \in Keys, v \in {"none", "good", "bad"} :
         /\ table[k] # v
         /\ table' = [table EXCEPT ![k] = v]
         /\ always' = always \ {k}
         /\ ever' = IF v = "none" THEN ever ELSE ever \union {k}
    /\ changes' = changes + 1
    /\ UNCHANGED <<callVars, pc, attempt, exc, results, next, yielded, open, failures, rejected>>

Call == \/ Start \/ Connect \/ ConnectFails \/ Request \/ RequestFails
        \/ CloseScan \/ CloseRows \/ Yield \/ Reject \/ Finish \/ Resume

Next == Call \/ Abandon \/ Change

Spec == Init /\ [][Next]_vars

-----------------------------------------------------------------------------
(* Properties. *)

\* A call that ends without an exception has yielded every row that was there
\* all the time, however often it was retried: of a scan that was cut by limit,
\* every one before the last key it yielded.
Asked(k) == mode = "scan" \/ k \in wanted
Complete ==
    pc = "done" =>
        \A k \in always :
            \/ k \in Range(yielded)
            \/ ~Asked(k)
            \/ mode = "scan" /\ Len(results) = Limit /\ k > results[Limit].key

\* Every row that is yielded was in the table at some time during the call.
NoPhantom == Range(yielded) \subseteq ever

\* A failing connection or server never makes the consumer see a row twice; only
\* a row that specify_cls rejects does, because scan starts again after it has
\* yielded the rows before it.
Twice == \E i, j \in DOMAIN yielded : i < j /\ yielded[i] >= yielded[j]
TwiceOnlyAfterReject == Twice => rejected /\ mode = "scan"

\* A connection is left open only by an attempt that raised.
LeaksOnlyByFailures ==
    open <= failures + (IF pc \in {"request", "close"} THEN 1 ELSE 0)

\* get_row_list makes all of its attempts, and one that raises makes the call
\* raise in the end though others succeeded: rows come only from a call none of
\* whose attempts failed.
RowsNeedEveryAttempt ==
    mode = "get_row_list" /\ yielded # <<>> => attempt = RetryTimes /\ failures = 0

=============================================================================

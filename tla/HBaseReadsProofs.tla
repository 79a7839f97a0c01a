-------------------------- MODULE HBaseReadsProofs --------------------------
(***************************************************************************)
(* What is proved of HBaseReads: any number of keys and attempts, any      *)
(* limit, any change of the table at any time.                             *)
(*                                                                         *)
(* All rests on what the rows of the last answer are (Result): in order,   *)
(* each there at some time, and nothing missing that was there all along,  *)
(* up to the limit; and on how much of it was yielded (Delivered).         *)
(***************************************************************************)
EXTENDS HBaseReads, TLAPS

Rows == [key: Keys, good: BOOLEAN]

\* The types of the variables.
Typed ==
    /\ table \in [Keys -> {"none", "good", "bad"}]
    /\ mode \in {"scan", "get_row_list"}
    /\ wanted \subseteq Keys
    /\ pc \in {"idle", "connect", "request", "close", "deliver", "yield"} \union Ended
    /\ attempt \in Nat
    /\ exc \in BOOLEAN
    /\ results \in Seq(Rows)
    /\ next \in Nat \ {0}
    /\ yielded \in Seq(Keys)
    /\ open \in Nat
    /\ failures \in Nat
    /\ rejected \in BOOLEAN
    /\ always \subseteq Keys
    /\ ever \subseteq Keys

\* What was there all along is there, what is there was there at some time.
History ==
    pc # "idle" =>
        /\ \A k \in always : table[k] = "good"
        /\ \A k \in Keys : Present(k) => k \in ever

\* The rows of an answer are in order and were there.
Result ==
    /\ \A i, j \in 1..Len(results) : i < j => results[i].key < results[j].key
    /\ \A i \in 1..Len(results) : results[i].key \in ever

\* No row that was there all along is missing in it, but behind the limit.
Covering(k) ==
    \/ \E i \in 1..Len(results) : results[i].key = k
    \/ mode = "scan" /\ Len(results) = Limit /\ k > results[Limit].key
Whole ==
    pc \in {"close", "deliver", "yield", "done"} =>
        \A k \in always : Asked(k) => Covering(k)

\* The rows before next have been yielded; unless specify_cls rejected one of a
\* scan, they are all that has been.
InOrder == rejected => mode = "get_row_list"
Delivered ==
    /\ pc = "idle" => ~rejected /\ results = <<>> /\ yielded = <<>>
    /\ pc = "close" => next = 1
    /\ pc \in {"deliver", "yield", "done"} =>
           /\ next <= Len(results) + 1
           /\ \A i \in 1..(next - 1) : results[i].key \in Range(yielded)
    /\ pc = "done" => next = Len(results) + 1
    /\ pc \in {"connect", "request", "close"} /\ InOrder => yielded = <<>>
    /\ pc \in {"deliver", "yield"} /\ InOrder =>
           /\ Len(yielded) = next - 1
           /\ \A i \in 1..(next - 1) : yielded[i] = results[i].key
    /\ rejected /\ mode = "get_row_list" => pc = "raised"
    /\ \A i \in 1..Len(yielded) : yielded[i] \in ever

\* get_row_list comes to its rows only when the loop is over without exception.
Attempts ==
    /\ attempt <= RetryTimes
    /\ mode = "get_row_list" /\ ~exc => failures = 0
    /\ mode = "get_row_list" /\ pc \in {"deliver", "yield", "done"} => attempt = RetryTimes /\ ~exc
    /\ mode = "get_row_list" /\ pc \in {"idle", "connect", "request", "close"} => yielded = <<>>
    /\ pc \in {"request", "close"} => open > 0

ReadInv ==
    /\ Typed /\ History /\ Result /\ Whole /\ Delivered /\ Attempts
    /\ TwiceOnlyAfterReject /\ LeaksOnlyByFailures /\ RowsNeedEveryAttempt

USE DEF Keys, Ended, Asked

-----------------------------------------------------------------------------
(* The answers of the server. *)

LEMMA InRow == ASSUME Typed, NEW k \in Keys PROVE Row(k) \in Rows /\ Row(k).key = k
  BY DEF Row, Rows

\* An ordering of some keys has a row for each of them.
LEMMA Ordered ==
    ASSUME Typed, NEW S \in SUBSET Keys, NEW s \in Ascending(S), NEW rows,
           rows = [i \in DOMAIN s |-> Row(s[i])]
    PROVE  /\ rows \in Seq(Rows) /\ Len(rows) = Len(s) /\ s \in Seq(S)
           /\ \A i \in 1..Len(rows) : rows[i].key = s[i] /\ s[i] \in S
           /\ \A i, j \in 1..Len(rows) : i < j => rows[i].key < rows[j].key
           /\ \A k \in S : \E i \in 1..Len(rows) : rows[i].key = k
<1>1. PICK n \in 0..LastKey : s \in [1..n -> S]
  BY DEF Ascending
<1>2. n \in Nat /\ DOMAIN s = 1..n /\ Len(s) = n /\ s \in Seq(S)
  BY <1>1, LastKeyAssumption
<1>3. \A i \in 1..n : s[i] \in S /\ Row(s[i]) \in Rows /\ Row(s[i]).key = s[i]
  BY <1>1, InRow
<1>4. rows \in [1..n -> Rows] /\ rows \in Seq(Rows) /\ Len(rows) = n
  BY <1>2, <1>3
<1>5. \A i \in 1..n : rows[i].key = s[i]
  BY <1>2, <1>3
<1>6. /\ \A i, j \in 1..n : i < j => s[i] < s[j]
      /\ \A k \in S : \E i \in 1..n : s[i] = k
  BY <1>2 DEF Ascending, Range
<1>7. QED BY <1>2, <1>3, <1>4, <1>5, <1>6

\* Cut keeps the first rows.
LEMMA CutRows ==
    ASSUME NEW rows \in Seq(Rows)
    PROVE  /\ Cut(rows) \in Seq(Rows)
           /\ Len(Cut(rows)) = (IF Len(rows) < Limit THEN Len(rows) ELSE Limit)
           /\ \A i \in 1..Len(Cut(rows)) : i \in 1..Len(rows) /\ Cut(rows)[i] = rows[i]
<1> DEFINE n == IF Len(rows) < Limit THEN Len(rows) ELSE Limit
<1>1. n \in Nat /\ n <= Len(rows)
  BY BoundsAssumption
<1>2. Cut(rows) = [i \in 1..n |-> rows[i]]
  BY DEF Cut
<1> HIDE DEF n
<1>3. \A i \in 1..n : i \in 1..Len(rows) /\ rows[i] \in Rows
  BY <1>1
<1>4. Cut(rows) \in [1..n -> Rows]
  BY <1>2, <1>3
<1>5. Cut(rows) \in Seq(Rows) /\ Len(Cut(rows)) = n
  BY <1>1, <1>4
<1>6. QED BY <1>2, <1>3, <1>5 DEF n

\* Rows that are there and not in the answer are behind its last one.
LEMMA AnswerRows ==
    ASSUME Typed, NEW rows, Answers(rows)
    PROVE  /\ rows \in Seq(Rows)
           /\ \A i, j \in 1..Len(rows) : i < j => rows[i].key < rows[j].key
           /\ \A i \in 1..Len(rows) : Present(rows[i].key)
           /\ \A k \in Keys : Present(k) /\ Asked(k) =>
                  \/ \E i \in 1..Len(rows) : rows[i].key = k
                  \/ mode = "scan" /\ Len(rows) = Limit /\ k > rows[Limit].key
<1>1. CASE mode = "scan"
  <2> DEFINE S == {k \in Keys : Present(k)}
  <2>1. PICK s \in Ascending(S) : rows = Cut([i \in DOMAIN s |-> Row(s[i])])
    BY <1>1 DEF Answers
  <2> DEFINE all == [i \in DOMAIN s |-> Row(s[i])]
  <2>2. S \in SUBSET Keys
    OBVIOUS
  <2> HIDE DEF S
  <2>3. /\ all \in Seq(Rows) /\ Len(all) = Len(s)
        /\ \A i \in 1..Len(all) : all[i].key = s[i] /\ s[i] \in S
        /\ \A i, j \in 1..Len(all) : i < j => all[i].key < all[j].key
        /\ \A k \in S : \E i \in 1..Len(all) : all[i].key = k
    BY <2>2, Ordered
  <2> HIDE DEF all
  <2>4. /\ rows \in Seq(Rows)
        /\ Len(rows) = (IF Len(all) < Limit THEN Len(all) ELSE Limit)
        /\ \A i \in 1..Len(rows) : i \in 1..Len(all) /\ rows[i] = all[i]
    BY <2>1, <2>3, CutRows DEF all
  <2>5. \A i, j \in 1..Len(rows) : i < j => rows[i].key < rows[j].key
    BY <2>3, <2>4
  <2>6. \A i \in 1..Len(rows) : Present(rows[i].key)
    BY <2>3, <2>4 DEF S
  <2>7. ASSUME NEW k \in Keys, Present(k)
        PROVE  (\E i \in 1..Len(rows) : rows[i].key = k) \/ (Len(rows) = Limit /\ k > rows[Limit].key)
    <3>1. PICK i \in 1..Len(all) : all[i].key = k
      BY <2>3, <2>7 DEF S
    <3>2. CASE i \in 1..Len(rows)
      BY <2>4, <3>1, <3>2
    <3>3. CASE i \notin 1..Len(rows)
      <4>1. Len(rows) = Limit /\ Limit < i /\ Limit \in 1..Len(all) /\ Limit \in 1..Len(rows)
        BY <2>3, <2>4, <3>3, BoundsAssumption
      <4>2. all[Limit].key < all[i].key /\ all[Limit].key \in Int /\ all[i].key \in Int
        <5>1. all[Limit] \in Rows /\ all[i] \in Rows
          BY <2>3, <4>1
        <5>2. all[Limit].key \in Int /\ all[i].key \in Int
          BY <5>1, LastKeyAssumption DEF Rows
        <5>3. QED BY <2>3, <4>1, <5>2
      <4>3. QED BY <2>4, <3>1, <4>1, <4>2
    <3>4. QED BY <3>2, <3>3
  <2>8. QED BY <1>1, <2>4, <2>5, <2>6, <2>7
<1>2. CASE mode # "scan"
  <2> DEFINE S == {k \in wanted : Present(k)}
  <2>1. PICK s \in Ascending(S) : rows = [i \in DOMAIN s |-> Row(s[i])]
    BY <1>2 DEF Answers
  <2>2. S \in SUBSET Keys /\ \A k \in Keys : k \in wanted /\ Present(k) <=> k \in S
    BY DEF Typed
  <2> HIDE DEF S
  <2>3. /\ rows \in Seq(Rows)
        /\ \A i \in 1..Len(rows) : rows[i].key = s[i] /\ s[i] \in S
        /\ \A i, j \in 1..Len(rows) : i < j => rows[i].key < rows[j].key
        /\ \A k \in S : \E i \in 1..Len(rows) : rows[i].key = k
    BY <2>1, <2>2, Ordered
  <2>4. QED BY <1>2, <2>2, <2>3 DEF S
<1>3. QED BY <1>1, <1>2

-----------------------------------------------------------------------------
(* The invariant. *)

LEMMA InitRead == Init => ReadInv
<1> SUFFICES ASSUME Init PROVE ReadInv
  OBVIOUS
<1>1. results = <<>> /\ yielded = <<>> /\ Len(results) = 0 /\ Len(yielded) = 0
  BY DEF Init
<1>2. Typed
  <2>1. results \in Seq(Rows) /\ yielded \in Seq(Keys) /\ next \in Nat \ {0}
    BY <1>1 DEF Init
  <2>2. QED BY <2>1 DEF Init, Typed
<1>3. History /\ Whole
  BY DEF Init, History, Whole
<1>4. Result /\ Delivered
  BY <1>1 DEF Init, Result, Delivered, InOrder
<1>5. Attempts /\ LeaksOnlyByFailures /\ RowsNeedEveryAttempt
  BY <1>1, RetryAssumption DEF Init, Attempts, LeaksOnlyByFailures, RowsNeedEveryAttempt
<1>6. TwiceOnlyAfterReject
  BY <1>1 DEF TwiceOnlyAfterReject, Twice
<1>7. QED BY <1>2, <1>3, <1>4, <1>5, <1>6 DEF ReadInv

\* An attempt has failed: the next one begins, or the call raises.
LEMMA CaughtNext ==
    ASSUME attempt \in Nat, attempt <= RetryTimes, Caught
    PROVE  /\ exc' = TRUE /\ failures' = failures + 1
           /\ pc' = "connect" \/ pc' = "raised"
           /\ attempt' \in Nat /\ attempt' <= RetryTimes
<1>1. exc' = TRUE /\ failures' = failures + 1 /\ NextAttempt
  BY DEF Caught
<1>2. CASE attempt < RetryTimes
  BY <1>1, <1>2, RetryAssumption DEF NextAttempt
<1>3. CASE ~(attempt < RetryTimes)
  BY <1>1, <1>3 DEF NextAttempt, LoopOver
<1>4. QED BY <1>1, <1>2, <1>3

USE DEF tableVars, callVars

\* The call begins: what is there now is what may be there all along.
LEMMA StartStep == ASSUME ReadInv, Start PROVE ReadInv'
<1>1. /\ pc = "idle" /\ ~rejected /\ results = <<>> /\ yielded = <<>>
      /\ Len(results) = 0 /\ Len(yielded) = 0
  BY DEF ReadInv, Delivered, Start
<1>2. Typed' /\ History'
  BY DEF ReadInv, Start, Typed, History, Present
<1>3. Result' /\ Delivered'
  BY <1>1 DEF ReadInv, Start, Result, Delivered, InOrder
<1>4. Whole'
  BY DEF Start, Whole
<1>5. Attempts'
  BY <1>1, RetryAssumption DEF ReadInv, Start, Attempts
<1>6. TwiceOnlyAfterReject' /\ RowsNeedEveryAttempt'
  BY <1>1 DEF Start, TwiceOnlyAfterReject, Twice, RowsNeedEveryAttempt
<1>7. LeaksOnlyByFailures'
  BY <1>1 DEF ReadInv, Start, Typed, LeaksOnlyByFailures
<1>8. QED BY <1>2, <1>3, <1>4, <1>5, <1>6, <1>7 DEF ReadInv

\* What leaves the rows alone: connecting, closing, and the failures of both.
LEMMA ConnectionStep ==
    ASSUME ReadInv, Connect \/ ConnectFails \/ RequestFails \/ CloseScan \/ CloseRows
    PROVE  ReadInv'
<1>1. /\ UNCHANGED <<table, mode, wanted, results, next, yielded, rejected, always, ever>>
      /\ pc \in {"connect", "request", "close"}
  BY DEF Connect, ConnectFails, RequestFails, CloseScan, CloseRows
<1>2. attempt \in Nat /\ attempt <= RetryTimes
  BY DEF ReadInv, Typed, Attempts
<1>3. /\ attempt' \in Nat /\ attempt' <= RetryTimes /\ exc' \in BOOLEAN
      /\ \/ pc = "connect" /\ pc' = "request" /\ open' = open + 1 /\ exc' = exc /\ failures' = failures
         \/ pc' \in {"connect", "raised"} /\ open' = open /\ exc' = TRUE /\ failures' = failures + 1
         \/ /\ pc = "close" /\ pc' = "deliver" /\ mode = "scan"
            /\ open' = open - 1 /\ exc' = exc /\ failures' = failures
         \/ /\ pc = "close" /\ mode = "get_row_list"
            /\ open' = open - 1 /\ exc' = exc /\ failures' = failures
            /\ \/ pc' = "connect"
               \/ pc' = "raised"
               \/ pc' = "deliver" /\ ~exc /\ attempt' = RetryTimes
  <2>1. CASE Connect
    BY <1>2, <2>1 DEF ReadInv, Typed, Connect
  <2>2. CASE ConnectFails \/ RequestFails
    BY <1>2, <2>2, CaughtNext DEF ConnectFails, RequestFails
  <2>3. CASE CloseScan
    BY <1>2, <2>3 DEF ReadInv, Typed, CloseScan
  <2>4. CASE CloseRows
    BY <1>2, <2>4, RetryAssumption DEF ReadInv, Typed, CloseRows, NextAttempt, LoopOver
  <2>5. QED BY <2>1, <2>2, <2>3, <2>4
<1>4. Typed'
  <2>1. open \in Nat /\ failures \in Nat /\ (pc = "close" => open > 0)
    BY DEF ReadInv, Typed, Attempts
  <2>2. open' \in Nat /\ failures' \in Nat
    BY <1>3, <2>1
  <2>3. QED BY <1>1, <1>3, <2>2 DEF ReadInv, Typed
<1>5. History' /\ Result'
  BY <1>1 DEF ReadInv, History, Result, Present
<1>6. Whole'
  BY <1>1, <1>3 DEF ReadInv, Whole, Covering
<1>7. Delivered'
  <2>1. pc = "close" => next = 1 /\ Len(results) \in Nat
    BY DEF ReadInv, Typed, Delivered
  <2>2. pc' = "deliver" => pc = "close"
    BY <1>3
  <2>3. InOrder => yielded = <<>>
    BY <1>1 DEF ReadInv, Delivered
  <2>4. pc' # "idle" /\ pc' # "done" /\ pc' # "yield" /\ pc' # "close"
    BY <1>3
  <2>5. rejected => mode = "scan"
    BY <1>1 DEF ReadInv, Delivered, Typed
  <2>6. pc' = "deliver" => next <= Len(results) + 1 /\ 1..(next - 1) = {}
    BY <2>1, <2>2
  <2>7. pc' = "deliver" /\ InOrder => Len(yielded) = next - 1
    BY <2>1, <2>2, <2>3
  <2>8. QED BY <1>1, <2>3, <2>4, <2>5, <2>6, <2>7 DEF ReadInv, Delivered, InOrder
<1>8. Attempts'
  BY <1>1, <1>3 DEF ReadInv, Typed, Attempts
<1>9. TwiceOnlyAfterReject'
  BY <1>1 DEF ReadInv, TwiceOnlyAfterReject, Twice
<1>10. RowsNeedEveryAttempt'
  BY <1>1 DEF ReadInv, Attempts, RowsNeedEveryAttempt
<1>11. LeaksOnlyByFailures'
  BY <1>1, <1>3 DEF ReadInv, Typed, LeaksOnlyByFailures
<1>12. QED BY <1>4, <1>5, <1>6, <1>7, <1>8, <1>9, <1>10, <1>11 DEF ReadInv

\* The server answers with what is there.
LEMMA RequestStep == ASSUME ReadInv, Request PROVE ReadInv'
<1>1. /\ UNCHANGED <<table, mode, wanted, yielded, rejected, always, ever, attempt, exc, open, failures>>
      /\ pc = "request" /\ pc' = "close" /\ next' = 1 /\ Answers(results')
  BY DEF Request
<1>2. /\ results' \in Seq(Rows)
      /\ \A i, j \in 1..Len(results') : i < j => results'[i].key < results'[j].key
      /\ \A i \in 1..Len(results') : Present(results'[i].key)
      /\ \A k \in Keys : Present(k) /\ Asked(k) =>
             \/ \E i \in 1..Len(results') : results'[i].key = k
             \/ mode = "scan" /\ Len(results') = Limit /\ k > results'[Limit].key
  BY <1>1, AnswerRows DEF ReadInv
<1>3. Typed'
  BY <1>1, <1>2 DEF ReadInv, Typed
<1>4. History'
  BY <1>1 DEF ReadInv, History, Present
<1>5. Result'
  <2>1. ASSUME NEW i \in 1..Len(results') PROVE results'[i].key \in ever
    <3>1. results'[i] \in Rows
      BY <1>2
    <3>2. results'[i].key \in Keys
      BY <3>1 DEF Rows
    <3>3. QED BY <1>1, <1>2, <3>2 DEF ReadInv, History
  <2>2. QED BY <1>1, <1>2, <2>1 DEF Result
<1>6. Whole'
  <2>1. \A k \in always : k \in Keys /\ Present(k)
    BY <1>1 DEF ReadInv, Typed, History, Present
  <2>2. QED BY <1>1, <1>2, <2>1 DEF Whole, Covering
<1>7. Delivered'
  BY <1>1 DEF ReadInv, Delivered, InOrder
<1>8. Attempts'
  BY <1>1 DEF ReadInv, Attempts
<1>9. TwiceOnlyAfterReject' /\ RowsNeedEveryAttempt'
  BY <1>1 DEF ReadInv, TwiceOnlyAfterReject, Twice, RowsNeedEveryAttempt
<1>10. LeaksOnlyByFailures'
  BY <1>1 DEF ReadInv, LeaksOnlyByFailures
<1>11. QED BY <1>3, <1>4, <1>5, <1>6, <1>7, <1>8, <1>9, <1>10 DEF ReadInv

\* A row is handed to the consumer: the next one of the answer.
LEMMA YieldStep == ASSUME ReadInv, Yield PROVE ReadInv'
<1> DEFINE row == results[next]
<1>1. /\ UNCHANGED <<table, mode, wanted, results, rejected, always, ever, attempt, exc, open, failures>>
      /\ pc = "deliver" /\ pc' = "yield" /\ next' = next + 1
      /\ next <= Len(results) /\ yielded' = Append(yielded, row.key)
  BY DEF Yield
<1>2. results \in Seq(Rows) /\ yielded \in Seq(Keys) /\ next \in Nat \ {0}
  BY DEF ReadInv, Typed
<1>3. /\ Len(results) \in Nat /\ Len(yielded) \in Nat
      /\ next \in 1..Len(results) /\ row \in Rows /\ row.key \in Keys
  <2>1. next \in 1..Len(results) /\ row \in Rows
    BY <1>1, <1>2
  <2>2. QED BY <1>2, <2>1 DEF Rows
<1>4. row.key \in ever
  BY <1>3 DEF ReadInv, Result
<1> HIDE DEF row
<1>5. /\ yielded' \in Seq(Keys) /\ Len(yielded') = Len(yielded) + 1
      /\ \A i \in 1..Len(yielded) : yielded'[i] = yielded[i]
      /\ yielded'[Len(yielded) + 1] = row.key
  BY <1>1, <1>2, <1>3
<1>6. Range(yielded') = Range(yielded) \union {row.key}
  <2>1. DOMAIN yielded = 1..Len(yielded) /\ DOMAIN yielded' = 1..(Len(yielded) + 1)
    BY <1>2, <1>5
  <2>2. QED BY <1>3, <1>5, <2>1 DEF Range
<1>7. Typed'
  BY <1>1, <1>2, <1>5 DEF ReadInv, Typed
<1>8. History' /\ Result'
  BY <1>1 DEF ReadInv, History, Result, Present
<1>9. Whole'
  BY <1>1 DEF ReadInv, Whole, Covering
<1>10. Delivered'
  <2>1. ASSUME NEW i \in 1..(next' - 1) PROVE results'[i].key \in Range(yielded')
    BY <1>1, <1>2, <1>3, <1>6, <2>1 DEF ReadInv, Delivered, row
  <2>2. InOrder' => Len(yielded') = next' - 1
    BY <1>1, <1>2, <1>3, <1>5 DEF ReadInv, Delivered, InOrder
  <2>3. ASSUME InOrder', NEW i \in 1..(next' - 1) PROVE yielded'[i] = results'[i].key
    <3>1. /\ Len(yielded) = next - 1
          /\ \A j \in 1..(next - 1) : yielded[j] = results[j].key
      BY <1>1, <2>3 DEF ReadInv, Delivered, InOrder
    <3>2. CASE i = next
      BY <1>1, <1>2, <1>3, <1>5, <3>1, <3>2 DEF row
    <3>3. CASE i # next
      BY <1>1, <1>2, <1>3, <1>5, <3>1, <3>3
    <3>4. QED BY <3>2, <3>3
  <2>4. ASSUME NEW i \in 1..Len(yielded') PROVE yielded'[i] \in ever'
    <3>1. \A j \in 1..Len(yielded) : yielded[j] \in ever
      BY DEF ReadInv, Delivered
    <3>2. i \in 1..Len(yielded) \/ i = Len(yielded) + 1
      BY <1>3, <1>5
    <3>3. QED BY <1>1, <1>4, <1>5, <3>1, <3>2
  <2>5. next' <= Len(results') + 1
    BY <1>1, <1>2, <1>3
  <2>6. ~(rejected' /\ mode' = "get_row_list")
    BY <1>1 DEF ReadInv, Delivered
  <2>7. QED BY <1>1, <2>1, <2>2, <2>3, <2>4, <2>5, <2>6 DEF Delivered
<1>11. Attempts'
  BY <1>1 DEF ReadInv, Attempts
<1>12. TwiceOnlyAfterReject'
  <2>1. CASE InOrder
    <3>1. Len(yielded') = next /\ \A i \in 1..next : yielded'[i] = results[i].key
      BY <1>1, <1>2, <1>10, <2>1 DEF Delivered, InOrder
    <3>2. DOMAIN yielded' = 1..next
      BY <1>5, <3>1
    <3>3. \A i, j \in 1..next : i < j => results[i].key < results[j].key
      BY <1>2, <1>3 DEF ReadInv, Result
    <3>4. \A i \in 1..next : results[i].key \in Int
      <4>1. \A i \in 1..next : results[i] \in Rows
        BY <1>2, <1>3
      <4>2. QED BY <4>1, LastKeyAssumption DEF Rows
    <3>5. ~Twice'
      BY <3>1, <3>2, <3>3, <3>4 DEF Twice
    <3>6. QED BY <3>5 DEF TwiceOnlyAfterReject
  <2>2. CASE ~InOrder
    BY <1>1, <2>2 DEF ReadInv, Typed, InOrder, TwiceOnlyAfterReject
  <2>3. QED BY <2>1, <2>2
<1>13. RowsNeedEveryAttempt'
  BY <1>1 DEF ReadInv, Attempts, RowsNeedEveryAttempt
<1>14. LeaksOnlyByFailures'
  BY <1>1 DEF ReadInv, LeaksOnlyByFailures
<1>15. QED BY <1>7, <1>8, <1>9, <1>10, <1>11, <1>12, <1>13, <1>14 DEF ReadInv

\* specify_cls rejects a row: scan begins again, get_row_list raises.
LEMMA RejectStep == ASSUME ReadInv, Reject PROVE ReadInv'
<1>1. /\ UNCHANGED <<table, mode, wanted, results, next, yielded, always, ever, open>>
      /\ pc = "deliver" /\ rejected' = TRUE
  BY DEF Reject
<1>2. attempt \in Nat /\ attempt <= RetryTimes /\ failures \in Nat
  BY DEF ReadInv, Typed, Attempts
<1>3. /\ attempt' \in Nat /\ attempt' <= RetryTimes /\ exc' \in BOOLEAN
      /\ \/ mode = "scan" /\ pc' \in {"connect", "raised"} /\ exc' = TRUE /\ failures' = failures + 1
         \/ /\ mode = "get_row_list" /\ pc' = "raised"
            /\ exc' = exc /\ attempt' = attempt /\ failures' = failures
  <2>1. CASE mode = "scan"
    BY <1>2, <2>1, CaughtNext DEF Reject
  <2>2. CASE mode # "scan"
    BY <1>2, <2>2 DEF ReadInv, Typed, Reject
  <2>3. QED BY <2>1, <2>2
<1>4. Typed'
  BY <1>1, <1>2, <1>3 DEF ReadInv, Typed
<1>5. History' /\ Result'
  BY <1>1 DEF ReadInv, History, Result, Present
<1>6. Whole'
  BY <1>3 DEF Whole
<1>7. Delivered'
  BY <1>1, <1>3 DEF ReadInv, Delivered, InOrder
<1>8. Attempts' /\ RowsNeedEveryAttempt'
  BY <1>1, <1>3 DEF ReadInv, Attempts, RowsNeedEveryAttempt
<1>9. TwiceOnlyAfterReject'
  BY <1>1, <1>3 DEF ReadInv, TwiceOnlyAfterReject, Twice
<1>10. LeaksOnlyByFailures'
  BY <1>1, <1>2, <1>3 DEF ReadInv, Typed, LeaksOnlyByFailures
<1>11. QED BY <1>4, <1>5, <1>6, <1>7, <1>8, <1>9, <1>10 DEF ReadInv

\* The consumer goes on or away, or there is no row left.
LEMMA ConsumerStep == ASSUME ReadInv, Finish \/ Resume \/ Abandon PROVE ReadInv'
<1>1. /\ UNCHANGED <<table, mode, wanted, results, next, yielded, rejected, always, ever, attempt, exc,
                     open, failures>>
      /\ \/ pc = "deliver" /\ next > Len(results) /\ pc' = "done"
         \/ pc = "yield" /\ pc' \in {"deliver", "abandoned"}
  BY DEF Finish, Resume, Abandon
<1>2. Typed' /\ History' /\ Result'
  BY <1>1 DEF ReadInv, Typed, History, Result, Present
<1>3. Whole'
  BY <1>1 DEF ReadInv, Whole, Covering
<1>4. Delivered'
  <2>1. pc' = "done" => next = Len(results) + 1
    <3>1. Len(results) \in Nat /\ next \in Nat
      BY DEF ReadInv, Typed
    <3>2. QED BY <1>1, <3>1 DEF ReadInv, Delivered
  <2>2. QED BY <1>1, <2>1 DEF ReadInv, Delivered, InOrder
<1>5. Attempts' /\ RowsNeedEveryAttempt'
  BY <1>1 DEF ReadInv, Attempts, RowsNeedEveryAttempt
<1>6. TwiceOnlyAfterReject' /\ LeaksOnlyByFailures'
  BY <1>1 DEF ReadInv, TwiceOnlyAfterReject, Twice, LeaksOnlyByFailures
<1>7. QED BY <1>2, <1>3, <1>4, <1>5, <1>6 DEF ReadInv

\* The table changes: a row that was there all along is one that did not change.
LEMMA ChangeStep == ASSUME ReadInv, Change PROVE ReadInv'
<1>1. /\ UNCHANGED <<mode, wanted, pc, attempt, exc, results, next, yielded, open, failures, rejected>>
      /\ pc # "idle"
  BY DEF Change
<1>2. PICK k \in Keys, v \in {"none", "good", "bad"} :
          /\ table' = [table EXCEPT ![k] = v]
          /\ always' = always \ {k}
          /\ ever' = IF v = "none" THEN ever ELSE ever \union {k}
  BY DEF Change
<1>3. Typed'
  BY <1>1, <1>2 DEF ReadInv, Typed
<1>4. History'
  BY <1>1, <1>2 DEF ReadInv, Typed, History, Present
<1>5. ever \subseteq ever' /\ always' \subseteq always
  BY <1>2
<1>6. Result'
  BY <1>1, <1>5 DEF ReadInv, Result
<1>7. Whole'
  BY <1>1, <1>5 DEF ReadInv, Whole, Covering
<1>8. Delivered'
  BY <1>1, <1>5 DEF ReadInv, Delivered, InOrder
<1>9. Attempts' /\ RowsNeedEveryAttempt'
  BY <1>1 DEF ReadInv, Attempts, RowsNeedEveryAttempt
<1>10. TwiceOnlyAfterReject' /\ LeaksOnlyByFailures'
  BY <1>1 DEF ReadInv, TwiceOnlyAfterReject, Twice, LeaksOnlyByFailures
<1>11. QED BY <1>3, <1>4, <1>6, <1>7, <1>8, <1>9, <1>10 DEF ReadInv

LEMMA NextRead == ReadInv /\ [Next]_vars => ReadInv'
<1> SUFFICES ASSUME ReadInv, [Next]_vars PROVE ReadInv'
  OBVIOUS
<1>1. CASE UNCHANGED vars
  BY <1>1 DEF vars, ReadInv, Typed, History, Result, Whole, Covering, Delivered, InOrder, Attempts,
              Present, TwiceOnlyAfterReject, Twice, LeaksOnlyByFailures, RowsNeedEveryAttempt
<1>2. CASE Next
  BY <1>2, StartStep, ConnectionStep, RequestStep, YieldStep, RejectStep, ConsumerStep, ChangeStep
  DEF Next, Call
<1>3. QED BY <1>1, <1>2

\* The inductive invariant.
THEOREM ReadInvariant == Spec => []ReadInv
<1>1. QED BY InitRead, NextRead, PTL DEF Spec

-----------------------------------------------------------------------------
(* The theorems. *)

\* scan and get_row_list end without an exception only with every row that was
\* there all along, whatever failed and changed meanwhile.
THEOREM ReadsAreComplete == Spec => []Complete
<1>1. ASSUME ReadInv PROVE Complete
  <2> SUFFICES ASSUME pc = "done", NEW k \in always, Asked(k)
               PROVE  \/ k \in Range(yielded)
                      \/ mode = "scan" /\ Len(results) = Limit /\ k > results[Limit].key
    BY DEF Complete
  <2>1. Covering(k)
    BY <1>1 DEF ReadInv, Whole
  <2>2. next - 1 = Len(results)
    <3>1. Len(results) \in Nat
      BY <1>1 DEF ReadInv, Typed
    <3>2. QED BY <1>1, <3>1 DEF ReadInv, Delivered
  <2>3. QED BY <1>1, <2>1, <2>2 DEF ReadInv, Delivered, Covering
<1>2. QED BY ReadInvariant, <1>1, PTL

\* Neither yields a row that was at no time in the table.
THEOREM ReadsAreReal == Spec => []NoPhantom
<1>1. ASSUME ReadInv PROVE NoPhantom
  <2>1. DOMAIN yielded = 1..Len(yielded)
    BY <1>1 DEF ReadInv, Typed
  <2>2. QED BY <1>1, <2>1 DEF ReadInv, Delivered, NoPhantom, Range
<1>2. QED BY ReadInvariant, <1>1, PTL

\* Retries alone never repeat a row.
THEOREM RetriesRepeatNothing == Spec => []TwiceOnlyAfterReject
<1>1. ReadInv => TwiceOnlyAfterReject
  BY DEF ReadInv
<1>2. QED BY ReadInvariant, <1>1, PTL

\* As many connections stay open as attempts have raised, at most.
THEOREM OneLeakPerFailure == Spec => []LeaksOnlyByFailures
<1>1. ReadInv => LeaksOnlyByFailures
  BY DEF ReadInv
<1>2. QED BY ReadInvariant, <1>1, PTL

\* get_row_list gives rows only after all of its attempts have succeeded.
THEOREM EveryAttemptCounts == Spec => []RowsNeedEveryAttempt
<1>1. ReadInv => RowsNeedEveryAttempt
  BY DEF ReadInv
<1>2. QED BY ReadInvariant, <1>1, PTL

=============================================================================

---------------------------- MODULE PipelineProofs ----------------------------
(***************************************************************************)
(* Proofs about RequestPipeline for every number of requests and client    *)
(* ids: each answer carries the id of its own request, the log tells the   *)
(* answer that was sent, and server errors are bare.                       *)
(*                                                                         *)
(* A request changes its own entry of every function only, so the          *)
(* invariant says of each request what its program counter implies.        *)
(***************************************************************************)
EXTENDS RequestPipeline, TLAPS

\* The context belongs to the request while it is inside the middleware.
InContext(r) ==
    pc[r] \in {"inner", "built", "raised", "answered"} =>
        /\ context[r] \in Contexts
        /\ context[r].request_id = id[r]
        /\ id[r] \in Ids

\* Nothing has been raised before "raised", and nothing is unhandled in an
\* answer from inside the context.
Raised(r) ==
    /\ pc[r] \in {"new", "inner", "built"} => error[r] = None
    /\ pc[r] \in {"raised", "escaped"} => error[r] \in Errors
    /\ pc[r] = "answered" => ~Failed(r)
    /\ pc[r] = "escaped" => ~Handled(error[r]) /\ context[r] = None

\* The Resp an endpoint has built last is the one the context tells of.
Built(r) ==
    pc[r] = "built" =>
        /\ resp[r] \in Answers
        /\ resp[r].body = "envelope" /\ resp[r].trace = id[r] /\ resp[r].code \in Codes
        /\ context[r].code = resp[r].code
        /\ resp[r].code # 0 => context[r].data = resp[r].code

\* No code is in the context before a Resp was built; an answer on its way and
\* the context agree.
Agree(r) ==
    /\ pc[r] = "inner" => context[r].code = None
    /\ pc[r] = "answered" =>
          /\ answer[r] \in Answers
          /\ answer[r].body # "page"
          /\ answer[r].body = "envelope" => answer[r].trace = id[r] /\ answer[r].code \in Codes
          /\ answer[r].body = "text" => answer[r].code = None
          /\ context[r].code = answer[r].code
          /\ answer[r].code \notin {None, 0} => context[r].data = answer[r].code

\* What is known of an answer that was sent.
Known(r) ==
    /\ pc[r] # "sent" => log[r] = None
    /\ Sent(r) =>
          /\ answer[r] \in Answers
          /\ answer[r].body = "envelope" =>
                /\ answer[r].trace = id[r]
                /\ answer[r].request_id = id[r]
                /\ log[r] # None /\ log[r].request_id = id[r]
          /\ log[r] # None =>
                log[r].data = IF answer[r].code \in {None, 0} THEN None ELSE answer[r].code
          /\ Failed(r) => answer[r] = Blank(IF debug THEN "page" ELSE "text", 500) /\ log[r] = None
          /\ ~Failed(r) /\ ~profiled[r] => answer[r].request_id # None /\ log[r] # None
          /\ r \in profilers => profiled[r] /\ Failed(r)
    /\ r \in profilers => profiled[r] /\ pc[r] # "new"

Good(r) == InContext(r) /\ Raised(r) /\ Built(r) /\ Agree(r) /\ Known(r)
PipelineInv == TypeOK /\ \A r \in Requests : Good(r)

\* The step of one request leaves the entries of the others alone.
Untouched(r) ==
    \A q \in Requests \ {r} :
        /\ pc'[q] = pc[q] /\ id'[q] = id[q] /\ profiled'[q] = profiled[q]
        /\ context'[q] = context[q] /\ resp'[q] = resp[q] /\ error'[q] = error[q]
        /\ answer'[q] = answer[q] /\ log'[q] = log[q]
        /\ q \in profilers' <=> q \in profilers

\* None is no value of the others.
LEMMA NoneIsNoRecord ==
    /\ None \notin Ids /\ None \notin Errors /\ None \notin Contexts /\ None \notin Lines
BY IdAssumption, NoneAssumption DEF Ids

\* What is left of the old dictionary when a code is recorded.
LEMMA RecordKeeps ==
    ASSUME NEW c \in Contexts, NEW code \in Codes
    PROVE  /\ Record(c, code) \in Contexts
           /\ Record(c, code).request_id = c.request_id
           /\ Record(c, code).code = code
           /\ code # 0 => Record(c, code).data = code
BY DEF Record, Contexts

\* The envelope that a context, a code and a status give.
LEMMA EnvelopeOf ==
    ASSUME NEW c \in Contexts, NEW code \in Codes, NEW status \in {200, 400, 403, 404, 422, 500}
    PROVE  /\ Envelope(c, code, status) \in Answers
           /\ Envelope(c, code, status).body = "envelope"
           /\ Envelope(c, code, status).code = code
           /\ Envelope(c, code, status).trace = c.request_id
BY DEF Envelope, Answers, Contexts, Body

\* The header is added to an answer.
LEMMA HeaderAdded ==
    ASSUME NEW a \in Answers, NEW i \in Ids
    PROVE  /\ [a EXCEPT !.request_id = i] \in Answers
           /\ [a EXCEPT !.request_id = i].request_id = i
           /\ [a EXCEPT !.request_id = i].body = a.body
           /\ [a EXCEPT !.request_id = i].trace = a.trace
           /\ [a EXCEPT !.request_id = i].code = a.code
BY DEF Answers

\* The code and the status that a handler answers.
LEMMA StatusOf ==
    ASSUME NEW e \in Errors
    PROVE  e.code \in Codes /\ Status(e) \in {200, 400, 403, 404, 422, 500}
<1>1. CASE e \in [kind: {"api"}, code: {-1, -2, 403}]
  BY <1>1 DEF Status, Codes
<1>2. CASE e \in [kind: {"http"}, code: {404}]
  BY <1>2 DEF Status, Codes
<1>3. CASE e \in [kind: {"invalid", "unanswerable", "custom", "incomplete", "unexpected"}, code: {-1}]
  BY <1>3 DEF Status, Codes
<1> QED
  BY <1>1, <1>2, <1>3 DEF Errors

\* The initial states.
LEMMA InitGood == Init => PipelineInv
BY NoneIsNoRecord
DEF Init, PipelineInv, TypeOK, PCs, Good, InContext, Raised, Built, Agree, Known, Failed, Sent

\* A request that takes no step stays as it is.
LEMMA OthersStay ==
    ASSUME NEW r \in Requests, NEW q \in Requests \ {r}, Good(q), Untouched(r), debug' = debug
    PROVE  Good(q)'
<1>1. /\ pc'[q] = pc[q] /\ id'[q] = id[q] /\ profiled'[q] = profiled[q]
      /\ context'[q] = context[q] /\ resp'[q] = resp[q] /\ error'[q] = error[q]
      /\ answer'[q] = answer[q] /\ log'[q] = log[q]
      /\ q \in profilers' <=> q \in profilers
  BY DEF Untouched
<1>2. InContext(q)' /\ Raised(q)' /\ Built(q)'
  BY <1>1 DEF Good, InContext, Raised, Built, Failed
<1>3. Agree(q)'
  BY <1>1 DEF Good, Agree
<1>4. Known(q)'
  BY <1>1 DEF Good, Known, Sent, Failed
<1> QED
  BY <1>2, <1>3, <1>4 DEF Good

\* The request takes an id and a context.
LEMMA EnterGood ==
    ASSUME PipelineInv, NEW r \in Requests, Enter(r)
    PROVE  PipelineInv'
<1>1. Good(r) /\ TypeOK
  BY DEF PipelineInv
<1>2. TypeOK'
  BY <1>1, NoneIsNoRecord DEF TypeOK, PCs, Good, InContext, Raised, Built, Agree, Errors, Answers, Contexts, Body, Codes, Ids, Enter, Slot
<1>3. Untouched(r) /\ debug' = debug
  BY <1>1 DEF TypeOK, Untouched, Enter, Slot
<1>4. Good(r)'
  <2>1. InContext(r)' /\ Raised(r)' /\ Built(r)'
    BY <1>1, NoneIsNoRecord DEF TypeOK, Good, InContext, Raised, Built, Agree, Failed, Handled, Errors, Answers, Contexts, Body, Codes, Ids, Enter, Slot
  <2>2. Agree(r)'
    BY <1>1, NoneIsNoRecord DEF TypeOK, Good, InContext, Raised, Built, Agree, Errors, Answers, Contexts, Body, Codes, Ids, Enter, Slot
  <2>3. Known(r)'
    BY <1>1, NoneIsNoRecord DEF TypeOK, Good, InContext, Raised, Agree, Known, Sent, Failed, Handled, Answers, Contexts, Body, Ids, Enter, Slot
  <2> QED
    BY <2>1, <2>2, <2>3 DEF Good
<1> QED
  BY <1>2, <1>3, <1>4, OthersStay DEF PipelineInv

\* A Resp is built.
LEMMA BuildGood ==
    ASSUME PipelineInv, NEW r \in Requests, NEW code \in {0, -1}, Build(r, code)
    PROVE  PipelineInv'
<1>1. Good(r) /\ TypeOK
  BY DEF PipelineInv
<1>0. /\ Record(context[r], code) \in Contexts /\ Record(context[r], code).request_id = context[r].request_id
      /\ Record(context[r], code).code = code /\ (code # 0 => Record(context[r], code).data = code)
      /\ Envelope(context[r], code, 200) \in Answers /\ Envelope(context[r], code, 200).body = "envelope"
      /\ Envelope(context[r], code, 200).trace = context[r].request_id
      /\ Envelope(context[r], code, 200).code = code /\ code \in Codes
  <2>1. context[r] \in Contexts /\ code \in Codes
    BY <1>1 DEF Good, InContext, Build, Codes
  <2> QED
    BY <2>1, RecordKeeps, EnvelopeOf
<1>2. TypeOK'
  BY <1>1, <1>0, NoneIsNoRecord DEF TypeOK, PCs, Good, InContext, Raised, Built, Agree, Errors, Answers, Contexts, Body, Codes, Ids, Build, Slot
<1>3. Untouched(r) /\ debug' = debug
  BY <1>1 DEF TypeOK, Untouched, Build, Slot
<1>4. Good(r)'
  <2>1. InContext(r)' /\ Raised(r)' /\ Built(r)'
    BY <1>1, <1>0, NoneIsNoRecord DEF TypeOK, Good, InContext, Raised, Built, Agree, Failed, Handled, Errors, Answers, Contexts, Body, Codes, Ids, Build, Slot
  <2>2. Agree(r)'
    BY <1>1, <1>0, NoneIsNoRecord DEF TypeOK, Good, InContext, Raised, Built, Agree, Errors, Answers, Contexts, Body, Codes, Ids, Build, Slot
  <2>3. Known(r)'
    BY <1>1, <1>0, NoneIsNoRecord DEF TypeOK, Good, InContext, Raised, Agree, Known, Sent, Failed, Handled, Answers, Contexts, Body, Ids, Build, Slot
  <2> QED
    BY <2>1, <2>2, <2>3 DEF Good
<1> QED
  BY <1>2, <1>3, <1>4, OthersStay DEF PipelineInv

\* The Resp is returned.
LEMMA ReturnGood ==
    ASSUME PipelineInv, NEW r \in Requests, Return(r)
    PROVE  PipelineInv'
<1>1. Good(r) /\ TypeOK
  BY DEF PipelineInv
<1>2. TypeOK'
  BY <1>1, NoneIsNoRecord DEF TypeOK, PCs, Good, InContext, Raised, Built, Agree, Errors, Answers, Contexts, Body, Codes, Ids, Return, Slot
<1>3. Untouched(r) /\ debug' = debug
  BY <1>1 DEF TypeOK, Untouched, Return, Slot
<1>4. Good(r)'
  <2>1. InContext(r)' /\ Raised(r)' /\ Built(r)'
    BY <1>1, NoneIsNoRecord DEF TypeOK, Good, InContext, Raised, Built, Agree, Failed, Handled, Errors, Answers, Contexts, Body, Codes, Ids, Return, Slot
  <2>2. Agree(r)'
    BY <1>1, NoneIsNoRecord DEF TypeOK, Good, InContext, Raised, Built, Agree, Errors, Answers, Contexts, Body, Codes, Ids, Return, Slot
  <2>3. Known(r)'
    BY <1>1, NoneIsNoRecord DEF TypeOK, Good, InContext, Raised, Agree, Known, Sent, Failed, Handled, Answers, Contexts, Body, Ids, Return, Slot
  <2> QED
    BY <2>1, <2>2, <2>3 DEF Good
<1> QED
  BY <1>2, <1>3, <1>4, OthersStay DEF PipelineInv

\* An answer that is no Resp.
LEMMA PlainGood ==
    ASSUME PipelineInv, NEW r \in Requests, Plain(r)
    PROVE  PipelineInv'
<1>1. Good(r) /\ TypeOK
  BY DEF PipelineInv
<1>2. TypeOK'
  BY <1>1, NoneIsNoRecord DEF TypeOK, PCs, Good, InContext, Raised, Built, Agree, Errors, Answers, Contexts, Body, Codes, Ids, Plain, Slot
<1>3. Untouched(r) /\ debug' = debug
  BY <1>1 DEF TypeOK, Untouched, Plain, Slot
<1>4. Good(r)'
  <2>1. InContext(r)' /\ Raised(r)' /\ Built(r)'
    BY <1>1, NoneIsNoRecord DEF TypeOK, Good, InContext, Raised, Built, Agree, Failed, Handled, Errors, Answers, Contexts, Body, Codes, Ids, Plain, Slot
  <2>2. Agree(r)'
    BY <1>1, NoneIsNoRecord DEF TypeOK, Good, InContext, Raised, Built, Agree, Errors, Answers, Contexts, Body, Codes, Ids, Plain, Slot
  <2>3. Known(r)'
    BY <1>1, NoneIsNoRecord DEF TypeOK, Good, InContext, Raised, Agree, Known, Sent, Failed, Handled, Answers, Contexts, Body, Ids, Plain, Slot
  <2> QED
    BY <2>1, <2>2, <2>3 DEF Good
<1> QED
  BY <1>2, <1>3, <1>4, OthersStay DEF PipelineInv

\* Something is raised.
LEMMA RaiseGood ==
    ASSUME PipelineInv, NEW r \in Requests, Raise(r)
    PROVE  PipelineInv'
<1>1. Good(r) /\ TypeOK
  BY DEF PipelineInv
<1>2. TypeOK'
  BY <1>1, NoneIsNoRecord DEF TypeOK, PCs, Good, InContext, Raised, Built, Agree, Errors, Answers, Contexts, Body, Codes, Ids, Raise, Slot
<1>3. Untouched(r) /\ debug' = debug
  BY <1>1 DEF TypeOK, Untouched, Raise, Slot
<1>4. Good(r)'
  <2>1. InContext(r)' /\ Raised(r)' /\ Built(r)'
    BY <1>1, NoneIsNoRecord DEF TypeOK, Good, InContext, Raised, Built, Agree, Failed, Handled, Errors, Answers, Contexts, Body, Codes, Ids, Raise, Slot
  <2>2. Agree(r)'
    BY <1>1, NoneIsNoRecord DEF TypeOK, Good, InContext, Raised, Built, Agree, Errors, Answers, Contexts, Body, Codes, Ids, Raise, Slot
  <2>3. Known(r)'
    BY <1>1, NoneIsNoRecord DEF TypeOK, Good, InContext, Raised, Agree, Known, Sent, Failed, Handled, Answers, Contexts, Body, Ids, Raise, Slot
  <2> QED
    BY <2>1, <2>2, <2>3 DEF Good
<1> QED
  BY <1>2, <1>3, <1>4, OthersStay DEF PipelineInv

\* A handler answers.
LEMMA HandleGood ==
    ASSUME PipelineInv, NEW r \in Requests, Handle(r)
    PROVE  PipelineInv'
<1>1. Good(r) /\ TypeOK
  BY DEF PipelineInv
<1>0. /\ error[r] \in Errors /\ error[r].code \in Codes
      /\ Record(context[r], error[r].code) \in Contexts
      /\ Record(context[r], error[r].code).request_id = context[r].request_id
      /\ Record(context[r], error[r].code).code = error[r].code
      /\ error[r].code # 0 => Record(context[r], error[r].code).data = error[r].code
      /\ Envelope(context[r], error[r].code, Status(error[r])) \in Answers
      /\ Envelope(context[r], error[r].code, Status(error[r])).body = "envelope"
      /\ Envelope(context[r], error[r].code, Status(error[r])).code = error[r].code
      /\ Envelope(context[r], error[r].code, Status(error[r])).trace = context[r].request_id
  <2>1. context[r] \in Contexts /\ error[r] \in Errors
    BY <1>1 DEF Good, InContext, Raised, Handle
  <2> QED
    BY <2>1, StatusOf, RecordKeeps, EnvelopeOf
<1>2. TypeOK'
  BY <1>1, <1>0, NoneIsNoRecord DEF TypeOK, PCs, Good, InContext, Raised, Built, Agree, Errors, Answers, Contexts, Body, Codes, Ids, Handle, Slot
<1>3. Untouched(r) /\ debug' = debug
  BY <1>1 DEF TypeOK, Untouched, Handle, Slot
<1>4. Good(r)'
  <2>1. InContext(r)' /\ Raised(r)' /\ Built(r)'
    BY <1>1, <1>0, NoneIsNoRecord DEF TypeOK, Good, InContext, Raised, Built, Agree, Failed, Handled, Errors, Answers, Contexts, Body, Codes, Ids, Handle, Slot
  <2>2. Agree(r)'
    BY <1>1, <1>0, NoneIsNoRecord DEF TypeOK, Good, InContext, Raised, Built, Agree, Errors, Answers, Contexts, Body, Codes, Ids, Handle, Slot
  <2>3. Known(r)'
    BY <1>1, <1>0, NoneIsNoRecord DEF TypeOK, Good, InContext, Raised, Agree, Known, Sent, Failed, Handled, Answers, Contexts, Body, Ids, Handle, Slot
  <2> QED
    BY <2>1, <2>2, <2>3 DEF Good
<1> QED
  BY <1>2, <1>3, <1>4, OthersStay DEF PipelineInv

\* An exception leaves the context.
LEMMA EscapeGood ==
    ASSUME PipelineInv, NEW r \in Requests, Escape(r)
    PROVE  PipelineInv'
<1>1. Good(r) /\ TypeOK
  BY DEF PipelineInv
<1>2. TypeOK'
  BY <1>1, NoneIsNoRecord DEF TypeOK, PCs, Good, InContext, Raised, Built, Agree, Errors, Answers, Contexts, Body, Codes, Ids, Escape, Slot
<1>3. Untouched(r) /\ debug' = debug
  BY <1>1 DEF TypeOK, Untouched, Escape, Slot
<1>4. Good(r)'
  <2>1. InContext(r)' /\ Raised(r)' /\ Built(r)'
    BY <1>1, NoneIsNoRecord DEF TypeOK, Good, InContext, Raised, Built, Agree, Failed, Handled, Errors, Answers, Contexts, Body, Codes, Ids, Escape, Slot
  <2>2. Agree(r)'
    BY <1>1, NoneIsNoRecord DEF TypeOK, Good, InContext, Raised, Built, Agree, Errors, Answers, Contexts, Body, Codes, Ids, Escape, Slot
  <2>3. Known(r)'
    BY <1>1, NoneIsNoRecord DEF TypeOK, Good, InContext, Raised, Agree, Known, Sent, Failed, Handled, Answers, Contexts, Body, Ids, Escape, Slot
  <2> QED
    BY <2>1, <2>2, <2>3 DEF Good
<1> QED
  BY <1>2, <1>3, <1>4, OthersStay DEF PipelineInv

\* The server error is answered.
LEMMA ServerErrorGood ==
    ASSUME PipelineInv, NEW r \in Requests, ServerError(r)
    PROVE  PipelineInv'
<1>1. Good(r) /\ TypeOK
  BY DEF PipelineInv
<1>2. TypeOK'
  BY <1>1, NoneIsNoRecord DEF TypeOK, PCs, Good, InContext, Raised, Built, Agree, Errors, Answers, Contexts, Body, Codes, Ids, ServerError, Slot, Blank, Envelope
<1>3. Untouched(r) /\ debug' = debug
  BY <1>1 DEF TypeOK, Untouched, ServerError, Slot, Blank, Envelope
<1>4. Good(r)'
  <2>1. InContext(r)' /\ Raised(r)' /\ Built(r)'
    BY <1>1, NoneIsNoRecord DEF TypeOK, Good, InContext, Raised, Built, Agree, Failed, Handled, Errors, Answers, Contexts, Body, Codes, Ids, ServerError, Slot, Blank, Envelope
  <2>2. Agree(r)'
    BY <1>1, NoneIsNoRecord DEF TypeOK, Good, InContext, Raised, Built, Agree, Errors, Answers, Contexts, Body, Codes, Ids, ServerError, Slot, Blank, Envelope
  <2>3. Known(r)'
    BY <1>1, NoneIsNoRecord DEF TypeOK, Good, InContext, Raised, Agree, Known, Sent, Failed, Handled, Answers, Contexts, Body, Ids, ServerError, Slot, Blank, Envelope
  <2> QED
    BY <2>1, <2>2, <2>3 DEF Good
<1> QED
  BY <1>2, <1>3, <1>4, OthersStay DEF PipelineInv

\* The answer is enriched and logged.
LEMMA EnrichGood ==
    ASSUME PipelineInv, NEW r \in Requests, Enrich(r)
    PROVE  PipelineInv'
<1>1. Good(r) /\ TypeOK
  BY DEF PipelineInv
<1>0. /\ answer'[r] \in Answers /\ answer'[r].request_id = id[r]
      /\ answer'[r].body = answer[r].body /\ answer'[r].trace = answer[r].trace
      /\ answer'[r].code = answer[r].code
      /\ log'[r] \in Lines /\ log'[r].request_id = id[r]
      /\ log'[r].data = IF context[r].code \in {None, 0} THEN None ELSE context[r].data
      /\ answer' = [answer EXCEPT ![r] = answer'[r]] /\ log' = [log EXCEPT ![r] = log'[r]]
  <2>1. /\ answer[r] \in Answers /\ context[r] \in Contexts
        /\ id[r] \in Ids /\ context[r].request_id = id[r]
    BY <1>1 DEF Good, InContext, Agree, Enrich
  <2>2. answer'[r] = [answer[r] EXCEPT !.request_id = id[r]] /\ answer' = [answer EXCEPT ![r] = answer'[r]]
    BY <1>1, <2>1 DEF TypeOK, Enrich, Slot
  <2>3. log'[r] = [request_id |-> id[r],
                   data |-> IF context[r].code \in {None, 0} THEN None ELSE context[r].data]
    BY <1>1, <2>1 DEF TypeOK, Enrich, Slot
  <2>4. log'[r] \in Lines /\ log' = [log EXCEPT ![r] = log'[r]]
    BY <1>1, <2>1, <2>3 DEF TypeOK, Enrich, Lines, Contexts
  <2> QED
    BY <2>1, <2>2, <2>3, <2>4, HeaderAdded
<1>2. TypeOK'
  BY <1>1, <1>0, NoneIsNoRecord DEF TypeOK, PCs, Good, InContext, Raised, Built, Agree, Errors, Answers, Contexts, Body, Codes, Ids, Enrich, Slot
<1>3. Untouched(r) /\ debug' = debug
  BY <1>1 DEF TypeOK, Untouched, Enrich, Slot
<1>4. Good(r)'
  <2>1. InContext(r)' /\ Raised(r)' /\ Built(r)'
    BY <1>1, <1>0, NoneIsNoRecord DEF TypeOK, Good, InContext, Raised, Built, Agree, Failed, Handled, Errors, Answers, Contexts, Body, Codes, Ids, Enrich, Slot
  <2>2. Agree(r)'
    BY <1>1, <1>0, NoneIsNoRecord DEF TypeOK, Good, InContext, Raised, Built, Agree, Errors, Answers, Contexts, Body, Codes, Ids, Enrich, Slot
  <2>3. Known(r)'
    BY <1>1, <1>0, NoneIsNoRecord DEF TypeOK, Good, InContext, Raised, Agree, Known, Sent, Failed, Handled, Answers, Contexts, Body, Ids, Enrich, Slot
  <2> QED
    BY <2>1, <2>2, <2>3 DEF Good
<1> QED
  BY <1>2, <1>3, <1>4, OthersStay DEF PipelineInv

\* The page of the profiler.
LEMMA ProfileGood ==
    ASSUME PipelineInv, NEW r \in Requests, Profile(r)
    PROVE  PipelineInv'
<1>1. Good(r) /\ TypeOK
  BY DEF PipelineInv
<1>2. TypeOK'
  BY <1>1, NoneIsNoRecord DEF TypeOK, PCs, Good, InContext, Raised, Built, Agree, Errors, Answers, Contexts, Body, Codes, Ids, Profile, Slot, Blank
<1>3. Untouched(r) /\ debug' = debug
  BY <1>1 DEF TypeOK, Untouched, Profile, Slot, Blank
<1>4. Good(r)'
  <2>1. InContext(r)' /\ Raised(r)' /\ Built(r)'
    BY <1>1, NoneIsNoRecord DEF TypeOK, Good, InContext, Raised, Built, Agree, Failed, Handled, Errors, Answers, Contexts, Body, Codes, Ids, Profile, Slot, Blank
  <2>2. Agree(r)'
    BY <1>1, NoneIsNoRecord DEF TypeOK, Good, InContext, Raised, Built, Agree, Errors, Answers, Contexts, Body, Codes, Ids, Profile, Slot, Blank
  <2>3. Known(r)'
    BY <1>1, NoneIsNoRecord DEF TypeOK, Good, InContext, Raised, Agree, Known, Sent, Failed, Handled, Answers, Contexts, Body, Ids, Profile, Slot, Blank
  <2> QED
    BY <2>1, <2>2, <2>3 DEF Good
<1> QED
  BY <1>2, <1>3, <1>4, OthersStay DEF PipelineInv

THEOREM PipelineInvariant == Spec => []PipelineInv
<1>1. PipelineInv /\ [Next]_vars => PipelineInv'
  <2> SUFFICES ASSUME PipelineInv, [Next]_vars PROVE PipelineInv'
    OBVIOUS
  <2>1. CASE UNCHANGED vars
    BY <2>1 DEF vars, PipelineInv, TypeOK, Good, InContext, Raised, Built, Agree, Known, Failed, Sent
  <2>2. ASSUME NEW r \in Requests, Step(r) PROVE PipelineInv'
    BY <2>2, EnterGood, BuildGood, ReturnGood, PlainGood, RaiseGood, HandleGood, EscapeGood,
       ServerErrorGood, EnrichGood, ProfileGood DEF Step
  <2> QED
    BY <2>1, <2>2 DEF Next
<1> QED
  BY <1>1, InitGood, PTL DEF Spec

-----------------------------------------------------------------------------
(* The properties. *)

\* The variables have their types.
THEOREM PipelineTypes == Spec => []TypeOK
<1>1. PipelineInv => TypeOK
  BY DEF PipelineInv
<1> QED
  BY <1>1, PipelineInvariant, PTL

\* The trace_id in the body, X-Request-Id and the log line of an answer are the
\* id of its own request, for any number of requests in flight.
THEOREM AnswersCarryTheirId == Spec => []OneTraceId
<1>1. PipelineInv => OneTraceId
  BY DEF PipelineInv, Good, Known, OneTraceId
<1> QED
  BY <1>1, PipelineInvariant, PTL

\* response_data is logged for the answers that are no success, with their code.
THEOREM TheLogIsTrue == Spec => []LogTellsTheAnswer
<1>1. PipelineInv => LogTellsTheAnswer
  BY DEF PipelineInv, Good, Known, LogTellsTheAnswer
<1> QED
  BY <1>1, PipelineInvariant, PTL

\* unexpected_exception_handler never gets to answer; every other request that
\* is not profiled is answered with its id and logged.
THEOREM ServerErrorsAreBare == Spec => []BareServerErrors
<1>1. PipelineInv => BareServerErrors
  BY DEF PipelineInv, Good, Known, BareServerErrors
<1> QED
  BY <1>1, PipelineInvariant, PTL

\* Only unexpected exceptions leave a profiler running.
THEOREM ProfilersStop == Spec => []ProfilersLeft
<1>1. PipelineInv => ProfilersLeft
  BY DEF PipelineInv, TypeOK, Good, Known, ProfilersLeft
<1> QED
  BY <1>1, PipelineInvariant, PTL

=============================================================================

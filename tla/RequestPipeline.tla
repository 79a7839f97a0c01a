--------------------------- MODULE RequestPipeline ---------------------------
(***************************************************************************)
(* How the user centre answers a request: the context middleware           *)
(* (services/middlewares.py), its plugins (common/context.py), the         *)
(* envelope Resp that writes into the context (common/responses.py) and    *)
(* the exception handlers (services/exceptions.py).                        *)
(*                                                                         *)
(* Requests are tasks of one event loop.  The context of a task is a       *)
(* dictionary in a context variable: several requests are between any two  *)
(* of their steps at the same time.                                        *)
(***************************************************************************)
EXTENDS Integers

CONSTANTS
    Requests,   \* requests of one worker process; also their uuid4 ids
    ClientIds,  \* what clients send in X-Request-Id
    None        \* None in Python, or a header that is missing

ASSUME IdAssumption == None \notin Requests \union ClientIds
Ids == Requests \union ClientIds

(* Business codes: success, failed, unauthorized, forbidden, not found.     *)
Codes == {0, -1, -2, 403, 404}

(* What dependencies, endpoints and libraries raise.                        *)
(*   invalid       RequestValidationError whose type has a message template *)
(*   unanswerable  RequestValidationError whose type has none, or whose     *)
(*                 ctx holds an exception, that JSON cannot express          *)
(*   custom        ValidationError of common/exceptions.py                   *)
(*   incomplete    one whose ctx lacks what its message template names       *)
(*   unexpected    every other exception                                     *)
Errors == [kind: {"api"}, code: {-1, -2, 403}] \union [kind: {"http"}, code: {404}]
          \union [kind: {"invalid", "unanswerable", "custom", "incomplete", "unexpected"}, code: {-1}]

VARIABLES
    pc,        \* where the request is
    id,        \* the request id that RequestIdPlugin chose
    profiled,  \* the query has the profile_secret
    context,   \* the dictionary of the context variable, by task
    resp,      \* the Resp the endpoint has built last
    error,     \* the exception that is propagating
    answer,    \* the response on its way, and then with the client
    log,       \* what _info.request has logged for the request
    profilers, \* requests whose profiler is running
    debug      \* project.debug

vars == <<pc, id, profiled, context, resp, error, answer, log, profilers, debug>>

Body == {"envelope", "text", "page"}
Answers == [body: Body, status: {200, 400, 403, 404, 422, 500},
            code: Codes \union {None, 500}, trace: Ids \union {None}, request_id: Ids \union {None}]
Contexts == [request_id: Ids, code: Codes \union {None, 500}, data: Codes \union {None, 500}]
Lines == [request_id: Ids, data: Codes \union {None, 500}]

ASSUME NoneAssumption == None \notin Errors \union Contexts \union Lines

-----------------------------------------------------------------------------
Init ==
    /\ pc = [r \in Requests |-> "new"]
    /\ id = [r \in Requests |-> None]
    /\ profiled = [r \in Requests |-> FALSE]
    /\ context = [r \in Requests |-> None]
    /\ resp = [r \in Requests |-> None]
    /\ error = [r \in Requests |-> None]
    /\ answer = [r \in Requests |-> None]
    /\ log = [r \in Requests |-> None]
    /\ profilers = {}
    /\ debug \in BOOLEAN

\* Mutant: the dictionary is one of the process.
SlotShared(r) == CHOOSE q \in Requests : TRUE
\* A request finds the dictionary of its own task.
Slot(r) == r

\* set_context, request_cycle_context, and the profiler.  An X-Request-Id of the
\* client is taken over; call_next then starts the inner application.
Enter(r) ==
    /\ pc[r] = "new"
    /\ \E i \in ClientIds \union {r}, p \in BOOLEAN :
         /\ id' = [id EXCEPT ![r] = i]
         /\ profiled' = [profiled EXCEPT ![r] = p]
         /\ context' = [context EXCEPT ![Slot(r)] = [request_id |-> i, code |-> None, data |-> None]]
         /\ profilers' = IF p THEN profilers \union {r} ELSE profilers
    /\ pc' = [pc EXCEPT ![r] = "inner"]
    /\ UNCHANGED <<resp, error, answer, log, debug>>

\* set_failed_response: every Resp that is built leaves its code in the context.
\* Mutant: the first code stays.
RecordFirst(c, code) ==
    [c EXCEPT !.code = IF @ = None THEN code ELSE @, !.data = IF code = 0 THEN @ ELSE code]
Record(c, code) ==
    [request_id |-> c.request_id, code |-> code, data |-> IF code = 0 THEN c.data ELSE code]

Envelope(c, code, status) ==
    [body |-> "envelope", status |-> status, code |-> code, trace |-> c.request_id, request_id |-> None]

\* An endpoint builds a Resp: a success, or Resp.fail.
Build(r, code) ==
    /\ pc[r] \in {"inner", "built"}
    /\ resp' = [resp EXCEPT ![r] = Envelope(context[Slot(r)], code, 200)]
    /\ context' = [context EXCEPT ![Slot(r)] = Record(@, code)]
    /\ pc' = [pc EXCEPT ![r] = "built"]
    /\ UNCHANGED <<id, profiled, error, answer, log, profilers, debug>>

\* It is returned: serialize_response, which patch() puts in the place of the one
\* of FastAPI, dumps it as it is, and it is sent with status 200.
Return(r) ==
    /\ pc[r] = "built"
    /\ answer' = [answer EXCEPT ![r] = resp[r]]
    /\ pc' = [pc EXCEPT ![r] = "answered"]
    /\ UNCHANGED <<id, profiled, context, resp, error, log, profilers, debug>>

\* An answer that is no Resp: /health, the pages of the documentation, what
\* CORSMiddleware and TrustedHostMiddleware say.
Plain(r) ==
    /\ pc[r] = "inner"
    /\ \E s \in {200, 400} :
         answer' = [answer EXCEPT ![r] = [body |-> "text", status |-> s, code |-> None,
                                          trace |-> None, request_id |-> None]]
    /\ pc' = [pc EXCEPT ![r] = "answered"]
    /\ UNCHANGED <<id, profiled, context, resp, error, log, profilers, debug>>

\* Parameters are validated before the endpoint runs.
Raise(r) ==
    /\ pc[r] \in {"inner", "built"}
    /\ \E e \in Errors :
         /\ e.kind \in {"invalid", "unanswerable"} => pc[r] = "inner"
         /\ error' = [error EXCEPT ![r] = e]
    /\ pc' = [pc EXCEPT ![r] = "raised"]
    /\ UNCHANGED <<id, profiled, context, resp, answer, log, profilers, debug>>

\* The status of the handlers: a positive code of an ApiException is one itself.
Status(e) ==
    CASE e.kind = "api" -> IF e.code > 0 THEN e.code ELSE 200
      [] e.kind = "http" -> e.code
      [] OTHER -> 422

\* ExceptionMiddleware runs the handler of the exception, inside the context.
Handled(e) == e.kind \in {"api", "http", "invalid", "custom"}
Handle(r) ==
    /\ pc[r] = "raised"
    /\ Handled(error[r])
    /\ context' = [context EXCEPT ![Slot(r)] = Record(@, error[r].code)]
    /\ answer' = [answer EXCEPT ![r] = Envelope(context[Slot(r)], error[r].code, Status(error[r]))]
    /\ pc' = [pc EXCEPT ![r] = "answered"]
    /\ UNCHANGED <<id, profiled, resp, error, log, profilers, debug>>

\* It has no handler there, or the handler raises: the exception leaves the
\* context middleware.  The profiler is not stopped.
\* Mutant: the context survives.
EscapeKeepsContext(r) ==
    /\ pc[r] = "raised"
    /\ ~Handled(error[r])
    /\ pc' = [pc EXCEPT ![r] = "escaped"]
    /\ UNCHANGED <<id, profiled, context, resp, error, answer, log, profilers, debug>>
Escape(r) ==
    /\ pc[r] = "raised"
    /\ ~Handled(error[r])
    /\ context' = [context EXCEPT ![Slot(r)] = None]
    /\ pc' = [pc EXCEPT ![r] = "escaped"]
    /\ UNCHANGED <<id, profiled, resp, error, answer, log, profilers, debug>>

Blank(body, status) ==
    [body |-> body, status |-> status, code |-> None, trace |-> None, request_id |-> None]

\* ServerErrorMiddleware: in debug mode its own page.  Otherwise
\* unexpected_exception_handler builds a Resp, which needs the context; without
\* one it raises, and the server around it answers.
ServerError(r) ==
    /\ pc[r] = "escaped"
    /\ answer' = [answer EXCEPT ![r] =
                    IF debug THEN Blank("page", 500)
                    ELSE IF context[Slot(r)] = None THEN Blank("text", 500)
                    ELSE Envelope(context[Slot(r)], 500, 500)]
    /\ pc' = [pc EXCEPT ![r] = "sent"]
    /\ UNCHANGED <<id, profiled, context, resp, error, log, profilers, debug>>

\* enrich_response of the plugins, in their order: X-Request-Id, then
\* X-Process-Time and the line of the log.  The context is left.
Enrich(r) ==
    /\ pc[r] = "answered" /\ ~profiled[r]
    /\ LET c == context[Slot(r)] IN
         /\ answer' = [answer EXCEPT ![r].request_id = c.request_id]
         /\ log' = [log EXCEPT ![r] = [request_id |-> c.request_id,
                                       data |-> IF c.code \in {None, 0} THEN None ELSE c.data]]
    /\ context' = [context EXCEPT ![Slot(r)] = None]
    /\ pc' = [pc EXCEPT ![r] = "sent"]
    /\ UNCHANGED <<id, profiled, resp, error, profilers, debug>>

\* A profiled request: the answer is dropped for the page of the profiler.
\* Mutant: it stops only after a success.
ProfileStopsOnSuccess(r) ==
    /\ pc[r] = "answered" /\ profiled[r]
    /\ answer' = [answer EXCEPT ![r] = Blank("page", 200)]
    /\ profilers' = IF answer[r].status = 200 THEN profilers \ {r} ELSE profilers
    /\ context' = [context EXCEPT ![Slot(r)] = None]
    /\ pc' = [pc EXCEPT ![r] = "sent"]
    /\ UNCHANGED <<id, profiled, resp, error, log, debug>>
Profile(r) ==
    /\ pc[r] = "answered" /\ profiled[r]
    /\ answer' = [answer EXCEPT ![r] = Blank("page", 200)]
    /\ profilers' = profilers \ {r}
    /\ context' = [context EXCEPT ![Slot(r)] = None]
    /\ pc' = [pc EXCEPT ![r] = "sent"]
    /\ UNCHANGED <<id, profiled, resp, error, log, debug>>

Step(r) == \/ Enter(r) \/ (\E code \in {0, -1} : Build(r, code)) \/ Return(r) \/ Plain(r)
           \/ Raise(r) \/ Handle(r) \/ Escape(r) \/ ServerError(r) \/ Enrich(r) \/ Profile(r)

Next == \E r \in Requests : Step(r)

Spec == Init /\ [][Next]_vars

-----------------------------------------------------------------------------
(* Properties. *)

PCs == {"new", "inner", "built", "raised", "answered", "escaped", "sent"}

\* The types of the variables.
TypeOK ==
    /\ pc \in [Requests -> PCs]
    /\ id \in [Requests -> Ids \union {None}]
    /\ profiled \in [Requests -> BOOLEAN]
    /\ context \in [Requests -> Contexts \union {None}]
    /\ resp \in [Requests -> Answers \union {None}]
    /\ error \in [Requests -> Errors \union {None}]
    /\ answer \in [Requests -> Answers \union {None}]
    /\ log \in [Requests -> Lines \union {None}]
    /\ profilers \in SUBSET Requests
    /\ debug \in BOOLEAN

Sent(r) == pc[r] = "sent"
Failed(r) == error[r] # None /\ ~Handled(error[r])

\* The trace_id in the body, the header X-Request-Id and the log line of an
\* answer are the id of its own request, whatever other requests do meanwhile:
\* the three are read from the context at different times.
OneTraceId ==
    \A r \in Requests :
        Sent(r) /\ answer[r].body = "envelope" =>
            /\ answer[r].trace = id[r]
            /\ answer[r].request_id = id[r]
            /\ log[r] # None /\ log[r].request_id = id[r]

\* The log line has response_data exactly for the answers with a code other than
\* success, and it is that of the answer sent, however many Resps were built
\* before it in the same request.
LogTellsTheAnswer ==
    \A r \in Requests :
        Sent(r) /\ log[r] # None =>
            log[r].data = IF answer[r].code \in {None, 0} THEN None ELSE answer[r].code

\* An exception that no handler answers inside the context gets no envelope
\* outside of it: unexpected_exception_handler cannot build one.  Such an answer
\* carries no request id and no line is logged; every other one has both unless
\* it is profiled.
BareServerErrors ==
    \A r \in Requests :
        Sent(r) =>
            /\ Failed(r) => answer[r] = Blank(IF debug THEN "page" ELSE "text", 500) /\ log[r] = None
            /\ ~Failed(r) /\ ~profiled[r] => answer[r].request_id # None /\ log[r] # None

\* A profiler that runs after its request is that of a request that ended with
\* an unexpected exception.
ProfilersLeft ==
    \A r \in profilers : Sent(r) => profiled[r] /\ Failed(r)

=============================================================================

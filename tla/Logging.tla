------------------------------- MODULE Logging -------------------------------
(***************************************************************************)
(* Where a record of the logging module ends up: InterceptHandler,         *)
(* setup_loguru and GunicornLogger (common/log.py), and the two ways in    *)
(* which the service is started.                                           *)
(*                                                                         *)
(* main.py sets loguru up first and then starts gunicorn, the command line *)
(* of gunicorn loads the application, and with it loguru, in the worker.   *)
(* Both give handlers to the same loggers, one after the other.            *)
(***************************************************************************)
EXTENDS Integers, Sequences

(* "other" stands for the loggers nobody gives a handler: asyncio, httpx... *)
Loggers == {"root", "uvicorn", "uvicorn.error", "uvicorn.access", "gunicorn.error", "gunicorn.access",
            "fastapi", "tortoise", "py.warnings", "other"}

(* 25 is a level that loguru has no name for.                               *)
Levels == {10, 20, 25, 30, 40}
NoHandler == [kind |-> "none", level |-> 0]

VARIABLES
    launch,     \* how the service is started, its settings, and its environment
    stages,     \* what is left to do of the start
    handler,    \* the handler of each logger, none has two of its own
    propagate,  \* does a logger hand records on to its parent?
    threshold,  \* level of each logger, 0 for that of the parent
    sink,       \* least level of loguru's sink
    record,     \* the last record that was logged, NoRecord before any
    fate        \* what the handlers it met did with it, by their loggers

logVars == <<launch, stages, handler, propagate, threshold, sink, record, fate>>

Nothing == [m \in {} |-> "dropped"]
NoRecord == [logger |-> "root", level |-> 0, exc |-> "none"]
Records == [logger: Loggers, level: Levels, exc: {"none", "caught", "elsewhere"}]

\* main.py names GunicornLogger in a comment only; the command line may name it.
Launches == [by: {"main", "gunicorn"}, class: {"default", "GunicornLogger"}, level: {10, 20}, local: BOOLEAN]
Order(by) == IF by = "main" THEN <<"setup", "arbiter", "worker", "serve">>
                            ELSE <<"arbiter", "worker", "setup", "serve">>

LogInit ==
    /\ launch \in Launches
    /\ stages = Order(launch.by)
    /\ handler = [l \in Loggers |-> NoHandler]
    /\ propagate = [l \in Loggers |-> TRUE]
    /\ threshold = [l \in Loggers |-> IF l = "root" THEN 30 ELSE 0]
    /\ sink = 10
    /\ record = NoRecord
    /\ fate = Nothing

Stage(s) == stages # <<>> /\ Head(stages) = s /\ stages' = Tail(stages)
Forget == record' = NoRecord /\ fate' = Nothing

-----------------------------------------------------------------------------
(* The start. *)

Intercept(level) == [kind |-> "intercept", level |-> level]

\* setup_loguru_logging_intercept for some loggers and, always, the root logger.
Intercepted(old, modules, new) == [l \in Loggers |-> IF l \in modules \union {"root"} THEN new ELSE old[l]]

\* setup_loguru: the handlers of root and uvicorn are taken away again.
Intercepting == {"uvicorn.error", "uvicorn.access", "fastapi", "tortoise"}
\* Mutant: root keeps its handler.
AfterSetupKeepsRoot(h, level) == [Intercepted(h, Intercepting, Intercept(level)) EXCEPT !["uvicorn"] = NoHandler]
AfterSetup(h, level) ==
    [Intercepted(h, Intercepting, Intercept(level)) EXCEPT !["root"] = NoHandler, !["uvicorn"] = NoHandler]

\* captureWarnings(True) is part of it: from now on Python's warnings are
\* records of py.warnings, which gets a NullHandler with the first of them.
SetupLoguru ==
    /\ Stage("setup") /\ Forget
    /\ handler' = [AfterSetup(handler, launch.level) EXCEPT !["py.warnings"] = [kind |-> "null", level |-> 0]]
    /\ threshold' = Intercepted(threshold, Intercepting, launch.level)
    /\ sink' = launch.level
    /\ UNCHANGED <<launch, propagate>>

\* The arbiter creates its logger: the one of gunicorn writes errors to stderr
\* and no access log; GunicornLogger then sends both, and root, to loguru.
ServerLoggers == {"gunicorn.error", "gunicorn.access"}
Arbiter ==
    /\ Stage("arbiter") /\ Forget
    /\ propagate' = [l \in Loggers |-> l \notin ServerLoggers /\ propagate[l]]
    /\ IF launch.class = "GunicornLogger"
       THEN /\ handler' = Intercepted(handler, ServerLoggers, Intercept(20))
            /\ threshold' = Intercepted(threshold, ServerLoggers, 20)
       ELSE /\ handler' = [handler EXCEPT !["gunicorn.error"] = [kind |-> "stream", level |-> 0]]
            /\ threshold' = [threshold EXCEPT !["gunicorn.error"] = IF launch.by = "main" THEN launch.level ELSE 20,
                                              !["gunicorn.access"] = 20]
    /\ UNCHANGED <<launch, sink>>

\* UvicornWorker: the loggers of uvicorn take over from those of gunicorn.
Worker ==
    /\ Stage("worker") /\ Forget
    /\ LET Over(f) == [f EXCEPT !["uvicorn.error"] = f["gunicorn.error"],
                                !["uvicorn.access"] = f["gunicorn.access"]]
       IN  handler' = Over(handler) /\ threshold' = Over(threshold) /\ propagate' = Over(propagate)
    /\ UNCHANGED <<launch, sink>>

-----------------------------------------------------------------------------
(* Records. *)

\* Mutant: everything of uvicorn is ignored.
IgnoredPrefix(l) == l \in {"uvicorn", "uvicorn.error", "uvicorn.access"}
Ignored(l) == l = "uvicorn.access"

\* InterceptHandler.emit.  Outside of an except block there is no traceback, and
\* the last entry of it is asked for; loguru has no level of the name 25.
Emit(r) ==
    CASE Ignored(r.logger) -> "dropped"
      [] ~Ignored(r.logger) /\ r.exc = "elsewhere" -> "IndexError"
      [] ~Ignored(r.logger) /\ r.exc = "caught" -> IF launch.local THEN "stdout" ELSE "loguru"
      [] OTHER -> IF r.level = 25 THEN "ValueError" ELSE IF r.level >= sink THEN "loguru" ELSE "dropped"

\* What one handler does with a record.
Does(h, r) ==
    CASE h.kind = "null" -> "dropped"
      [] h.kind = "stream" -> "stderr"
      [] OTHER -> Emit(r)

\* A logger and its parents up to root.
Line(l) == {l, "root"} \union (IF l \in {"uvicorn.error", "uvicorn.access"} THEN {"uvicorn"} ELSE {})
Beyond(n, m) == n # m /\ m \in Line(n)

\* callHandlers: from the logger towards root, as long as records are handed on.
Reached(l) == {m \in Line(l) : \A n \in Line(l) : Beyond(n, m) => propagate[n]}
Met(l) == {m \in Reached(l) : handler[m] # NoHandler}
At(m, r) == IF r.level >= handler[m].level THEN Does(handler[m], r) ELSE "dropped"
Raised(what) == what \in {"IndexError", "ValueError"}

\* Without any handler the last resort writes warnings to stderr; a handler that
\* raises is the last one.
Fate(r) ==
    LET met == Met(r.logger)
    IN  IF met = {} THEN [m \in (IF r.level >= 30 THEN {"lastResort"} ELSE {}) |-> "stderr"]
        ELSE [m \in {m \in met : \A n \in met : Beyond(n, m) => ~Raised(At(n, r))} |-> At(m, r)]

\* The level of a logger is that of the nearest one that has its own.
Enabled(r) ==
    LET own == {m \in Line(r.logger) : threshold[m] # 0}
    IN  \E m \in own : own \subseteq Line(m) /\ r.level >= threshold[m]

\* Who logs when: the server while it serves, gunicorn since its arbiter runs,
\* FastAPI and captured warnings since the application is loaded.  uvicorn logs
\* requests at INFO.  Exceptions are logged where they are caught, but by asyncio.
Speaks(r) ==
    /\ r.logger \in {"uvicorn.error", "uvicorn.access"} => stages = <<>>
    /\ r.logger = "gunicorn.error" => \A i \in DOMAIN stages : stages[i] # "arbiter"
    /\ r.logger \in {"fastapi", "py.warnings"} => \A i \in DOMAIN stages : stages[i] # "setup"
    /\ r.logger \notin {"uvicorn", "gunicorn.access"}
    /\ r.logger = "uvicorn.access" => r.level = 20 /\ r.exc = "none"
    /\ r.logger = "py.warnings" => r.level = 30 /\ r.exc = "none"
    /\ r.exc # "none" => r.level = 40
    /\ r.exc = "elsewhere" => r.logger = "other"

Log ==
    \E r \in Records :
        /\ Speaks(r)
        /\ record' = r
        /\ fate' = IF Enabled(r) THEN Fate(r) ELSE Nothing
        /\ UNCHANGED <<launch, stages, handler, propagate, threshold, sink>>

Serve ==
    /\ Stage("serve") /\ Forget
    /\ UNCHANGED <<launch, handler, propagate, threshold, sink>>

LogNext == SetupLoguru \/ Arbiter \/ Worker \/ Serve \/ Log

LogSpec == LogInit /\ [][LogNext]_logVars

-----------------------------------------------------------------------------
(* Properties. *)

Written == {i \in DOMAIN fate : fate[i] \in {"loguru", "stdout", "stderr"}}

\* "disable duplicate logging": no record is written twice, but when main.py
\* starts gunicorn with GunicornLogger, whose intercepting of root comes after
\* setup_loguru took it away.
WrittenOnce ==
    \A i, j \in Written : i # j => launch.by = "main" /\ launch.class = "GunicornLogger"

\* No warning and no error vanishes, whatever was set up so far and in whatever
\* order: it is written, or the code that logged it gets the exception of the
\* handler.  The exception are the warnings of Python, which captureWarnings
\* takes from stderr, and which are written only when root has a handler.
WarningsArrive ==
    record.level >= 30 =>
        IF record.logger = "py.warnings" THEN Written # {} <=> handler["root"] # NoHandler
        ELSE Written # {} \/ \E i \in DOMAIN fate : Raised(fate[i])

=============================================================================

---------------------------- MODULE ServiceStart ----------------------------
(***************************************************************************)
(* How services start: services/entrypoint/main.py first awaits            *)
(* before_server_start, which upgrades the schema of each app with aerich, *)
(* and then lets gunicorn fork workers, each of which enters the lifespan  *)
(* of its application.                                                     *)
(*                                                                         *)
(* Several hosts start against the same databases, at any time and with no *)
(* lock between them.  MySQL commits each DDL statement by itself, so the  *)
(* transaction around an upgrade undoes nothing: a host that is lost       *)
(* between two statements leaves half a version behind.                    *)
(***************************************************************************)
EXTENDS Integers, Sequences

CONSTANTS
    Hosts,      \* machines on which main.py is run
    Service,    \* Service[h], the application h is told to run
    Workers,    \* server.worker_number worker processes of a host
    MaxFaults   \* bound on the faults of databases and hosts

ASSUME ServiceAssumption == Service \in [Hosts -> {"root", "user"}]
ASSUME MaxFaultsAssumption == MaxFaults \in Nat

VARIABLES
    tables,   \* tables that exist, in any database
    records,  \* versions in the table aerich, as <<app, number of the file>>
    pc,       \* pc[h], what the process on h does next
    at,       \* at[h], the app, the file and the statement it is at
    worker,   \* worker[h][w], the state of a worker process
    faults,   \* how many faults there were
    hit       \* hit[h], whether a fault hit h since it was started (history)

vars == <<tables, records, pc, at, worker, faults, hit>>

-----------------------------------------------------------------------------
(* The version files: the table that each statement creates, and the tables *)
(* that its foreign keys refer to.                                          *)

InitUserCenter == << [table |-> "aerich", refs |-> {}],
                     [table |-> "company", refs |-> {}] >>
UpdateUserCenter == << [table |-> "account", refs |-> {"company"}] >>
InitAssetCenter == << [table |-> "vehiclebrand", refs |-> {}] >>

\* get_all_version_files: by the number that begins their names.
Files ==
    [user_center |-> <<InitUserCenter, UpdateUserCenter>>, asset_center |-> <<InitAssetCenter>>]

\* The apps that before_server_start upgrades, in its order; the versions of
\* all of them are recorded in the user center.  (Mutant: in the other order.)
AppsBackwards(h) ==
    IF Service[h] = "root" THEN <<"asset_center", "user_center">> ELSE <<"user_center">>
Apps(h) ==
    IF Service[h] = "root" THEN <<"user_center", "asset_center">> ELSE <<"user_center">>

TablesOf(file) == {file[k].table : k \in DOMAIN file}
TablesOfApp(app) == UNION {TablesOf(Files[app][n]) : n \in DOMAIN Files[app]}
Versions == UNION {{app} \X DOMAIN Files[app] : app \in DOMAIN Files}

App(h) == Apps(h)[at[h].app]
File(h) == Files[App(h)][at[h].file]
Statement(h) == File(h)[at[h].stmt]
Version(h) == <<App(h), at[h].file>>

-----------------------------------------------------------------------------
Init ==
    /\ tables = {}
    /\ records = {}
    /\ pc = [h \in Hosts |-> "down"]
    /\ at = [h \in Hosts |-> [app |-> 1, file |-> 1, stmt |-> 1]]
    /\ worker = [h \in Hosts |-> [w \in Workers |-> "none"]]
    /\ faults = 0
    /\ hit = [h \in Hosts |-> FALSE]

Goto(h, s) == pc' = [pc EXCEPT ![h] = s]

\* The process ends, and its workers with it.
Exit(h) ==
    /\ Goto(h, "down")
    /\ worker' = [worker EXCEPT ![h] = [w \in Workers |-> "none"]]
    /\ UNCHANGED at

\* main.py: the application is imported, then before_server_start is awaited.
\* (Mutant: it is not.)
StartUnprepared(h) ==
    /\ pc[h] = "down"
    /\ Goto(h, "serve")
    /\ at' = [at EXCEPT ![h] = [app |-> 1, file |-> 1, stmt |-> 1]]
    /\ hit' = [hit EXCEPT ![h] = FALSE]
    /\ UNCHANGED <<tables, records, worker, faults>>
Start(h) ==
    /\ pc[h] = "down"
    /\ Goto(h, "init")
    /\ at' = [at EXCEPT ![h] = [app |-> 1, file |-> 1, stmt |-> 1]]
    /\ hit' = [hit EXCEPT ![h] = FALSE]
    /\ UNCHANGED <<tables, records, worker, faults>>

\* Command.init reads from the database and changes nothing there.
InitCommand(h) ==
    /\ pc[h] = "init"
    /\ Goto(h, "exists")
    /\ UNCHANGED <<tables, records, at, worker, faults, hit>>

\* The next file of the app, the next app, or the server.
NextFile(h) ==
    LET i == at[h].app  n == at[h].file IN
    IF n < Len(Files[App(h)])
    THEN /\ at' = [at EXCEPT ![h] = [app |-> i, file |-> n + 1, stmt |-> 1]]
         /\ Goto(h, "exists")
    ELSE IF i < Len(Apps(h))
    THEN /\ at' = [at EXCEPT ![h] = [app |-> i + 1, file |-> 1, stmt |-> 1]]
         /\ Goto(h, "init")
    ELSE /\ Goto(h, "serve")
         /\ UNCHANGED at

\* Is the version recorded?  A table aerich that is missing, as on the first
\* start, is an OperationalError, and counts as no.
Exists(h) ==
    /\ pc[h] = "exists"
    /\ IF "aerich" \in tables /\ Version(h) \in records
       THEN NextFile(h)
       ELSE Goto(h, "script") /\ UNCHANGED at
    /\ UNCHANGED <<tables, records, worker, faults, hit>>

\* execute_script: one CREATE TABLE IF NOT EXISTS after another.  MySQL refuses
\* a foreign key to a table that does not exist.
\* Mutant: CREATE TABLE without IF NOT EXISTS.
CreateTableOnce(h) ==
    /\ pc[h] = "script"
    /\ IF Statement(h).refs \subseteq tables /\ Statement(h).table \notin tables
       THEN /\ tables' = tables \union {Statement(h).table}
            /\ IF at[h].stmt < Len(File(h))
               THEN at' = [at EXCEPT ![h].stmt = @ + 1] /\ UNCHANGED pc
               ELSE Goto(h, "record") /\ UNCHANGED at
            /\ UNCHANGED worker
       ELSE Exit(h) /\ UNCHANGED tables
    /\ UNCHANGED <<records, faults, hit>>
\* Mutant: only the first statement of the script is executed.
CreateFirstTable(h) ==
    /\ pc[h] = "script"
    /\ IF Statement(h).refs \subseteq tables
       THEN /\ tables' = tables \union {Statement(h).table}
            /\ Goto(h, "record")
            /\ UNCHANGED <<at, worker>>
       ELSE Exit(h) /\ UNCHANGED tables
    /\ UNCHANGED <<records, faults, hit>>
CreateTable(h) ==
    /\ pc[h] = "script"
    /\ IF Statement(h).refs \subseteq tables
       THEN /\ tables' = tables \union {Statement(h).table}
            /\ IF at[h].stmt < Len(File(h))
               THEN at' = [at EXCEPT ![h].stmt = @ + 1] /\ UNCHANGED pc
               ELSE Goto(h, "record") /\ UNCHANGED at
            /\ UNCHANGED worker
       ELSE Exit(h) /\ UNCHANGED tables
    /\ UNCHANGED <<records, faults, hit>>

\* Aerich.create, in the user center whatever the app.
Record(h) ==
    /\ pc[h] = "record"
    /\ IF "aerich" \in tables
       THEN /\ records' = records \union {Version(h)}
            /\ NextFile(h)
            /\ UNCHANGED worker
       ELSE Exit(h) /\ UNCHANGED records
    /\ UNCHANGED <<tables, faults, hit>>

\* Gunicorn replaces missing workers for as long as it runs.
Fork(h, w) ==
    /\ pc[h] = "serve"
    /\ worker[h][w] = "none"
    /\ worker' = [worker EXCEPT ![h][w] = "boot"]
    /\ UNCHANGED <<tables, records, pc, at, faults, hit>>

\* The lifespan of RootApi is the default one; that of an application mounted
\* in it is never entered.
BootRoot(h, w) ==
    /\ Service[h] = "root"
    /\ pc[h] = "serve"
    /\ worker[h][w] = "boot"
    /\ worker' = [worker EXCEPT ![h][w] = "ready"]
    /\ UNCHANGED <<tables, records, pc, at, faults, hit>>

\* The lifespan of the user center reads local_configs.clickhouse, which
\* LocalConfig does not have: the worker fails to boot, and gunicorn halts.
BootUser(h, w) ==
    /\ Service[h] = "user"
    /\ pc[h] = "serve"
    /\ worker[h][w] = "boot"
    /\ Exit(h)
    /\ UNCHANGED <<tables, records, faults, hit>>

\* max_requests is reached, or a worker that serves dies.
WorkerEnds(h, w) ==
    /\ worker[h][w] = "ready"
    /\ worker' = [worker EXCEPT ![h][w] = "none"]
    /\ UNCHANGED <<tables, records, pc, at, faults, hit>>

Fault(h) ==
    /\ faults < MaxFaults
    /\ faults' = faults + 1
    /\ hit' = [hit EXCEPT ![h] = TRUE]

\* A worker dies while it boots.
WorkerLost(h, w) ==
    /\ worker[h][w] = "boot"
    /\ Fault(h)
    /\ worker' = [worker EXCEPT ![h][w] = "none"]
    /\ UNCHANGED <<tables, records, pc, at>>

\* The host is lost, or the database fails a statement of its upgrade.
Lost(h) ==
    /\ pc[h] # "down"
    /\ Fault(h)
    /\ Exit(h)
    /\ UNCHANGED <<tables, records>>

\* The host is lost after the database executed its statement.
LostUnanswered(h) ==
    /\ \/ /\ pc[h] = "script"
          /\ Statement(h).refs \subseteq tables
          /\ tables' = tables \union {Statement(h).table}
          /\ UNCHANGED records
       \/ /\ pc[h] = "record"
          /\ "aerich" \in tables
          /\ records' = records \union {Version(h)}
          /\ UNCHANGED tables
    /\ Fault(h)
    /\ Exit(h)

\* The database fails the question whether a version is recorded with an
\* OperationalError: this counts as no, too.
ExistsFails(h) ==
    /\ pc[h] = "exists"
    /\ Fault(h)
    /\ Goto(h, "script")
    /\ UNCHANGED <<tables, records, at, worker>>

Boot(h, w) == BootRoot(h, w) \/ BootUser(h, w)

Upgrade(h) == InitCommand(h) \/ Exists(h) \/ CreateTable(h) \/ Record(h)

Next ==
    \E h \in Hosts :
        \/ Start(h) \/ Upgrade(h)
        \/ \E w \in Workers : Fork(h, w) \/ Boot(h, w) \/ WorkerEnds(h, w) \/ WorkerLost(h, w)
        \/ Lost(h) \/ LostUnanswered(h) \/ ExistsFails(h)

\* A process that is not lost goes on, and so do its workers.  Nobody has to
\* start a process again.
Fairness ==
    \A h \in Hosts :
        /\ WF_vars(Upgrade(h))
        /\ \A w \in Workers : WF_vars(Fork(h, w)) /\ WF_vars(Boot(h, w))

Spec == Init /\ [][Next]_vars
FairSpec == Spec /\ Fairness

-----------------------------------------------------------------------------
(* Properties. *)

\* The types of the variables.
TypeOK ==
    /\ tables \subseteq UNION {TablesOfApp(app) : app \in DOMAIN Files}
    /\ records \subseteq Versions
    /\ pc \in [Hosts -> {"down", "init", "exists", "script", "record", "serve"}]
    /\ \A h \in Hosts : /\ at[h].app \in DOMAIN Apps(h)
                        /\ at[h].file \in DOMAIN Files[App(h)]
                        /\ at[h].stmt \in DOMAIN File(h)
    /\ worker \in [Hosts -> [Workers -> {"none", "boot", "ready"}]]
    /\ faults \in 0..MaxFaults
    /\ hit \in [Hosts -> BOOLEAN]

\* A version that is recorded, and every one before it, has been applied whole,
\* however many hosts upgrade at once and wherever one of them was lost: nothing
\* that a later start skips is missing.
RecordedIsApplied ==
    \A v \in records : \A n \in 1..v[2] : TablesOf(Files[v[1]][n]) \subseteq tables

\* A worker serves only with all tables of its application in place.
ServesMigrated ==
    \A h \in Hosts, w \in Workers :
        worker[h][w] = "ready" =>
            \A i \in DOMAIN Apps(h) : TablesOfApp(Apps(h)[i]) \subseteq tables

\* Whatever earlier starts and other hosts have left behind, a start of the main
\* service that no fault hits ends with every worker serving, and a worker that
\* ends comes back.
StartSucceeds ==
    \A h \in Hosts, w \in Workers :
        Service[h] = "root" /\ pc[h] # "down"
            ~> worker[h][w] = "ready" \/ hit[h]

=============================================================================

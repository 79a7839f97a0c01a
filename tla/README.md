# FastMicroService in TLA+

Models, model-checking runs and proofs for the service framework in `src/`: FastAPI applications
over MySQL (Tortoise ORM), Redis, HBase and object storage. The code is asynchronous, opens no
database transaction, and runs in several worker processes; most of what can go wrong in it is an
order of statements of two calls that nobody wrote a test for. The only test file
(`src/tests/conftest.py`) holds fixtures that no longer import.

Each definition is translated from the source; `PROJECT.json` (`map`) gives the lines of each, and
lists the components, runs, mutants, findings, hazards and theorems. A definition whose name ends in
the words of its comment "Mutant: ..." is a plausible bug: put in the place of the definition that
follows it, the property named in `mutants` must fail. No specification uses one.

## Inventory

| Part | Source | State | Operations | What is hard |
|---|---|---|---|---|
| CRUD functions | `services/crud.py`, `services/user_center/v1/account/views.py` | none of their own; rows, links | create, update, update-or-create, delete, batch delete, list | no transaction: every await lets any other statement run; stale instances; partial failure |
| Base models | `common/tortoise/models/base.py`, `common/tortoise/fields/base.py` | `deleted_at` of each row | soft delete, real delete, save | tombstones in a unique index, truncation to seconds |
| Account cache | `services/dependencies.py` | `_account_cache`, one per worker | look up, fill | the await between miss and fill; time passes between test and lookup; no invalidation |
| Captcha codes | `storages/redis/util.py`, `conf/defines.py` | keys in Redis | generate, verify | GET and DELETE are two commands; lost replies; expiry |
| HBase reads | `storages/hbase/models/base.py` | a connection per attempt | scan, get_row_list | retries around a generator that has already yielded; bounds of byte strings |
| Request pipeline | `services/middlewares.py`, `services/exceptions.py`, `common/responses.py`, `common/context.py` | the context of each request, running profilers, `SingletonClassMeta._instances` | enter, answer, fail, enrich, log | concurrent requests; handlers that fail; what runs outside of the context |
| Listing | `services/crud.py`, `services/dependencies.py`, `common/responses.py` | none | paginate, get_all, page info | two statements per page, no tie between pages |
| Service start | `services/entrypoint`, `services/user_center/factory.py`, `common/fastapi.py` | loguru and patch flags | migrate, fork, lifespan | order of start; several workers |
| Migrations | `storages/relational/migrate` | schema version | upgrade, downgrade | run by aerich; MySQL commits DDL at once |
| Schemas | `common/tortoise/contrib/pydantic`, `common/pydantic.py` | `_MODEL_INDEX`, the schemas made so far by name | make a schema of a model, select fields of one, prefetch for one | recursion through related models; a name that is not unique; two classes `PydanticModel` |
| Field types | `common/tortoise/fields/base.py` | a column and what an instance made of it | to_python_value, to_db_value | two conversions that have to undo each other |
| ClickHouse | `services/crud.py`, `storages/clickhouse/connection.py` | none | get_sql, get_clickhouse_all | two statements, text that is formatted twice, operators that are rewritten |
| Logging | `common/log.py`, `common/fastapi.py` | handlers and levels of the loggers | setup_loguru, GunicornLogger, emit | an order of the start that differs by who starts whom |
| Binary UUIDs | `common/utils.py` | none | uuid_to_bin, bin_to_uuid | order of byte strings, two permutations |
| Other utilities, validators | `common/utils.py`, `common/regex.py`, `common/tortoise/validators.py`, `common/types.py`, `common/decorators.py` | none, but `timelimit` threads and singletons | pure functions | boundaries of numbers |
| Encryption, object storage, patches, settings | `common/encrypt.py`, `common/oss`, `storages/oss`, `common/monkey_patch.py`, `conf` | none that other parts depend on | wrappers of libraries | I/O of third parties |

How they interact. An endpoint runs inside the request pipeline; it calls the CRUD functions, whose
statements meet those of other requests only in MySQL; authentication (a dependency) reads the
account through the cache of its worker, which no CRUD function invalidates; captcha calls meet in
Redis only. Errors of any part travel as exceptions to the handlers of the pipeline. HBase models
are used by consumers of their generators. Every part is its own module; the points where two meet are
part of the environment of each (`Change`, `Remove` of `AccountCache` are what `Crud` does to the
accounts; `Raise` of `RequestPipeline` is what any of them raises).

What makes each part correct:

- CRUD: one live row per name; what was deleted stays deleted; refused calls change nothing;
  answers are true; relations are replaced whole; a deletion fails only for a row that is gone or
  for the second it takes.
- Account cache: staleness is bounded; refusals are current; no lookup fails but at an expiry.
- Captcha: a code works once; a wrong guess uses nothing up.
- HBase: a prefix scan asks for the right keys; a scan that succeeds is complete and invents nothing;
  repeats and leaks have the causes they are known to have.
- Pipeline: one request, one id, in body, header and log; the log tells the answer that was sent.
- Schemas: a schema has the fields that were asked for, whatever was made before, and its relations
  are loaded with it.
- Listing: a walk through the pages misses no row, and the page info describes the page.
- ClickHouse: a listing holds what its filter asks for, as long as no value changes the text of the
  query, and its total fits when nobody writes.
- Fields: an instance that is loaded and saved changes a column at most once, but for paths under a
  base path.
- Logging: no record is written twice, no warning vanishes.
- Binary UUIDs: the stored form sorts by time and can be undone.

## Modules

| Module | Models | Proofs |
|---|---|---|
| `Crud` (+ `MCCrud`) | CRUD functions, base models, constraints of MySQL | `CrudProofs` |
| `RowTable` | the abstract specification of what `Crud` does to its table | `CrudProofs` |
| `AccountCache` (+ `MCAccountCache`) | `_get_account_by_username` and its `TTLCache` | `AccountCacheProofs` |
| `Captcha` (+ `MCCaptcha`) | `generate_capthca_code`, `verify_captcha_code`, `get_redis` | `CaptchaProofs` |
| `ByteRange` | `bytes_increment` and the bounds of `HBaseORM.scan` | `HelperProofs` |
| `Uuids` | `uuid_to_bin`, `bin_to_uuid` | `HelperProofs` |
| `Fields` | the conversions of the field types | `HelperProofs` |
| `ClickHouse` | `get_sql`, `get_clickhouse_all`, `get_clickhouse_client` | `HelperProofs` |
| `Logging` | `setup_loguru`, `GunicornLogger`, `InterceptHandler` | `HelperProofs` |
| `MCHelpers` | the five above side by side, for TLC | |
| `HBaseReads` | `scan` and `get_row_list` with retries | `HBaseReadsProofs` |
| `RequestPipeline` | context middleware, plugins, envelope, exception handlers | `PipelineProofs` |
| `Paging` | `paginate`, `get_all`, `generate_page_info` | `ListingProofs` |
| `ServiceStart` (+ `MCServiceStart`) | `main.py`, `before_server_start`, version files, lifespans, workers | `ServiceStartProofs` |
| `Schemas` (+ `MCSchemas`) | `pydantic_model_creator`, `create_sub_fields_model`, `_get_fetch_fields` | `ListingProofs` |

### Crud

A call is a coroutine; an action is the code from one await to the next, so the interleavings of TLC
are those of the event loop, of other workers and of other calls. `pc[r]` is the statement that call
`r` awaits: `Get` (`get_or_none`), `CheckCompany` and `CheckTag` (`kwargs_clean`), `Insert`,
`UpdateRow`, `Clear` (`clear()` of the relation), `FindLinks` and `Link` (the SELECT and the INSERT of
its `add()`), `Refresh`, `Fetch`, then
`Stamp`, `Save`, `SoftDelete`, `HardDelete` for deletions. `obj[r]` is the model instance that the
call carries across its awaits, as stale as the code lets it become. `Fault` is a call that is cut off
(a worker dies, a task is cancelled) at any await: what it has done stays done. `RealDelete`,
`DropCompany` and `DropTag` are other parts of the system taking rows away. MySQL is modelled by its
constraints: the unique index with `deleted_at`, foreign keys and cascades. `SoftDeletes` chooses
between a model with `delte_by_ids` and one without.

The model is one table with what the repository's models have between them (see the head of the
module); `crud.py` is generic over models. The history variables `effects` and `touched` say what a
call has changed, and what others changed under it since; no action reads them.

`RowTable` is what is left of all this for somebody who looks at the table: a key is free, then live,
then deleted, then gone, live names are apart, and every step is one whole operation (`Put`, `Delete`,
`RenameDeleted`, `Purge`). The mapping `Table` in `Crud` computes the stage of a key from its row and
from whether it was ever inserted. That `RenameDeleted` is there is a fact about the code: `update`
finds deleted rows as well.

### AccountCache

One worker. The event loop runs a request alone between awaits (`LoopFree`), but time passes even
then, so `__contains__` and `__getitem__` of the `TTLCache` are two steps. The cache drops expired
entries. A full one of cachetools drops the least recently used of its entries; the order of use is left
out, and the model drops any, which is more than the cache does and takes nothing from what is proved. `db`, `version` and `lapsed` are the accounts and
their history.

### Captcha

Redis executes one command at a time; commands of several calls interleave, any may fail before or
after it was executed (`SetUnanswered`, `DeleteUnanswered`, `Fail`). Every `SET` gets a number, so
that "the same code again" is not "the same issue again".

### ByteRange and HBaseReads

`ByteRange` is the pure part of `scan`: byte strings are sequences over `0..Top`, compared as HBase
compares row keys. `HBaseReads` is one call with its attempts against a table that changes: `scan`
yields inside its retry loop, `get_row_list` after its own. The consumer of the generator may take
the next row (`Resume`) or go away (`Abandon`).

### Uuids, Fields, ClickHouse, Logging

These and `ByteRange` have no variable in common. `MCHelpers` puts them side by side for TLC: a
behaviour belongs to one of them, and the others rest.

`Uuids` takes the 16 bytes as they are sliced by `swap_uuid_sections`; `Earlier` compares the times
inside, section by section, and `Before` is the order of HBase and of `BINARY(16)` in `ByteRange`.

`Fields` is one column and one instance. `Load` and `Save` are what Tortoise does with each field of a
model, `Assign` is the application and `Overwritten` another program. Every type has its pair of
conversions; values are numbers of which the conversions keep or lose something: half seconds, what
is in front of a path, the two bytes that `UUID_TO_BIN` could swap. The url of a file is what its storage
makes of the path, and the only storage of the repository, `XxxOss`, inherits a `get_full_path` that
raises: with it only `""` and contents that are urls already are ever loaded. `Storages` adds the two kinds of
storage that `get_real_path` suggests, one that puts a slash in front and one that puts a base path
there. `get_stored_path` takes the path out of a url and nothing off it, so with the latter the path
gets longer with every round until it no longer fits its column; a storage that quotes a path which
quoting changes does the same. `RewriteSettles` says for each of them what a round does.

`ClickHouse` is one call of `get_clickhouse_all`: the filter is rendered (`Rendered` keeps what
`get_sql` does to an operator; all thirteen of them are there, over a number or a text of two letters), then `CountRows` and `FetchRows` are its statements, `WriteRow` is
somebody between them, and `StatementFails` leaves through the client's `finally`. `get_sql` puts
values into the text as they are. A value has a `text`: it is plain; or it has a quote, or anything else by which
SQL reads more than a value, and then both statements may give any rows; or a brace, which the second
`format`, of the page only, reads, and then the page may give any rows or raise, and the count is
as written. What exactly such a query says is not modelled, and `FilteredListing` promises nothing of it.

`Logging` is the tree of loggers with their handlers, levels and `propagate`. `stages` is the order of
the start: `main.py` loads the application, and with it `setup_loguru`, before the arbiter of gunicorn
makes its logger, the command line of gunicorn the other way round. `fate` is what the handlers that one
record meets on its way up the tree (`callHandlers`) do with it, `Emit` is the handler of the repository.

### RequestPipeline

Requests are tasks. `Enter` is the middleware up to `call_next`; `Build`, `Return`, `Plain` and
`Raise` are the application inside; `Handle` is `ExceptionMiddleware` with the registered handlers,
which run inside the context; `Escape` and `ServerError` are what happens to everything else, outside
of the context; `Enrich` and `Profile` are the rest of the middleware. Messages are left out; codes,
statuses, ids and the log line are kept. `Return` goes through the `serialize_response` that `patch()`
puts in the place of FastAPI's.

### Paging

A client asks for page after page until the last one it was told of; `Write` puts rows in or takes
them out between any two statements. `Rows` and `Count` are the two statements of `get_all`.

### ServiceStart

A host runs `main.py`: `InitCommand`, `Exists`, `CreateTable`, `Record` are the statements of aerich's
`Command` that `before_server_start` awaits for each app and each version file, `at[h]` is the place
in these three loops, and only behind them gunicorn forks workers (`Fork`), which enter a lifespan
(`BootRoot`, `BootUser`). MySQL commits every DDL statement by itself, so `run_in_transaction=True`
undoes nothing. Hosts start at any time and share the databases without a lock. `Lost`,
`LostUnanswered`, `ExistsFails` and `WorkerLost` are the faults. aerich is a library: its loop is
modelled from how the code uses it and from the version files it is given.

### Schemas

`frames` is the stack of `pydantic_model_creator` calls: `Call` begins one, `Descend` the call for a
related model inside it, `LeaveOut` is a relation the recursion protector refuses, `Nests` and `Return`
end the inner and the outermost call and register the schema in `index` unless its name is taken.
`Name` keeps what the hash of a name is made of, so two names are equal exactly when the hashes of the
code are meant to be (the code keeps 30 bits of a hash; that two agree by chance is left out). `include`
and `exclude` of a `PydanticMeta` are left out as well: no model of the commit sets them. A schema is the set of its paths, with the relations among them and what
`_get_fetch_fields` computes from it. A frame takes its relations in the order `place` of the model
(`Field`); whether a model has `backward_relations` is part of the model.

What a call asks for is said without stack, frames and index. A way follows relations from the class of
the call, `KeptAt`, `RefusedAt` and `OwnAt` are what include, exclude and the recursion protector leave
at its end, and `AskedPaths` collects the fields of all `Ways`. `AnsweredUpToLeaves` compares the answers
with it. Its exceptions are what the index does: a name given twice, the columns of a part without
relations (the name `.leaf`), and the raw column of a relation that was refused, because the code adds
a refused relation to `exclude` before it hashes the name. `ByChance` holds the columns of the last two;
TLC violates the property when either is left out of it. `Select` is `create_sub_fields_model` as `get_all` uses it; `Declared` holds the schema
of accounts, which is made by the creator of the library.

## Runs

| Run | Instance | Shows |
|---|---|---|
| `crud_rows` | 2 calls, 2 rows, 2 names | `UniqueLive`, `OkUpdateHappened`, `ReadYourWrites`, `ImplementsRowTable` |
| `crud_delete` | 2 calls, 3 rows, 2 names, 2 seconds | `DeleteAnswer`, `RefusedCreateIsJustified`, `DeletionFailsOnlyInItsSecond` |
| `crud_links` | 2 calls, 1 row, 2 related rows, no tombstones | `RejectedChangedNothing`, `ReplacedLinks` |
| `cache` | 2 users, 2 requests, room for 1, TTL 1, 3 seconds, 2 changes of an account | `BoundedStaleness`, `RefusalIsCurrent`, `KeyErrorOnlyAtExpiry` |
| `captcha` | 1 key, 3 codes of which 2 are equal in lower case, 2 calls, 2 seconds | `NoReplay`, `GuessesAreFree` |
| `helpers` | strings up to 3 bytes out of 0..2; 72 UUIDs; days of 3 seconds, paths of up to 4 parts; 2 rows, filters of every operator and some pairs; 2 ways to start, 10 loggers | `PrefixScan`, `StoredByTime`, `FilteredListing`, `WrittenOnce`, `WarningsArrive`, `RewriteSettles` |
| `hbase_reads` | 3 keys, 2 attempts, limit 2, 2 changes | `Complete`, `NoPhantom`, `TwiceOnlyAfterReject`, `LeaksOnlyByFailures`, `RowsNeedEveryAttempt` |
| `pipeline` | 2 requests, 1 id of clients | `OneTraceId`, `LogTellsTheAnswer`, `BareServerErrors`, `ProfilersLeft` |
| `paging` | 4 rows, 3 orders, sizes 1..3 under a limit of 2, 2 writes | `NothingSkipped`, `RepeatsOnlyByShift`, `PageInfoAgrees` |
| `start` | 2 hosts of the main service, 1 of the user center, 2 faults, fair | `RecordedIsApplied`, `ServesMigrated`, `StartSucceeds` |
| `schemas` | 3 calls of 15, on models with and without backward relations, 3 selections | `AnsweredUpToLeaves`, `UnfetchedOnlyInSelections` |
| `schemas_prefetch` | the same | violation of `Prefetched` |

Why the bounds are enough. Two calls are what a race needs: each property relates one call to what
happens between its awaits, and one other call, together with the actions of the environment, can do
anything there; where a proof exists, it covers any number. Two names are needed for a rename onto
another row, two related rows to tell a replaced relation from an added one, two seconds to tell a
second deletion from a first, a second beyond TTL to see an entry expire before, in and after the
query, three codes for a right, a differently written and a wrong guess. Three values of a byte are one that is incremented, one in the middle and the highest;
the UUIDs differ in each section of their time; a time column goes from a day before to two
days after midnight, and a path has room for two base paths. The filters are one of every operator with every value, those with a changed text once, and
pairs that can contradict each other. The limit of the HBase scan
is smaller than the table, so that it cuts; the page size exceeds `max_limit`, so that it is clamped,
and the list is as long as two pages. Two faults
let a host be lost twice on its way, or be lost and then meet a question that fails, next to two
hosts that upgrade at the same time. Three calls of the schema creator are one that takes a name, one
that nests what it finds there, and one that meets the result under a third name; `MaxRecursion` is
the 3 of the library, and the models have two cycles of two and a cycle of one. `Crud`, `AccountCache` and `Captcha` are checked with symmetry over model values only,
and no run with symmetry checks liveness. `CHECK_DEADLOCK FALSE` stands where the calls of an instance have all
ended, and the bounds of clock and writes are reached: the system stops there because no more work
arrives.

Fairness. One specification assumes any. `FairSpec` of `ServiceStart`: `run_until_complete` runs one
coroutine whose statements are answered or fail, and gunicorn keeps the number of its workers, so the
upgrade of a host, its forks and its boots go on unless the host is lost (weak fairness: nothing else
disables them). Nobody has to restart a host. Nothing is assumed of the environment, nor of the clock.

## Proofs

Every theorem is of the form `Spec => []P`, `Spec => [][A]_v` or `Spec => Abstract!Spec`, for every value of the constants
under the assumptions named in the modules (sentinels differ from values, bounds are natural
numbers).

- `CrudProofs.TypeCorrect`: `TypeOK` is not inductive. That `deleted_at` is never NULL, for instance,
  needs that a call at `insert` has all columns, and that an instance was read before it is saved. The
  invariant is `TypeOK /\ Shape`; `Shape` says what each program counter implies of the call's locals.
- `CrudProofs`, safety: adds the named parts of `SafetyInv` (a call is inside a function it was made for,
  deletion times are positive, the index holds, effects come only after the last refusal, an update
  that got past its refresh has left its trace, the batch of a finished deletion is dead). It gives
  `OneLiveRowPerName`, `DeletedForGood`, `RefusalsAreClean`, `OkUpdatesHappened` and `DeletesDelete`,
  with any number of concurrent calls.
- `CrudProofs`, refinement: each statement maps to one step of `RowTable` or to none (`StepRefines`,
  with one lemma for each abstract step), from `SafetyInv` and `LiveNamesApart`, which
  gives the guard of `Put`. It gives `RowsImplementTable`.
- `CrudProofs`, links and answers: a refused create needs no more than the unique index
  (`RefusedCreatesJustified`), a failed deletion that `deleted_at` is what the statement wrote
  (`DeletionsFailOnlyTogether`). `AnswersInv` says of each call what its answer will rest on, as long as
  nobody else touched it: the row shows data from the UPDATE to the refresh, the instance from then on;
  the relation is empty after the clear, the SELECT of the add finds none of it, and it is complete after
  the INSERT. A write of another call marks what it touches (`WriteSeen`). It gives `AnswersShowWrites` and
  `LinksAreReplaced`.
- `ServiceStartProofs`: `StartInv` says that everything before the place of a host in its loops is
  applied, and with it every recorded version and those before it; tables only come, so the steps of
  other hosts keep it (`Unmoved`). It gives `StartTypes`, `RecordsAreTrue`, `NobodyServesEarly`.
- `AccountCacheProofs`: `CacheInvariant` relates the time a version lapsed to the times of the entries
  and of the reads that hold it. It gives `AnswersAreFresh`, `RefusalsAreCurrent`, `EntriesStay`.
- `CaptchaProofs`: `OnceInv` says that a spent issue is neither stored nor held by a verification that
  began after it was spent, and that what a verification holds is no newer than what is stored. It
  gives `CodesWorkOnce` and `GuessesKeepCodes`.
- `HelperProofs`: for `ByteRange` the range of `bytes_increment` is characterised by the order of byte
  strings without induction: the first place where two strings differ exists because the naturals are
  well founded. It gives `PrefixScans`, for any byte width and length. `UuidsSortByTime` goes from the
  numbers of two bytes and of four to the order of the strings (`TwoOrder`, `FourOrder`, `BeforeAt`).
  `RewritesSettle` rests on one round of load and save (`RoundOfField`), for any length of a day and of
  a file column. `ListingsAnswerTheFilter` rests on what each condition becomes (`RenderedAsks`) and on
  `ListingInv`, which ties count and page to one table as long as nobody wrote; it is about any filters,
  and says of those with a changed text what `FilteredListing` leaves of its promise.
  For `Logging`, `LogInv` says which handlers and levels a logger can have before and after each stage
  of the start, that only one handler meets a record unless `main.py` starts `GunicornLogger`, and what became of
  the last record; it gives `RecordsWrittenOnce` and `WarningsAreWritten`, in every order of the start.
- `HBaseReadsProofs`: `ReadInv` says what has been seen of the rows that were always there, where the
  loop of `scan` is in its ordered result, and how connections and failures add up. It gives
  `ReadsAreComplete`, `ReadsAreReal`, `RetriesRepeatNothing`, `OneLeakPerFailure` and
  `EveryAttemptCounts`, for any table, limit and number of attempts.
- `PipelineProofs`: the invariant says of each request what its program counter implies of its
  context, answer and log line; the step of one request leaves the others' entries alone
  (`OthersStay`). It gives `AnswersCarryTheirId`, `TheLogIsTrue`, `ServerErrorsAreBare`,
  `ProfilersStop`.
- `ListingProofs`, pages: `Place` is the position of a row in the order of the list, `Reach` how many
  positions the walk has covered. `WalkInv` says that rows handed out have a place within reach as long
  as none was inserted (`RepeatInv`), that rows still to come have one beyond it as long as none was
  removed (`SkipInv`), both where the order has no ties, and how many rows a page has, given what was written between
  its two statements (`InfoInv`, `drift`). A write moves the places of other rows in one direction
  (`FewerBefore`, `MoreBefore`). It gives `NothingIsSkipped`, `RepeatsOnlyAfterInsert` and
  `PageInfoIsRight`, for any number of rows, page size and limit; the table is finite
  (`IdsAssumption`).
- `ListingProofs`, prefetching: `FetchInv` says of every frame, every schema of the index and every
  answer that each of its relations is on the way of something that is fetched. It gives
  `RelationsAreFetched`, where the schemas of the library fetch nothing (`DeclaredAssumption`).
- `ListingProofs`, answers: `CallsAreAnswered` is `AnsweredUpToLeaves` for any models and any sequence
  of calls. It assumes that `describe` finds the class of every relation and that fields have different
  names and an order (`ModelAssumption`), and that include and exclude name fields
  (`CallsAssumption`). `AnsweredUpToLeaves` speaks of finished calls only; `AnswerInv` adds two
  invariants. `FramesInv`: each frame stands for the way from the call to it (`FrameStands`), and has
  what is asked for at its end and beyond the relations it has done. `IndexInv`: what is registered
  under a name is what some call asked for somewhere under that name. What is asked for beyond a way
  unfolds by one relation at a time (`RestUnfolds`, `PathsUnfold`), as `Nests` does, so no induction over
  paths is needed. The heart is `NamesTell`: two parts of the same name agree on everything further on
  (`Agree`, `AgreeRest`) and on all but the `ChanceAt` columns at their own end, or are without
  relations. With it the schema found in the index stands for the one that would have been made.

Type invariants are proved and not checked again by the runs of their modules, nor is
`TombstonesStay`, which `ImplementsRowTable` says as well.

Only model-checked: `StartSucceeds` of `ServiceStart`, because liveness under fairness is out of the
prover's reach. That the library's `BoundedSeq` of ways loses none is proved
(`WaysAre`).

## Findings

1. `schemas_prefetch`: the docstring of `from_queryset` promises that all relations are prefetched.
   When a client of the account list selects `company`, `get_all` builds a schema on the repository's
   `PydanticModel` around a nested schema of the library's; `_get_fetch_fields` does not recognise it
   and nothing is prefetched. One step shows it.

Behaviour worth knowing that is stated by properties that hold: `bytes_increment` returns the string a
prefix scan needs, which is not always the shortest that sorts after its argument, and a reverse
prefix scan is off by one at both ends (`PrefixScan`); `scan` hands rows out twice after
a rejected row (`TwiceOnlyAfterReject`); `get_row_list` makes all its attempts and fails if one of
them did (`RowsNeedEveryAttempt`); the handler of unexpected exceptions cannot build its envelope
outside of the context, so such requests end as a bare 500 (`BareServerErrors`). A changed or deleted
account is served for up to an hour (`BoundedStaleness`). A comment in
`pydantic_model_creator` asks for separate classes for different parameters, but a schema without
relations is named `<class>.leaf` whatever they are: after a schema of `Company` without `name`, the
schema of `Account` that asks for `company.name` has every column of the company but that one.
`AnsweredUpToLeaves`, which is proved, says that nothing is shared but the columns of such schemas and
the raw columns of refused relations. A row can be deleted twice in different seconds,
each time with success, because `delte_by_ids` does not look at `deleted_at`, although the message of
a deletion that finds nothing speaks of rows "already deleted". Deleting a row in the second in which
another one of its name was deleted, or both in one batch, ends as a duplicate entry of the unique index and a bare
500: `DeletionFailsOnlyInItsSecond` says that nothing else but a row that is gone makes a deletion
fail. The warnings of Python, which `captureWarnings` takes from stderr, are written nowhere
under `setup_loguru` alone (`WarningsArrive` has this as its exception); with `GunicornLogger`, which
`main.py` names in a comment, errors would be written twice (`WrittenOnce`). A log call with `exc_info`
outside of an except block raises IndexError. In a filter a bool means equality whatever its operator
(`Asked`); operators spelled as in the docstring of `BaseFilterSchema` raise KeyError, and so may a
brace in a value once there is a row (`Renderable`, `Reformattable`); values reach the text of a query
without being escaped. A geometry that was loaded cannot
be saved, and a time column loses fractions and whole days when its row is saved; the only storage has no `get_full_path`, so a file field with it cannot load
a path (`RewriteSettles`).
Validation errors answer a code below zero under 422. `get_account` returns a pair where its
annotation promises an envelope. `max_connections` bounds the pool of one call and not the process. `update_or_create` dumps the schema's class and not its object. The
lifespan of the user center reads a setting that does not exist: mounted it is never entered, run by
itself its workers never boot (`BootUser`). Parts of the commit are unfinished: `JwtPayload` and the `username`
of `Account` do not exist, so the cache is modelled from the code as it is written.

## Not modelled

- Settings, encryption, uploads to object storage: wrappers of libraries without state of their own.
- `Decorators`: `timelimit` (it raises RuntimeError where its docstring says TimeoutError) and
  `SingletonClassMeta` have no callers that run at the same time; the growth of the instances of the
  latter is a hazard without a property.
- The rest of `common/utils.py` and the validators: functions of one expression around a library, most
  without a caller. `common/types.py` lacks names that `crud.py` imports at this commit.
- The layout of a log line (`serialize`, `json_sink`), and Sentry.
- Downgrades of migrations: nothing in the code runs them.
- HBase `get_row`, `put_row`, `delete_row`: commented out in the source.
- The choice of columns of HBase reads (display fields): data.
- What a field of a schema allows, computed fields, the order of fields, `optional`: data.
- Permission checks of `services/dependencies.py` that call methods `Account` does not have.

## Plan

Done, in this order: `Crud` with its proofs, the most important behaviour of the system, then
`AccountCache`, `Captcha`, `ByteRange`, `HBaseReads`, `RequestPipeline`, `Paging`; `RowTable` with the
proof that `Crud` implements it; `ServiceStart` with its proofs; `Schemas`; `Logging`, `ClickHouse`,
`Fields` and `Uuids`; the proofs of `HBaseReads`, `Uuids`, `Fields` and `ClickHouse`, and
those about the links and the answers of `Crud`; the proofs of `Logging`, `Paging` and `Schemas`.

Left:

1. That the recursion of `pydantic_model_creator` ends: a bound on the frames, and termination.
2. `Decorators`, once something calls them from several threads.
3. The permission checks, once the methods they call exist.

# A formal model of the uniworks AI platform

These TLA+ modules describe the behaviour of the Python service and the browser
console in `src/`: the start of its processes, the way of a request through
middlewares and error handlers, the OCR engine, the ledger it bills to, sessions,
user administration, the configuration file, the test history and the console page.
TLC checks them on small instances; TLAPS proves, for instances of every size, most
of the safety properties and that the OCR service implements its contract. Every definition
stands for code that `PROJECT.json` names line by line.

## 1. Inventory

| Part | State it keeps | Operations | Talks to |
|---|---|---|---|
| OCR service (`modules/ocr`) | none between requests; during one: page list, thread pool, page results | `POST /ocr`, `POST /ocr/test`: check, expand, run, group, record, answer | gateway, ledger, test runs |
| Model gateway and configuration (`core/model_gateway.py`, `config.py`) | the file `config/app.config.json`, read anew each time; environment variables | `call`, `get_model_config`, `default_model`, `available_models` | litellm |
| Ledger (`core/ledger.py`) | table `usage_ledger`, only appended to | `append`, `rollup` | SQLite |
| Test runs (`core/test_runs.py`) | table `test_runs` | `record`, `recent`, `groups`, `delete`, `get` | SQLite, console |
| API keys (`core/auth.py`, `permissions.py`) | table `api_keys` | `get_principal`, `require_capability`, `check_model` | SQLite |
| Sessions (`core/session.py`, `user_auth.py`, `auth_routes.py`) | nothing on the server: a signed cookie; a signing key for each process | login, logout, check of a cookie | users |
| Users (`core/users.py`, `admin_routes.py`, `scripts/seed_admin.py`) | table `users` | create, patch, list, seed | SQLite |
| Console (`web/app.js`) | page variables and the DOM | sections, request cards, history list | all routes by `fetch` |
| Request context and logging (`core/monitoring.py`, `context.py`, `errors.py`) | a context variable, table `access_log` | middlewares, error handlers | every route |
| Start-up (`app.py`, `core/registry.py`, `db.py`) | schema, mounted modules | `init_db`, `mount_modules` | SQLite, configuration |
| Recommend (`modules/recommend`), prompts, query script | none | a mock answer, reads of files | ledger |

What makes them hard:

* **Concurrency.** The routes are synchronous functions, so each request runs in
  a thread of the server, and each OCR request runs its pages on threads of its
  own. Several worker processes may run. Every database function opens a
  connection and commits for itself, so a handler is several transactions.
* **Failure.** A model call may raise and is retried; a write may raise in the
  middle of a series; the process may die between two commits.
* **Staleness.** Cookies carry facts that a table may have changed, browsers act
  on old lists, handlers write on the strength of an earlier read, the
  configuration may change between two reads of one request, and a process goes on
  with the modules it mounted when it started.
* **Order of answers.** In the browser, code goes on after an `await` in a page
  that the user has meanwhile used.

What each part has to get right:

* OCR service: exactly the pages that succeeded are billed, once, in one row for
  each file; the answer, the ledger and the stored run agree; nothing is called
  for a request that is not allowed to; attempts are bounded; each request ends.
* Start-up: a process that serves finds every table and column, whatever release the
  database is of and however many processes start at once; a start that lost the
  race for the migration succeeds when repeated.
* Application: an answer, its line in the log and what its handler logs carry one id;
  the access log tells only what happened, and its failure harms no request; a recommendation is
  booked once; a menu leads to routes that exist.
* Configuration: an edit takes effect from the next request on, one request never
  uses an entry that was not there while it ran, the configured key is the key.
* Sessions: no decision against the row of the user, a life of `MAX_AGE_SEC` but
  for the cut of the clock to whole seconds.
* Users: one account for each name, changes only by administrators, only of what
  they name.
* History: a delete or a detail concerns the run that was on the screen.
* Console: a card tells what became of its last run and never stays locked.

## 2. Modules and the code they stand for

**`OcrUploads`** says what an upload is (an image, a readable PDF with some number
of pages, a broken PDF) and which pages `_expand` makes of it. **`OcrService`**
`EXTENDS` it and is the core. `stage[r]` is where the request's own thread is,
`job[r][p]` is the state of page `p` with its attempt number, `next[r]` is the
index of the loop in `_record`. `ledger` is only ever appended to; `runs` is not:
`DeleteRuns` is the deletion of stored runs by whoever has the permission, at any
moment. One action stands for each step that another
thread can see: `Refuse`/`Accept` (all checks of the router and the
dependencies), `Claim`, `ClassifyReturns`, `ExtractReturns`, `CallRaises` (one
page's thread), `PoolCloses`, `AppendRow`, `RecordRun`, `WriteFails`, `Respond`
(the request's thread), `DeleteRuns` (another's), `Crash`. A page is a pair of file and page number; tokens
are represented by the calls that produced them. `job` and `call` are not
cleared after a request, so that rows can be compared with what they were made of.

**`OcrContract`** is what a client is promised, without threads, retries or
tables: pages are judged once each, then files are billed in order, then the
request is answered, or it is given up at any point with what is billed staying
billed. `OcrService` implements it (`ContractHolds`).

**`OcrPages`** has the loops that `OcrService` takes for granted: `_expand`,
`_group_by_file`, `_record`, `_aggregate_usage` and `rollup`, with providers,
tokens and error texts. It runs them one after another over every outcome of
every page. A list that the code filters, counts or adds up is looked at through the
set of the places concerned (`Mine`, `OkIn`), so that equal results stay apart; the
stable sort by `page_index` is the order in which as many places come before the
k-th as there are numbers below k. `ExpandMatchesService` links it to the set of
pages that `OcrUploads` defines.

**`Sessions`** has login, logout and the authentication of a request in the steps
in which the code reads the clock, the key and the row. Several processes may
have different keys; `Restart` draws a new one unless the environment fixes it. Time
is counted in readings of the clock, `TicksPerSecond` to the second, and `exp` cuts it
to whole seconds as `int(time.time())` does.
**`UserAdmin`** has the administration routes and `seed_admin.py`, each look-up and
each write a step of its own; uniqueness of names is the table's constraint.
Both use **`Roles`**, the table of permissions.

**`ModelConfig`** has the reads that one request makes of the configuration file
and an `Edit` that may come between any two, including a moment in which the file
is unreadable. **`History`** has the table of test runs and browsers with lists of
it that may be out of date. **`Console`** has the OCR test section of the page; after
a 401 it goes on as it is (`leaving`) until the browser really leaves it (`Unload`).

**`Startup`** is the import of `app.py` in each server process, with
`scripts/seed_key.py` beside it. `proc[p].at` is how far the process is. `Create` is
one statement of `executescript`, which commits each by itself; `Look` and `Alter`
are the two halves of the migration; `Mount` reads the configuration file and mounts
what `_MODULE_IMPORTS` knows of it; `InsertKey` is the script's write. `Fail` is a
statement that gives up on a lock, or an early death. The database may at first be
of any release. `Edit` changes `enabled_modules` or leaves the file half written.

**`App`** `EXTENDS` `Startup`: requests arrive at processes that serve, while others
start and die. A request goes inwards through the middleware stack (`Arrive` sets the
context variable), is routed and answered (`NotFound`, `Refused`, `Modules`,
`Served`, `Book` and `Recommended`), or raises (`Raise`), and goes outwards: `Log` is
what `AccessLogMiddleware` does before it passes the answer on, `Send` adds the
header and resets the context, `Unhandled` is the handler of `Exception`, which
Starlette puts outside all of them. `var[r]` has the context variable twice, because
`BaseHTTPMiddleware` runs what is below it in a task with a copy of the context;
`PoolLogs` is a thread of the OCR pool, whose context is empty; `HandlerLogs` is the
same line of a request with a single page, or another one of the handler's own thread,
which has it. `rows` is the sequence of inserts into `access_log`. A request stands for
its own id. The work behind `POST /ocr` is `OcrService`'s and one step here.

`MCOcrService`, `MCOcrPages`, `MCUserAdmin`, `MCModelConfig` and `MCApp` give the
constants that a `.cfg` file cannot express. `Sessions`, `Console` and `History` need
none.

The theorems are in `OcrServiceProofs` (types, rows, bills, authority, attempts,
nothing revised, the contract, replies and runs), `OcrPagesProofs`, `AppProofs`,
`ConsoleProofs`, `SessionsProofs`, `UserAdminProofs`, `HistoryProofs` and
`ModelConfigProofs`.

Operators whose comment says *Mistake* are not part of the model: each is a
plausible slip in the code (a guard dropped, a count off by one, steps swapped)
for which the named property has been seen to fail.

## 3. Runs

| Run | Instance | What it shows |
|---|---|---|
| `OcrPair` | two requests at once, every kind of upload, 2 workers, 1 retry, 2 pages a PDF, failing writes, crashes | types; one row for each file; right bills; runs are backed by rows; attempts are accounted for; no call without authority; the answer agrees with the ledger; no row, result or answer is revised, deletion of runs apart; every request ends; the contract is implemented |
| `OcrPages` | every pair of uploads and every outcome of their pages | the loops lose, repeat and mix up nothing, and agree with each other |
| `OcrGlobalCap` | two requests with full pools | *violated:* the call limit holds for a request, not for the service |
| `OcrRollup` | as `OcrPages` | *violated:* the rollup's `requests` counts files |
| `Sessions` | 2 processes, one user, cookies of 2 s, a clock of quarter seconds, 1 restart | decisions are timely, sessions never outlive their max-age and are cut by less than a second, a fixed key survives restarts, deactivation shuts out |
| `UserAdmin` | 2 consoles, 4 accounts, 11 requests, the script | unique names, authority, patches that change only the columns they name, what a lock-out means |
| `ModelConfig` | 4 versions of the file, 3 edits, 2 calls | admission and calls follow the file |
| `ModelKey` | as `ModelConfig` | *violated:* the key named in `api_key_env` does not reach the provider |
| `History` | 2 browsers, 3 runs, 2 requests in flight, a list of 2 | deletes and details hit what was seen, counts add up |
| `Console` | 2 cards, 2 choices, 2 openings of the section, 3 calls | cards tell the truth and come free |
| `App` | 2 server processes, the script, 2 requests of 5 kinds, 2 versions of the file, 2 starts, 2 edits | answers are traceable; the access log is true and harmless; recommendations are booked once; the schema is there; the migration's race ends; menus lead to routes |
| `RequestId` | one process, one request | *violated:* an answer of status 500 has no `X-Request-ID` |

**Bounds.** The real limits (5 workers, 2 retries, 20 pages, 200 rows of history)
are constants. They are scaled so that each can be exceeded: more pages than
workers, more failures than attempts, a PDF longer than the limit, more rows than
the list shows. Two concurrent actors are enough for the races here, each of
which is between one reader and one writer; the proofs cover any number of
requests. `MaxEdits`, `MaxCalls`, `MaxRuns`, `MaxRequests`, `MaxSent`, `MaxLoads`,
`Horizon` and `MaxStarts` only cap counters of the environment. In `App` two starts
suffice: they are what the race for the migration needs, and a start that dies half
way leaves a database of a kind that the initial states contain. One table there
stands for the four that were in the first release. Deadlock is not reported where
a finite set of requests or a cap lets the model come to rest. Only `App` uses
symmetry, of its two processes and of its two requests, and checks only invariants.

**Fairness.** `OcrService`: the request's thread and its pool threads are run by
the operating system, a model call returns or hits its 120 s timeout, a write
succeeds or raises. Which outcome a call has is never assumed, nor is anything of
arrivals, crashes or refusals; `EveryRequestEnds` therefore speaks of requests
that have been accepted. `Console`: a `fetch` settles. `Sessions`: a request that
has arrived is worked on. The other modules have safety properties only; what
`Startup` promises about a repeated start is an invariant, since nothing in the code
starts a process again.

## 4. Proofs

`OcrServiceProofs` proves, for any set of requests, any uploads, any number of
workers, retries and pages of a PDF, under the named assumptions of `OcrService`
and `OcrUploads` (the limits are natural numbers, a request has an upload):

* `TypeCorrect`: `Spec => []TypeOK`;
* `RowsAreOnePerFile`: `Spec => []OneRowPerFile`;
* `BillsAreRight`: `Spec => []BilledAgreesWithPages`.

`BilledAgreesWithPages` is not inductive: it says that rows agree with the pages
now, and nothing in it keeps a page from changing later. The inductive invariant is

    IInv == TypeOK /\ StageOK /\ RowsStand /\ OneRowPerFile

`StageOK` says that a request whose `next` has moved on, or that is recording, has
settled all its pages; since only `Claim` and the ends of calls change a page, and
they need the stage `pool`, no page of it changes again. `RowsStand` says that
every row is what `LedgerRow` would give today. The proof has one step for each
action. The lemmas about pages (`PagesFacts`, `RowFacts` and others) give the
finiteness and the types that cardinalities need. `IInv` is proved inductive, the
two invariants follow from it, and the temporal steps are propositional.

`AppProofs` proves, for any number of processes, scripts, starts, edits and
requests, any schema with `test_runs` in it and any configuration files, under the
assumptions of `Startup` and `App`:

* `TypeCorrect`: `Spec => []TypeOK`;
* `SchemaIsThere` and `RaceEnds`: `ServingFindsItsSchema`, `MigrationRaceEnds`;
* `Traceability`: `AnswersAreTraceable`;
* `AccessLogIsTrue` and `LoggingIsHarmless`: `AccessLogAgreesWithAnswers`,
  `LoggingKillsNoRequest`;
* `Booking`: `BookedOnce`;
* `MenuIsTrue`: `MenuLeadsToRoutes`.

For all but the last the inductive invariant is

    IInv == TypeOK /\ UpToDate /\ OnItsWay

`UpToDate` says, for a process at statement `next`, that the tables before it are
there, and that whoever is past the migration finds the column. Tables are never
dropped, so the steps of others keep it. It also remembers whether the column was
there when a start began: such a start is never on its way to `Alter`. `OnItsWay`
says for each stage of a request what its two contexts, its answer, its line, its row
and its booking are. Each of the five request properties follows from it without a
further step, and it is kept because a step of one request leaves all of another's
alone: rows and lines are told apart by the request they are about. Of the sequence of
rows it says that one of a request is there only once the request is past `Log`, and
only once, which is what a second insert would break.

`MenuLeadsToRoutes` compares what a process mounted with what an answer reported,
and both were read from versions of the file that are gone. An auxiliary variable
would remember them; since no action has to look at it, `Consistent` quantifies over
it instead: there is a history of the file, as long as there were edits, that ends in
the file of now and has at each noted place what the process or the answer then saw.
`Edit` extends the history, every other step keeps it.

`OcrServiceProofs` goes on from `IInv`:

* `WorkNeedsAuthority`: `WorkIsAuthorised`. `Admitted` says that a request before its
  admission has touched no page, and that any other has passed its checks; `Status`
  looks only at `call`, which never changes.
* `AttemptsAreRight`: `AttemptsAccountedFor`. `Accounted` adds to it that a page being
  extracted in the automatic mode was classified in the same attempt, which is what
  lets the two calls be billed together when the second returns.
* `NothingEverRevised`: `NothingIsRevised`, from `StageOK`: a settled page is never
  claimed again, no action leaves an end, and a run appears only as its own request
  goes on to answer, so that a deleted one never comes back.

It then proves `ContractImplemented`, that is
`Spec => ContractHolds`, by `InitialStatesMap` and `StepsMap` under the invariant

    RInv == IInv /\ Admitted /\ Counted

The mapping reads a request's bill out of the one ledger that all requests share.
`Counted` says how many rows of it are the request's, so that with
`OneRowPerFile` and `RowsStand` the lemma `BillIs` can say what the bill is without
the ledger: an entry for each file before `next`. Then a settled page is the
contract's judgement, `AppendRow` its billing, the ends its ends, and everything
else (claims, retries, the pool's end, the stored run) a stutter.

Last it proves `RunsAreTrue` (`RunsAreBacked`) and `RepliesAreTrue`
(`ReplyAgreesWithLedger`). `Told` says that a reply and a run are what `Success` and
`RunRow` would give today, and that their request has passed all its files: such a
request never moves a page or a row again (`DoneStands`). By `RowsOfDone` its rows
are then one for each file. What they add up to is `LedgerAddsUp`. The sum is a
recursion over subsets of the rows; the library's induction rules take a predicate as a
parameter, so `Counting` states induction about a set of numbers instead, and proves
it from the well-foundedness of the naturals. With it `SumExists` shows that the
recursion has a solution and `SumIsCount` that summing the cardinalities of disjoint
sets counts their union, which for the pages of the files of a request is all of them.

`OcrPagesProofs` proves, for any list of uploads of at most `MaxFiles`, any limit on
the pages of a PDF and every outcome of every page: `ExpansionIsRight`
(`ExpandMatchesService`), `GroupingIsFaithful` (`GroupingLosesNothing`), `RowsAreTold`
(`RowsMatchPayload`), `SumsAreRight` (`RowsAddUp`) and `ReasonsAreRight`
(`ErrorsAddUp`). It assumes that the number of files, of tokens and of pages are
naturals (`BoundsAssumption`, `MaxPagesAssumption`), that uploads are of the kinds
listed (`RawUploadsAssumption`), and that a call which succeeded names its provider
(`ProvidersAssumption`, as both branches of `call` do).

Its `IInv` only says that each variable holds what the code computes from those before
it, for as far as the request has come; what the properties say of that is the work.

* The folds are recursions over subsets and `FlattenSeq` is one over the length of a
  list. `Counting` is induction over a set of numbers, `Thinning` over a set
  of finite sets; by them `TotalIs` gives a sum its equation, and from it come the facts
  used later: a sum over disjoint parts is the sum of the parts' sums, a sum of ones and
  zeros counts. `LaidOut` says that a list is made of others laid end to end, at given
  offsets; `FlattenLaysOut` and `LayoutUnique` say that `FlattenSeq` is that list and no
  other is.
* `Lay` is the consequence for the expansion: there are offsets such that the pages of
  the k-th file are the places between two of them, in order of their index. Since
  `pool.map` keeps the order, so are its results, and sorting them changes nothing.
* The blocks are disjoint and cover all places. Hence the rows' tokens and quantities
  add up to those of `meta.usage`, and the rollup, which regroups the rows by provider, to
  the same.

`ConsoleProofs` proves, for any cards, choices, openings and calls, where no choice
is the mark of an empty result: `QuietCardsAreTruthful` (`QuietCardTellsLastRun`),
`CardIsLeft` (`AlwaysACard`) and `ResultsFit` (`ResultFitsForm`).
`QuietCardTellsLastRun` says nothing of a card that waits; its invariant adds that a
card which waits, and whose runs have not overlapped, is locked, shows nothing and waits
for one call, made for the choice its form still holds. That one call is counted
over all calls of the card, so that the answer that unlocks it is the last. Removed
cards are included, as their calls go on.

`SessionsProofs` proves, for any number of workers and starts, any max-age and any
clock: `DecisionsAreRight` (`DecisionsAreTimely`), `SessionsAreKept`
(`FixedKeyKeepsSessions`) and `LifetimeIsExact` (`SessionLifetime`). Its invariant says
that a request has noted what the row calls for now, that login decides by a row it
noted when it read it (so nothing is needed of the row that is there now), and that
a cookie's `exp` is the second of its issue and the max-age, so that what is cut off is
the part of a second that the cookie was issued after.

`UserAdminProofs` proves, for any consoles, accounts and requests: `TypeCorrect`,
`NamesAreUnique` (`OneAccountPerName`), `OnlyAdmins` (`OnlyAdminsChangeUsers`),
`UpdatesAreNarrow` (`UpdatesChangeOnlyWhatTheyName`) and `LockoutLasts`
(`LockoutEndsOnlyBySeeding`). What a handler has looked up may be out of date; its
invariant `HandlerOK` keeps what is not: the asker was an administrator, the role
asked for is one of the table's, the account is still there, since none is ever
removed. It starts from `InitialNamesDiffer`: the column is UNIQUE, so the table
begins without a name twice.

`HistoryProofs` proves, for any browsers, runs and requests in flight: `CountsAddUp`
(`DeletesAreCountedOnce`), `DeletesHit` (`DeletesHitWhatWasSeen`) and `DetailsHit`
(`DetailsAreOfRowsClicked`). `AUTOINCREMENT` never gives an id twice, so the invariant
can say that an id names the same run for ever in the table, in every list on a screen
and in every message, however old.

`ModelConfigProofs` proves, for any contents of the file and any edits and calls:
`AdmissionIsCurrent` (`AdmissionFollowsFile`) and `CallsAreCurrent`
(`CallsFollowFile`). What each step reads is the file of that moment, which `Watched`
says belongs to those the request has seen.

Only model-checked is what the provers cannot reach, liveness under fairness:
`EveryRequestEnds`, `CardsComeFree` and `DeactivationShutsOut`. Every invariant and
every action property of a passing run is a theorem.

## 5. Where code and documentation disagree

1. `_MAX_WORKERS` is described as the limit of concurrent model calls that
   protects the provider (`service.py:26`), but a pool is made for each request
   (`OcrGlobalCap`).
2. `rollup` counts rows as requests, and a request writes a row for each file
   (`OcrRollup`).
3. `api_key_env` is removed from an entry by `get_model_config` before the gateway
   looks for it, so a key in a variable of another name than litellm's own is never
   used (`ModelKey`).
4. Every answer is said to have `X-Request-ID`, with the context reaching into the
   exception handlers (`monitoring.py:3`), but the handler of `Exception` answers
   outside the middleware that adds it, after the context was reset (`RequestId`).

Seen while modelling, without a run of their own:

* "Run all" runs a card that is running already, and the first of its two answers
  unlocks it.
* `logging_setup.py:4` has the request's id in every line, so that `X-Request-ID` finds
  them all. What the threads of the OCR pool log of a failing page (`service.py:86`,
  called from line 103) has "-", since they start with an empty context, and so has the
  line of an unhandled exception. `AnswersAreTraceable` says exactly which lines have
  the id and which have none.

## 6. Not modelled

* **Contents:** images, prompts, schemas, extracted fields, JSON parsing of answers,
  wording. They reach the modelled parts only as success or exception.
* **SQLite:** a statement with its commit is one step that happens or raises. Waiting
  for locks is the raise at its end.
* **Passwords and signatures:** values that only their owner can make.
* **The application's edges:** HTML pages, the OpenAPI schema, indexes of the
  database, the reads of `access_log`. They change nothing, and nothing modelled
  depends on them.
* **Prompt store:** reads of files that the service never writes; a missing file is
  the exception before a call.
* **Query script:** `db_query.py` runs the statement it is given on the command line.
* **Console, other sections:** the tables of usage, logs, users and models are drawn
  from one answer each. The one hazard, two filters in flight, is a race without
  consequence beyond the table shown, and is listed without a property.

## 7. Plan

Done, in this order: the OCR service with its contract and first proofs; the page
loops; sessions; user administration; console, history, configuration; start-up and
the application with their proofs; the remaining safety of the OCR service and its
refinement; the proofs of sessions, users, history and configuration; those of the
console, of the menu, and of what replies and stored runs say; those of the page loops.

Next, in order of importance:

1. *Prove.* That every request can still end, as a safety property: in each state of
   `OcrService` some step of a request in progress is possible, which with the
   fairness of its threads is what `EveryRequestEnds` rests on.
2. *Model.* Out-of-order answers of the usage screen. Connecting `History` with
   `OcrService`'s `RecordRun`.
3. *Bounds.* Three requests in `OcrPair` with a smaller choice of calls; two users in
   `Sessions`.

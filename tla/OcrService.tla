----------------------------- MODULE OcrService -----------------------------
(***************************************************************************)
(* The OCR service: POST /ocr and POST /ocr/test from admission to reply.  *)
(*                                                                         *)
(* Every request runs in a server thread of its own.  It is checked        *)
(* (Refuse / Accept), its uploads are expanded into pages, the pages are   *)
(* worked off by a thread pool private to the request (Claim,              *)
(* ClassifyReturns, ExtractReturns, CallRaises), and when the pool has     *)
(* closed the request's own thread appends one ledger row per file, each   *)
(* in a transaction of its own (AppendRow).  A console test also stores    *)
(* its result in the history (RecordRun), from which the console may       *)
(* delete it again (DeleteRuns).  Then the client is answered.             *)
(* Appending a row and recording a run may fail, which ends the request    *)
(* with a 500; the process may die at any moment, which ends every request *)
(* in progress and leaves the database as it is.                           *)
(*                                                                         *)
(* Abstracted: the bytes of images and the extracted fields; tokens and    *)
(* milliseconds, for which the set of model calls they come from stands;   *)
(* provider and model names (OcrPages has them).                           *)
(***************************************************************************)
EXTENDS OcrUploads, Integers, FiniteSets, FiniteSetsExt

CONSTANTS
    Requests,       \* HTTP requests that may arrive
    Calls,          \* what a request may ask for (see CallRecords)
    Models,         \* model aliases of config/app.config.json
    DocTypes,       \* keys of extract.DOC_TYPES
    TestTenant,     \* ledger.TEST_TENANT
    MaxWorkers,     \* service._MAX_WORKERS
    Retry           \* service._RETRY

AnyType == "auto"      \* the doc_type that asks for classification

CallRecords ==
    [ route    : {"api", "test"},
      access   : {"anonymous", "denied", "granted"},  \* outcome of the Depends
      tenant   : STRING,
      grants   : SUBSET STRING,                      \* capabilities.models
      model    : STRING,
      doc_type : STRING,
      uploads  : Seq(Uploads) ]

ASSUME LimitsAssumption ==
    /\ MaxWorkers \in Nat \ {0}
    /\ Retry \in Nat
    /\ TestTenant \in STRING

\* File(...) makes FastAPI demand at least one upload.
ASSUME CallsAssumption == Calls \subseteq {c \in CallRecords : Len(c.uploads) > 0}

-----------------------------------------------------------------------------
VARIABLES
    call,       \* call[r]: what request r asks for, fixed for ever
    stage,      \* stage[r]: how far the request's own thread is
    job,        \* job[r][p]: what has become of page p
    next,       \* next[r]: the file _record writes next
    ledger,     \* table usage_ledger, a sequence of rows
    runs,       \* table test_runs, a set of rows
    reply,      \* reply[r]: what the client has received
    returned    \* auxiliary: the model calls that came back with a result

vars == <<call, stage, job, next, ledger, runs, reply, returned>>

Stages == {"idle", "pool", "recording", "replying",
           "refused", "answered", "error", "lost"}
Ended == {"refused", "answered", "error", "lost"}
InProgress == {"pool", "recording", "replying"}

CallKinds == {"classify", "extract"}
NoReply == [status |-> 0]

\* What _expand makes of the request's uploads.
Pages(r)        == PagesOf(call[r].uploads)
Files(r)        == 1..Len(call[r].uploads)
FilePages(r, f) == {p \in Pages(r) : p[1] = f}
Upload(r, p)    == call[r].uploads[p[1]]

-----------------------------------------------------------------------------
(***************************************************************************)
(* Admission: the checks in the order the code makes them.                 *)
(***************************************************************************)
Valid(c) == c.model \in Models /\ c.doc_type \in DocTypes \union {AnyType}

\* Mistake: the test route's checks are used for both routes.
StatusSansCheckModel(c) ==
    IF c.access = "anonymous" THEN 401
    ELSE IF c.access = "denied" THEN 403
    ELSE IF ~Valid(c) THEN 400
    ELSE 200

Status(c) ==
    IF c.access = "anonymous" THEN 401
    ELSE IF c.access = "denied" THEN 403
    ELSE IF ~Valid(c) THEN 400
    ELSE IF c.route = "api" /\ c.model \notin c.grants THEN 403
    ELSE 200

Tenant(c) == IF c.route = "test" THEN TestTenant ELSE c.tenant

NewJob == [at |-> "queued", attempt |-> 0, usage |-> {}]

Refuse(r) ==
    /\ stage[r] = "idle"
    /\ Status(call[r]) # 200
    /\ stage' = [stage EXCEPT ![r] = "refused"]
    /\ reply' = [reply EXCEPT ![r] = [status |-> Status(call[r])]]
    /\ UNCHANGED <<call, job, next, ledger, runs, returned>>

Accept(r) ==
    /\ stage[r] = "idle"
    /\ Status(call[r]) = 200
    /\ stage' = [stage EXCEPT ![r] = "pool"]
    /\ UNCHANGED <<call, job, next, ledger, runs, reply, returned>>

-----------------------------------------------------------------------------
(***************************************************************************)
(* The pool: _run_pages and, in each of its threads, _run_page with        *)
(* extract.extract_one and model_gateway.call.                             *)
(***************************************************************************)
Calling(r) == {p \in Pages(r) : job[r][p].at \in CallKinds}
Settled(r) == {p \in Pages(r) : job[r][p].at \in {"ok", "failed"}}

Workers(r) == LET n == Cardinality(Pages(r)) IN
              IF MaxWorkers < n THEN MaxWorkers ELSE n

\* extract_one classifies first exactly when doc_type is 'auto'.
FirstCall(c) == IF c.doc_type = AnyType THEN "classify" ELSE "extract"

\* A free thread takes the first page still waiting.
Claim(r, p) ==
    /\ stage[r] = "pool"
    /\ job[r][p].at = "queued"
    /\ \A q \in Pages(r) : Before(q, p) => job[r][q].at # "queued"
    /\ Cardinality(Calling(r)) < Workers(r)
    /\ job' = [job EXCEPT ![r][p] =
                 IF LoadError(Upload(r, p))
                 THEN [at |-> "failed", attempt |-> 0, usage |-> {}]
                 ELSE [at |-> FirstCall(call[r]), attempt |-> 1, usage |-> {}]]
    /\ UNCHANGED <<call, stage, next, ledger, runs, reply, returned>>

\* The classification names a document type, or it does not: '기타', an
\* unknown label or text that is no JSON.  Then nothing is extracted and the
\* page counts as a success without a document type.
ClassifyReturns(r, p, known) ==
    /\ stage[r] = "pool"
    /\ job[r][p].at = "classify"
    /\ job' = [job EXCEPT ![r][p] =
                 [@ EXCEPT !.at = IF known THEN "extract" ELSE "ok",
                           !.usage = IF known THEN {} ELSE {"classify"}]]
    /\ returned' = [returned EXCEPT ![r] =
                      @ \union {<<p, job[r][p].attempt, "classify">>}]
    /\ UNCHANGED <<call, stage, next, ledger, runs, reply>>

\* The extraction comes back; content that is no JSON is kept as it is.
ExtractReturns(r, p) ==
    /\ stage[r] = "pool"
    /\ job[r][p].at = "extract"
    /\ job' = [job EXCEPT ![r][p] =
                 [@ EXCEPT !.at = "ok", !.usage = {FirstCall(call[r]), "extract"}]]
    /\ returned' = [returned EXCEPT ![r] =
                      @ \union {<<p, job[r][p].attempt, "extract">>}]
    /\ UNCHANGED <<call, stage, next, ledger, runs, reply>>

\* Mistakes: one attempt too few, one too many, or no count at all.
RetryUpTo(r, p, last, step) ==
    /\ stage[r] = "pool"
    /\ job[r][p].at \in CallKinds
    /\ job' = [job EXCEPT ![r][p] =
                 IF job[r][p].attempt <= last
                 THEN [at      |-> FirstCall(call[r]),
                       attempt |-> job[r][p].attempt + step,
                       usage   |-> {}]
                 ELSE [@ EXCEPT !.at = "failed"]]
    /\ UNCHANGED <<call, stage, next, ledger, runs, reply, returned>>

CallRaisesOneTooFew(r, p)  == RetryUpTo(r, p, Retry - 1, 1)
CallRaisesOneTooMany(r, p) == RetryUpTo(r, p, Retry + 1, 1)
CallRaisesUncounted(r, p)  == RetryUpTo(r, p, Retry, 0)

\* The call raises: provider error, timeout, a model that left the config.
\* The whole attempt is made again, classification included, until Retry
\* further attempts have been used up.
CallRaises(r, p) ==
    /\ stage[r] = "pool"
    /\ job[r][p].at \in CallKinds
    /\ job' = [job EXCEPT ![r][p] =
                 IF job[r][p].attempt <= Retry
                 THEN [at      |-> FirstCall(call[r]),
                       attempt |-> job[r][p].attempt + 1,
                       usage   |-> {}]
                 ELSE [@ EXCEPT !.at = "failed"]]
    /\ UNCHANGED <<call, stage, next, ledger, runs, reply, returned>>

\* Mistake: the pool is left without waiting for its threads.
PoolClosesEarly(r) ==
    /\ stage[r] = "pool"
    /\ stage' = [stage EXCEPT ![r] = "recording"]
    /\ UNCHANGED <<call, job, next, ledger, runs, reply, returned>>

\* Every future has been collected and the pool is shut down.
PoolCloses(r) ==
    /\ stage[r] = "pool"
    /\ Settled(r) = Pages(r)
    /\ stage' = [stage EXCEPT ![r] = "recording"]
    /\ UNCHANGED <<call, job, next, ledger, runs, reply, returned>>

-----------------------------------------------------------------------------
(***************************************************************************)
(* Recording: service._record over ledger.append, then for a console test  *)
(* test_runs.record.                                                       *)
(***************************************************************************)
OkPages(r)      == {p \in Pages(r) : job[r][p].at = "ok"}
OkIn(r, f)      == {p \in FilePages(r, f) : job[r][p].at = "ok"}
UsageIn(r, f)   == {x \in FilePages(r, f) \X CallKinds : x[2] \in job[r][x[1]].usage}

\* Mistake: every page is billed, the failed ones too.
LedgerRowAllPages(r, f) ==
    [ req      |-> r,
      file     |-> f,
      tenant   |-> Tenant(call[r]),
      quantity |-> Cardinality(FilePages(r, f)),
      pages    |-> Cardinality(FilePages(r, f)),
      ok       |-> \A p \in FilePages(r, f) : job[r][p].at = "ok",
      tokens   |-> Cardinality(UsageIn(r, f)) ]

\* req is auxiliary: the table does not say which request a row is of.
LedgerRow(r, f) ==
    [ req      |-> r,
      file     |-> f,
      tenant   |-> Tenant(call[r]),
      quantity |-> Cardinality(OkIn(r, f)),
      pages    |-> Cardinality(FilePages(r, f)),
      ok       |-> FilePages(r, f) # {} /\ \A p \in FilePages(r, f) : job[r][p].at = "ok",
      tokens   |-> Cardinality(UsageIn(r, f)) ]

RunRow(r) ==
    [ req        |-> r,
      file_count |-> Len(call[r].uploads),
      page_count |-> Cardinality(Pages(r)),
      ok_count   |-> Cardinality(OkPages(r)),
      fail_count |-> Cardinality(Pages(r)) - Cardinality(OkPages(r)) ]

\* Mistake: any() in place of all().
SuccessIfAny(r) ==
    [ status   |-> 200,
      files    |-> [f \in Files(r) |->
                      [page_count |-> Cardinality(FilePages(r, f)),
                       ok_pages   |-> OkIn(r, f),
                       ok         |-> OkIn(r, f) # {}]],
      ok_count   |-> Cardinality(OkPages(r)),
      fail_count |-> Cardinality(Pages(r)) - Cardinality(OkPages(r)) ]

\* _group_by_file and the counters of _aggregate_usage.
Success(r) ==
    [ status   |-> 200,
      files    |-> [f \in Files(r) |->
                      [page_count |-> Cardinality(FilePages(r, f)),
                       ok_pages   |-> OkIn(r, f),
                       ok         |-> FilePages(r, f) # {} /\ OkIn(r, f) = FilePages(r, f)]],
      ok_count   |-> Cardinality(OkPages(r)),
      fail_count |-> Cardinality(Pages(r)) - Cardinality(OkPages(r)) ]

Recorded(r) == stage[r] = "recording" /\ next[r] > Len(call[r].uploads)

AppendRow(r) ==
    /\ stage[r] = "recording"
    /\ next[r] \in Files(r)
    /\ ledger' = Append(ledger, LedgerRow(r, next[r]))
    /\ next' = [next EXCEPT ![r] = @ + 1]
    /\ UNCHANGED <<call, stage, job, runs, reply, returned>>

\* Mistake: the run is stored before the ledger has been written.
RecordRunFirst(r) ==
    /\ stage[r] = "recording"
    /\ call[r].route = "test"
    /\ runs' = runs \union {RunRow(r)}
    /\ stage' = [stage EXCEPT ![r] = "replying"]
    /\ UNCHANGED <<call, job, next, ledger, reply, returned>>

RecordRun(r) ==
    /\ Recorded(r)
    /\ call[r].route = "test"
    /\ runs' = runs \union {RunRow(r)}
    /\ stage' = [stage EXCEPT ![r] = "replying"]
    /\ UNCHANGED <<call, job, next, ledger, reply, returned>>

\* Mistakes: a failed write is swallowed and the loop goes on, or the rows
\* already written are taken back.
WriteSwallowed(r) ==
    /\ stage[r] = "recording"
    /\ next[r] \in Files(r)
    /\ next' = [next EXCEPT ![r] = @ + 1]
    /\ UNCHANGED <<call, stage, job, ledger, runs, reply, returned>>

WriteTakenBack(r) ==
    /\ stage[r] = "recording"
    /\ next[r] \in Files(r)
    /\ stage' = [stage EXCEPT ![r] = "error"]
    /\ reply' = [reply EXCEPT ![r] = [status |-> 500]]
    /\ ledger' = SelectSeq(ledger, LAMBDA row : row.req # r)
    /\ UNCHANGED <<call, job, next, runs, returned>>

\* An INSERT or its commit raises (database locked, disk full).  Rows already
\* committed stay; the client gets a 500.
WriteFails(r) ==
    /\ stage[r] = "recording"
    /\ next[r] \in Files(r) \/ call[r].route = "test"
    /\ stage' = [stage EXCEPT ![r] = "error"]
    /\ reply' = [reply EXCEPT ![r] = [status |-> 500]]
    /\ UNCHANGED <<call, job, next, ledger, runs, returned>>

Respond(r) ==
    /\ \/ Recorded(r) /\ call[r].route = "api"
       \/ stage[r] = "replying"
    /\ stage' = [stage EXCEPT ![r] = "answered"]
    /\ reply' = [reply EXCEPT ![r] = Success(r)]
    /\ UNCHANGED <<call, job, next, ledger, runs, returned>>

\* The process dies and is started again: threads and pools are gone.
Crash ==
    /\ \E r \in Requests : stage[r] \in InProgress
    /\ stage' = [r \in Requests |-> IF stage[r] \in InProgress THEN "lost" ELSE stage[r]]
    /\ UNCHANGED <<call, job, next, ledger, runs, reply, returned>>

\* POST /ocr/test/history/delete: one statement removes any runs of the history,
\* while other requests go on.  The ledger keeps what they cost.
DeleteRuns ==
    /\ \E gone \in SUBSET runs : gone # {} /\ runs' = runs \ gone
    /\ UNCHANGED <<call, stage, job, next, ledger, reply, returned>>

-----------------------------------------------------------------------------
Init ==
    /\ call \in [Requests -> Calls]
    /\ stage = [r \in Requests |-> "idle"]
    /\ job = [r \in Requests |-> [p \in Pages(r) |-> NewJob]]
    /\ next = [r \in Requests |-> 1]
    /\ ledger = <<>>
    /\ runs = {}
    /\ reply = [r \in Requests |-> NoReply]
    /\ returned = [r \in Requests |-> {}]

\* A step of the request's own thread, and one of a thread of its pool.
RequestStep(r) == PoolCloses(r) \/ AppendRow(r) \/ RecordRun(r) \/ WriteFails(r) \/ Respond(r)
PageStep(r, p) ==
    \/ Claim(r, p)
    \/ \E known \in BOOLEAN : ClassifyReturns(r, p, known)
    \/ ExtractReturns(r, p)
    \/ CallRaises(r, p)

Next ==
    \/ \E r \in Requests : Refuse(r) \/ Accept(r) \/ RequestStep(r)
    \/ \E r \in Requests : \E p \in Pages(r) : PageStep(r, p)
    \/ DeleteRuns
    \/ Crash

Spec == Init /\ [][Next]_vars

\* The operating system runs every thread, every model call returns or times
\* out, every write of the database succeeds or raises.  No fairness on
\* arrivals or crashes.
Fairness ==
    \A r \in Requests :
        /\ WF_vars(RequestStep(r))
        /\ WF_vars(\E p \in Pages(r) : PageStep(r, p))

FairSpec == Spec /\ Fairness
-----------------------------------------------------------------------------
(***************************************************************************)
(* Invariants.                                                             *)
(***************************************************************************)

\* The job of a page: where it is, which attempt it is on, and the calls
\* whose tokens its result will carry.
JobRecords ==
    [at : {"queued", "ok", "failed"} \union CallKinds,
     attempt : 0..(Retry + 1), usage : SUBSET CallKinds]

LedgerRows ==
    [req : Requests, file : Nat \ {0}, tenant : STRING, quantity : Nat,
     pages : Nat, ok : BOOLEAN, tokens : Nat]

RunRows == [req : Requests, file_count : Nat, page_count : Nat,
            ok_count : Nat, fail_count : Nat]

\* Every variable has the shape the code gives it.
TypeOK ==
    /\ call \in [Requests -> Calls]
    /\ stage \in [Requests -> Stages]
    /\ DOMAIN job = Requests
    /\ \A r \in Requests : job[r] \in [Pages(r) -> JobRecords]
    /\ next \in [Requests -> Nat \ {0}]
    /\ ledger \in Seq(LedgerRows)
    /\ runs \subseteq RunRows
    /\ DOMAIN reply = Requests
    /\ DOMAIN returned = Requests

RowsOf(r) == {i \in DOMAIN ledger : ledger[i].req = r}

\* Whatever fails and whenever the process dies, the rows of one request are
\* those of its first files, one each, in upload order: no file is skipped
\* and none is billed twice (service._record's loop over uploads).
OneRowPerFile ==
    \A r \in Requests :
        /\ \A i \in RowsOf(r) : ledger[i].file \in Files(r) /\ ledger[i].file < next[r]
        /\ \A i, j \in RowsOf(r) : i < j => ledger[i].file < ledger[j].file
        /\ \A f \in Files(r) : f < next[r] => \E i \in RowsOf(r) : ledger[i].file = f

\* A row bills exactly the pages of its file that succeeded, calls the file ok
\* only when every page did, and is written when no page of the request can
\* change any more: the pool never races _record ("실패는 청구 안 함").
BilledAgreesWithPages ==
    \A i \in DOMAIN ledger :
        LET row == ledger[i] IN
        /\ Settled(row.req) = Pages(row.req)
        /\ row.quantity = Cardinality(OkIn(row.req, row.file))
        /\ row.ok <=> row.quantity = row.pages

\* A client that got a 200 finds in the ledger what it was told: a row for
\* each file of the payload with the same verdict and page count, and the
\* quantities add up to meta.usage.ok_count.
ReplyAgreesWithLedger ==
    \A r \in Requests : stage[r] = "answered" =>
        /\ {ledger[i].file : i \in RowsOf(r)} = DOMAIN reply[r].files
        /\ \A i \in RowsOf(r) :
              LET told == reply[r].files[ledger[i].file] IN
              /\ told.ok = ledger[i].ok
              /\ told.page_count = ledger[i].pages
              /\ Cardinality(told.ok_pages) = ledger[i].quantity
        /\ reply[r].ok_count = MapThenSumSet(LAMBDA i : ledger[i].quantity, RowsOf(r))
        /\ reply[r].ok_count + reply[r].fail_count = Cardinality(Pages(r))

\* A stored test run stands for a finished one: its rows are all in the ledger,
\* booked on the test tenant, and its counts are theirs.  A request that ended
\* with a 500 has no run, however late the failure came.
RunsAreBacked ==
    \A x \in runs :
        /\ stage[x.req] \in {"replying", "answered", "lost"}
        /\ \A f \in Files(x.req) : \E i \in RowsOf(x.req) :
              ledger[i].file = f /\ ledger[i].tenant = TestTenant
        /\ x.ok_count = MapThenSumSet(LAMBDA i : ledger[i].quantity, RowsOf(x.req))
        /\ x.page_count = MapThenSumSet(LAMBDA i : ledger[i].pages, RowsOf(x.req))

\* A page is given up only after the last attempt, a page that could not be
\* rendered costs no model call, and the tokens of a result are those of calls
\* that came back in the very attempt that succeeded, a classification among
\* them exactly when one was asked for.
AttemptsAccountedFor ==
    \A r \in Requests : \A p \in Pages(r) :
        LET j == job[r][p]
            spent == {x \in returned[r] : x[1] = p}
        IN
        /\ LoadError(Upload(r, p)) => spent = {} /\ j.at \in {"queued", "failed"}
        /\ j.at = "failed" /\ ~LoadError(Upload(r, p)) => j.attempt = Retry + 1
        /\ j.at # "ok" => j.usage = {}
        /\ j.at = "ok" =>
              /\ FirstCall(call[r]) \in j.usage
              /\ \A kind \in j.usage : <<p, j.attempt, kind>> \in spent

\* Models are called and rows written only for a caller who passed every check
\* of its route: authenticated, permitted, asking for a model and a document
\* type that exist and, with an API key, for a model that the key grants.
WorkIsAuthorised ==
    \A r \in Requests : (returned[r] # {} \/ RowsOf(r) # {}) =>
        /\ call[r].access = "granted"
        /\ call[r].model \in Models
        /\ call[r].doc_type \in DocTypes \union {AnyType}
        /\ call[r].route = "api" => call[r].model \in call[r].grants

-----------------------------------------------------------------------------
(***************************************************************************)
(* What a step may never do, and what must happen.                         *)
(***************************************************************************)

\* A committed ledger row is never changed or removed - not by another request,
\* not by a crash, not by deleting the test run it was written for - and a test
\* run enters the history only with the step that takes its own request from
\* recording to replying, so a deleted one does not come back.  Pages move only
\* while their request is in its pool, and neither a page's result nor the end of
\* a request is ever revised.
NothingIsRevised ==
    [][ /\ Len(ledger') >= Len(ledger)
        /\ \A i \in DOMAIN ledger : ledger'[i] = ledger[i]
        /\ \A x \in runs' \ runs : stage[x.req] = "recording" /\ stage'[x.req] = "replying"
        /\ \A r \in Requests :
              /\ job[r] # job'[r] => stage[r] = "pool"
              /\ \A p \in Settled(r) : job'[r][p] = job[r][p]
              /\ stage[r] \in Ended => stage'[r] = stage[r] /\ reply'[r] = reply[r] ]_vars

\* Every request that was let in comes to an end: no page is retried for ever,
\* no thread of the pool is waited for in vain.
EveryRequestEnds ==
    \A r \in Requests : (stage[r] \in InProgress) ~> (stage[r] \in Ended)

(***************************************************************************)
(* The service implements OcrContract.  A page is judged when its thread   *)
(* is done with it; the bill is what the ledger holds of the request.      *)
(***************************************************************************)
Verdict ==
    [r \in Requests |-> [p \in Pages(r) |->
        IF job[r][p].at \in {"ok", "failed"} THEN job[r][p].at ELSE "pending"]]

RowOf(r, f) == CHOOSE i \in RowsOf(r) : ledger[i].file = f

Bill ==
    [r \in Requests |-> [f \in 1..Cardinality(RowsOf(r)) |->
        [quantity |-> ledger[RowOf(r, f)].quantity, ok |-> ledger[RowOf(r, f)].ok]]]

OutcomeOf(s) ==
    CASE s \in {"idle"} \union InProgress -> "open"
      [] s = "refused"  -> "refused"
      [] s = "answered" -> "answered"
      [] s \in {"error", "lost"} -> "given_up"

Outcome == [r \in Requests |-> OutcomeOf(stage[r])]

Contract == INSTANCE OcrContract WITH
    verdict <- Verdict, bill <- Bill, outcome <- Outcome

\* Retries, threads, failed writes and crashes are invisible to a client other
\* than as the contract says.
ContractHolds == Contract!Spec

(***************************************************************************)
(* What the comment at service._MAX_WORKERS says: never more model calls   *)
(* at a time than that, to stay below the provider's rate limit.           *)
(***************************************************************************)
GlobalCallCap ==
    Cardinality(UNION {{r} \X Calling(r) : r \in Requests}) <= MaxWorkers
=============================================================================

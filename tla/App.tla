-------------------------------- MODULE App --------------------------------
(***************************************************************************)
(* The application app.py puts together: a request on its way through the  *)
(* middlewares, the error handlers and a route, in any of several server   *)
(* processes, while processes start (Startup) and die and the              *)
(* configuration file is edited.                                           *)
(*                                                                         *)
(*     ServerErrorMiddleware      the handler of Exception (Unhandled)     *)
(*       RequestContextMiddleware sets, adds to the answer, resets the id  *)
(*         AccessLogMiddleware    log line and row of access_log (Log)     *)
(*           ExceptionMiddleware  the other three handlers of errors.py    *)
(*             the router         a route's handler, in a thread           *)
(*                                                                         *)
(* AccessLogMiddleware runs what is below it in a task of its own with a   *)
(* copy of the context, so that the id has two places (see var).  A        *)
(* handler's thread has a copy of the inner one; the threads of the OCR    *)
(* pool, which a request of several pages uses, have an empty context.  A  *)
(* request's id is the request itself.                                     *)
(*                                                                         *)
(* Abstracted: what an answer says beside its status and ids, except the   *)
(* list of modules; times; the work behind POST /ocr, which is             *)
(* OcrService's.                                                           *)
(***************************************************************************)
EXTENDS Startup

CONSTANTS
    Requests,       \* HTTP requests that may arrive
    Calls           \* what a request may ask for

NoId == "-"         \* the default of request_id_var, and no header
NoWorker == NoId

\* A path stands for the routes that are treated alike: "static" for those of
\* monitoring._SKIP_PREFIXES, "core" for all that answer with an envelope and
\* are no module's.  The two pages of app.py are left out.  pooled says of a
\* request to /ocr that it has more than one page.
CallRecords ==
    [ path   : {"static", "core", "modules"} \union Known,
      access : {"granted", "anonymous", "denied", "malformed"},
      pooled : BOOLEAN ]

ASSUME CallsAssumption ==
    /\ Calls \subseteq CallRecords
    /\ NoId \notin Requests

VARIABLES
    call,       \* call[r]: what r asks for
    stage,      \* stage[r]: how far it is
    worker,     \* worker[r]: the process that serves it
    var,        \* var[r]: request_id_var in r's outer and inner context
    answer,     \* answer[r]: what has been made of the answer; sent when r is over
    lines,      \* the log: of whom (auxiliary), with which id, on what
    rows,       \* table access_log: the row of id i is rows[i]
    booked      \* booked[r]: rows of usage_ledger from r

requests == <<call, stage, worker, var, answer, lines, rows, booked>>
vars == <<startup, requests>>

InProgress == {"routing", "booked", "raised", "handled", "logged"}
Over == {"answered", "failed", "lost"}

NoAnswer == [status |-> 0, id |-> NoId, header |-> NoId, shown |-> {}, version |-> 0]
Line(r, id, event, status) == [req |-> r, id |-> id, event |-> event, status |-> status]

Skipped(r) == call[r].path = "static"
IsModule(path) == path \in Known
Routed(r) == IsModule(call[r].path) => call[r].path \in proc[worker[r]].mounted

\* The answers of the dependencies and the validation, in their order.
StatusOf == [granted |-> 200, anonymous |-> 401, denied |-> 403, malformed |-> 422]

-----------------------------------------------------------------------------
(***************************************************************************)
(* Inwards.  An API key is used by those it has been issued to.            *)
(***************************************************************************)
\* Mistake: the id is a variable of the module, which all requests share.
ContextShared(r) ==
    [q \in Requests |-> IF stage[q] \in Over THEN var[q] ELSE [outer |-> r, inner |-> r]]

Context(r) == [var EXCEPT ![r] = [outer |-> r, inner |-> r]]

Arrive(r, p) ==
    /\ stage[r] = "idle"
    /\ proc[p].at = "serving"
    /\ IsModule(call[r].path) /\ call[r].access \in {"granted", "denied"} => issued
    /\ stage' = [stage EXCEPT ![r] = "routing"]
    /\ worker' = [worker EXCEPT ![r] = p]
    /\ var' = Context(r)
    /\ UNCHANGED <<startup, call, answer, lines, rows, booked>>

\* An answer is made in the inner context; all but files carry its id.
Respond(r, status, shown, version) ==
    /\ stage' = [stage EXCEPT ![r] = "handled"]
    /\ answer' = [answer EXCEPT ![r] =
                    [ status |-> status, header |-> NoId, shown |-> shown, version |-> version,
                      id |-> IF Skipped(r) THEN NoId ELSE var[r].inner ]]
    /\ UNCHANGED <<startup, call, worker, var, lines, rows>>

\* The path of a module that this process has not mounted.
NotFound(r) ==
    /\ stage[r] = "routing"
    /\ ~Routed(r)
    /\ Respond(r, 404, {}, proc[worker[r]].version)
    /\ UNCHANGED booked

Refused(r) ==
    /\ stage[r] = "routing"
    /\ Routed(r)
    /\ call[r].access # "granted"
    /\ Respond(r, StatusOf[call[r].access], {}, 0)
    /\ UNCHANGED booked

Reaches(r, path) ==
    /\ stage[r] = "routing"
    /\ Routed(r)
    /\ call[r].access = "granted"
    /\ call[r].path = path

\* GET /core/modules reads the file anew.
Modules(r) ==
    /\ Reaches(r, "modules")
    /\ file # Torn
    /\ Respond(r, 200, Listed(file), edits)
    /\ UNCHANGED booked

Served(r) ==
    /\ \E path \in {"static", "core", "ocr"} : Reaches(r, path)
    /\ Respond(r, 200, {}, 0)
    /\ UNCHANGED booked

\* A handler writes a line in its own thread: of a login, or of a failed page
\* when POST /ocr was sent a single one.
HandlerLogs(r) ==
    /\ Reaches(r, "core") \/ (Reaches(r, "ocr") /\ ~call[r].pooled)
    /\ lines' = lines \union {Line(r, var[r].inner, "handler", 0)}
    /\ UNCHANGED <<startup, call, stage, worker, var, answer, rows, booked>>

\* One of several pages fails, and a thread of the pool says so.
PoolLogs(r) ==
    /\ Reaches(r, "ocr") /\ call[r].pooled
    /\ lines' = lines \union {Line(r, NoId, "pool", 0)}
    /\ UNCHANGED <<startup, call, stage, worker, var, answer, rows, booked>>

\* Mistake: a booking that fails is passed over.
BookOrNot(r) ==
    /\ Reaches(r, "recommend")
    /\ stage' = [stage EXCEPT ![r] = "booked"]
    /\ booked' \in {booked, [booked EXCEPT ![r] = @ + 1]}
    /\ UNCHANGED <<startup, call, worker, var, answer, lines, rows>>

\* POST /recommend: ledger.append commits before the answer is made.
Book(r) ==
    /\ Reaches(r, "recommend")
    /\ stage' = [stage EXCEPT ![r] = "booked"]
    /\ booked' = [booked EXCEPT ![r] = @ + 1]
    /\ UNCHANGED <<startup, call, worker, var, answer, lines, rows>>

Recommended(r) ==
    /\ stage[r] = "booked"
    /\ Respond(r, 200, {}, 0)
    /\ UNCHANGED booked

\* A dependency or a handler raises what none of the three handlers is for:
\* the database is locked, the configuration file cannot be read.
Raise(r) ==
    /\ stage[r] = "routing"
    /\ Routed(r)
    /\ ~Skipped(r)
    /\ stage' = [stage EXCEPT ![r] = "raised"]
    /\ UNCHANGED <<startup, call, worker, var, answer, lines, rows, booked>>

-----------------------------------------------------------------------------
(***************************************************************************)
(* Outwards.                                                               *)
(***************************************************************************)
AccessRow(r) == [req |-> r, status |-> answer[r].status]

\* Mistake: what has been inserted is inserted again.
WrittenTwice(r, inserted) ==
    /\ ~Skipped(r)
    /\ lines' = lines \union {Line(r, var[r].outer, "request", answer[r].status)}
    /\ rows' = IF inserted THEN rows \o <<AccessRow(r), AccessRow(r)>> ELSE rows
    /\ UNCHANGED <<startup, call, worker, var, answer, booked>>

\* What dispatch writes once the inner application has begun to answer: a log
\* line and a row, unless the insert fails.
Written(r, inserted) ==
    /\ IF Skipped(r)
       THEN UNCHANGED <<lines, rows>>
       ELSE /\ lines' = lines \union {Line(r, var[r].outer, "request", answer[r].status)}
            /\ rows' = IF inserted THEN Append(rows, AccessRow(r)) ELSE rows
    /\ UNCHANGED <<startup, call, worker, var, answer, booked>>

\* Mistake: a failing insert is raised.
LogRaises(r, inserted) ==
    /\ stage[r] = "handled"
    /\ stage' = [stage EXCEPT ![r] = IF inserted \/ Skipped(r) THEN "logged" ELSE "raised"]
    /\ Written(r, inserted)

\* All of it comes before the answer is passed on, and its failure is swallowed.
Log(r, inserted) ==
    /\ stage[r] = "handled"
    /\ stage' = [stage EXCEPT ![r] = "logged"]
    /\ Written(r, inserted)

\* send_wrapper adds the id of its own call, and the finally resets the context.
Send(r) ==
    /\ stage[r] = "logged"
    /\ stage' = [stage EXCEPT ![r] = "answered"]
    /\ answer' = [answer EXCEPT ![r].header = r]
    /\ var' = [var EXCEPT ![r].outer = NoId]
    /\ UNCHANGED <<startup, call, worker, lines, rows, booked>>

\* The exception passes both middlewares, which resets the context, before the
\* handler of Exception logs it and answers, below nobody's send_wrapper.
Unhandled(r) ==
    /\ stage[r] = "raised"
    /\ stage' = [stage EXCEPT ![r] = "failed"]
    /\ var' = [var EXCEPT ![r].outer = NoId]
    /\ lines' = lines \union {Line(r, NoId, "unhandled", 0)}
    /\ answer' = [answer EXCEPT ![r] = [NoAnswer EXCEPT !.status = 500]]
    /\ UNCHANGED <<startup, call, worker, rows, booked>>

\* With the process its requests are gone; what is committed stays.
Crash(p) ==
    /\ Die(p)
    /\ stage' = [r \in Requests |->
                   IF stage[r] \in InProgress /\ worker[r] = p THEN "lost" ELSE stage[r]]
    /\ UNCHANGED <<call, worker, var, answer, lines, rows, booked>>

-----------------------------------------------------------------------------
Init ==
    /\ StartupInit
    /\ call \in [Requests -> Calls]
    /\ stage = [r \in Requests |-> "idle"]
    /\ worker = [r \in Requests |-> NoWorker]
    /\ var = [r \in Requests |-> [outer |-> NoId, inner |-> NoId]]
    /\ answer = [r \in Requests |-> NoAnswer]
    /\ lines = {}
    /\ rows = <<>>
    /\ booked = [r \in Requests |-> 0]

RequestStep(r) ==
    \/ NotFound(r) \/ Refused(r) \/ Modules(r) \/ Served(r)
    \/ HandlerLogs(r) \/ PoolLogs(r)
    \/ Book(r) \/ Recommended(r) \/ Raise(r)
    \/ \E inserted \in BOOLEAN : Log(r, inserted)
    \/ Send(r) \/ Unhandled(r)

Next ==
    \/ \E p \in Processes : StartupStep(p) /\ UNCHANGED requests
    \/ Edit /\ UNCHANGED requests
    \/ \E r \in Requests, p \in Workers : Arrive(r, p)
    \/ \E r \in Requests : RequestStep(r)
    \/ \E p \in Workers : Crash(p)

Spec == Init /\ [][Next]_vars

-----------------------------------------------------------------------------
(***************************************************************************)
(* Properties.                                                             *)
(***************************************************************************)
\* Every variable has its type.
TypeOK ==
    /\ StartupTypeOK
    /\ call \in [Requests -> Calls]
    /\ stage \in [Requests -> {"idle"} \union InProgress \union Over]
    /\ worker \in [Requests -> Workers \union {NoWorker}]
    /\ var \in [Requests -> [outer : Requests \union {NoId}, inner : Requests \union {NoId}]]
    /\ answer \in [Requests ->
         [status : Nat, id : Requests \union {NoId}, header : Requests \union {NoId},
          shown : SUBSET STRING, version : Nat]]
    /\ lines \subseteq [req : Requests, id : Requests \union {NoId},
                        event : {"handler", "pool", "request", "unhandled"}, status : Nat]
    /\ rows \in Seq([req : Requests, status : Nat])
    /\ booked \in [Requests -> Nat]

\* An answer that a route or one of the handlers below the middlewares made
\* carries one id in header and envelope, and with it the client's operator finds
\* the "request" line of this very request, and its status, in whatever way
\* requests overlap.  What a handler logs in its own thread carries the id too.
\* No line carries another request's: those of a pool's threads and of the
\* handler of Exception have none.
AnswersAreTraceable ==
    /\ \A r \in Requests : stage[r] = "answered" =>
        /\ answer[r].header = r
        /\ ~Skipped(r) =>
              /\ answer[r].id = answer[r].header
              /\ Line(r, answer[r].header, "request", answer[r].status) \in lines
    /\ \A l \in lines :
          l.id = IF l.event \in {"pool", "unhandled"} THEN NoId ELSE l.req

\* The access log never tells what did not happen: no request has two rows, none
\* of an exception or of a skipped path has one, and each has the status the
\* client was or will be told and stands in the log as well.  Where it has none
\* of a request that is over, the log has a line, unless the process ended.
AccessLogAgreesWithAnswers ==
    /\ \A i, j \in DOMAIN rows : rows[i].req = rows[j].req => i = j
    /\ \A i \in DOMAIN rows :
          LET r == rows[i].req IN
          /\ ~Skipped(r)
          /\ stage[r] \in {"logged", "answered", "lost"}
          /\ rows[i].status = answer[r].status
          /\ \E l \in lines : l.req = r /\ l.event = "request" /\ l.status = rows[i].status
    /\ \A r \in Requests : stage[r] \in {"answered", "failed"} /\ ~Skipped(r) =>
          \E l \in lines : l.req = r /\ l.event \in {"request", "unhandled"}

\* Once a route has answered, only the end of the process keeps the answer from
\* the client: not an access log that cannot be written.
LoggingKillsNoRequest ==
    \A r \in Requests :
        answer[r].status \notin {0, 500} =>
            stage[r] \in {"handled", "logged", "answered", "lost"}

\* A recommendation is booked once if the client got it, and not at all if he
\* was refused, got an error or asked for something else.  If the process dies
\* it may be booked and lost.
BookedOnce ==
    \A r \in Requests :
        /\ booked[r] \in {0, 1}
        /\ stage[r] \in {"answered", "failed"} =>
              (booked[r] = 1 <=> call[r].path = "recommend" /\ answer[r].status = 200)
        /\ booked[r] = 1 => call[r].access = "granted"

\* The console draws its menu from /core/modules.  An item of it leads to a
\* route in every process that was started with the file the answer shows:
\* only an edit in between, either way, can make it a 404.
MenuLeadsToRoutes ==
    \A r, s \in Requests :
        ( /\ stage[r] = "answered" /\ call[r].path \in answer[s].shown
          /\ answer[r].status = 404 /\ answer[s].status = 200 )
        => answer[r].version # answer[s].version

(***************************************************************************)
(* What monitoring.py says at its head: every answer has X-Request-ID, and *)
(* the context reaches the exception handlers.                             *)
(***************************************************************************)
EveryAnswerHasAnId ==
    \A r \in Requests : stage[r] \in {"answered", "failed"} => answer[r].header = r
=============================================================================

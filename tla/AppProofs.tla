----------------------------- MODULE AppProofs -----------------------------
(***************************************************************************)
(* Theorems about App, for any number of processes and requests, any       *)
(* schema, configuration files, starts and edits.                          *)
(*                                                                         *)
(* Three invariants carry them.  UpToDate follows each process through     *)
(* init_db: what it has done of it holds of the database whatever the      *)
(* others do, since tables and the column never go away again.  OnItsWay   *)
(* says of a request, stage by stage, what its contexts, its answer, the   *)
(* log and the ledger hold of it.  Consistent says that what processes     *)
(* have mounted and answers have shown can all be explained by one history *)
(* of the configuration file; the history is an auxiliary variable that    *)
(* the invariant quantifies over, since no action needs to look at it.     *)
(***************************************************************************)
EXTENDS App, TLAPS

ProcessUpToDate(p) ==
    /\ proc[p].at = "schema" =>
          /\ proc[p].next \in DOMAIN Schema
          /\ \A i \in DOMAIN Schema : i < proc[p].next => Schema[i] \in tables
    /\ proc[p].at \in {"look", "alter", "mount", "insert", "serving"} => tables = Tables
    /\ proc[p].at \in {"mount", "insert", "serving"} => column
    /\ proc[p].began => column
    /\ proc[p].at = "alter" => ~proc[p].began
    /\ proc[p].died => column /\ ~proc[p].began

UpToDate ==
    /\ column => "test_runs" \in tables
    /\ \A p \in Processes : ProcessUpToDate(p)

ContextOK(r) ==
    stage[r] \in InProgress => worker[r] \in Workers /\ var[r].outer = r /\ var[r].inner = r

AnswerOK(r) ==
    /\ stage[r] \in {"idle", "routing", "booked", "raised"} => answer[r].status = 0
    /\ stage[r] = "failed" => answer[r].status = 500
    /\ stage[r] \in {"handled", "logged", "answered"} => Skipped(r) \/ answer[r].id = r
    /\ stage[r] = "answered" => answer[r].header = r

LogOK(r) ==
    /\ stage[r] \in {"logged", "answered"} =>
          Skipped(r) \/ Line(r, r, "request", answer[r].status) \in lines
    /\ stage[r] = "failed" => Line(r, NoId, "unhandled", 0) \in lines

LineOK(l) == l.id = IF l.event \in {"pool", "unhandled"} THEN NoId ELSE l.req

RowOK(x) ==
    /\ ~Skipped(x.req)
    /\ stage[x.req] \in {"logged", "answered", "lost"}
    /\ x.status = answer[x.req].status
    /\ Line(x.req, x.req, "request", x.status) \in lines

BookingOK(r) ==
    /\ booked[r] \in {0, 1}
    /\ stage[r] \in {"idle", "routing", "raised", "failed"} => booked[r] = 0
    /\ stage[r] = "booked" => booked[r] = 1 /\ call[r].path = "recommend"
    /\ stage[r] \in {"handled", "logged", "answered"} =>
          (booked[r] = 1 <=> call[r].path = "recommend" /\ answer[r].status = 200)
    /\ booked[r] = 1 => call[r].access = "granted"

OnItsWay ==
    /\ \A r \in Requests : ContextOK(r) /\ AnswerOK(r) /\ LogOK(r) /\ BookingOK(r)
    /\ \A i \in DOMAIN rows : RowOK(rows[i])
    /\ \A i, j \in DOMAIN rows : rows[i].req = rows[j].req => i = j
    /\ \A l \in lines : LineOK(l)

IInv == TypeOK /\ UpToDate /\ OnItsWay

-----------------------------------------------------------------------------
(***************************************************************************)
(* Start-up.                                                               *)
(***************************************************************************)
StartupNext ==
    \/ \E p \in Processes : StartupStep(p)
    \/ Edit
    \/ \E p \in Workers : Die(p)

ProcessRecords ==
    [at : Stages, next : Nat, mounted : SUBSET Known, version : Nat,
     died : BOOLEAN, began : BOOLEAN]

\* init_db creates at least one table, and test_runs is one of them.
LEMMA SchemaFacts ==
    /\ Len(Schema) \in Nat \ {0}
    /\ DOMAIN Schema = 1..Len(Schema)
    /\ \A i \in DOMAIN Schema : Schema[i] \in Tables
    /\ "test_runs" \in Tables
  BY StartupAssumption DEF Tables

\* No process has begun.
LEMMA StartupTypeInit == StartupInit => StartupTypeOK
  BY SchemaFacts DEF StartupInit, StartupTypeOK, Down, Stages

\* Each step of a start leaves a process record a process record; only a table
\* of the schema is created.
LEMMA StartupTypeStep ==
    ASSUME StartupTypeOK, UpToDate, StartupNext
    PROVE  StartupTypeOK'
  <1> USE DEF StartupTypeOK, Stages, Down
  <1>1. ASSUME NEW p \in Processes, Start(p) PROVE StartupTypeOK'
    <2>1. [Down EXCEPT !.at = "schema", !.began = column] \in ProcessRecords
      BY Zenon DEF ProcessRecords
    <2>2. proc' \in [Processes -> ProcessRecords]
      BY <1>1, <2>1 DEF Start, ProcessRecords
    <2>3. QED
      BY <1>1, <2>2 DEF Start, ProcessRecords
  <1>2. ASSUME NEW p \in Processes, Create(p) PROVE StartupTypeOK'
    <2>1. proc[p].next \in DOMAIN Schema
      BY <1>2 DEF Create, UpToDate, ProcessUpToDate
    <2>2. tables' \subseteq Tables
      BY <1>2, <2>1, SchemaFacts DEF Create
    <2>3. column' \in BOOLEAN
      BY <1>2, Zenon DEF Create
    <2>4. proc' \in [Processes -> ProcessRecords]
      <3>1. proc' = [proc EXCEPT ![p] = proc'[p]]
        BY <1>2 DEF Create
      <3>2. CASE proc[p].next = Len(Schema)
        <4>1. proc'[p] = [proc[p] EXCEPT !.next = 1, !.at = "look"]
          BY <1>2, <3>2 DEF Create
        <4>2. proc[p] \in ProcessRecords
          BY DEF ProcessRecords
        <4>3. [proc[p] EXCEPT !.next = 1, !.at = "look"] \in ProcessRecords
          BY <4>2 DEF ProcessRecords
        <4>4. QED
          BY <3>1, <4>1, <4>3 DEF ProcessRecords
      <3>3. CASE proc[p].next # Len(Schema)
        <4>1. proc'[p] = [proc[p] EXCEPT !.next = proc[p].next + 1]
          BY <1>2, <3>3 DEF Create
        <4>2. QED
          BY <3>1, <4>1 DEF ProcessRecords
      <3>4. QED
        BY <3>2, <3>3
    <2>5. QED
      BY <1>2, <2>2, <2>3, <2>4 DEF Create, ProcessRecords
  <1>3. ASSUME NEW p \in Processes, Look(p) PROVE StartupTypeOK'
    BY <1>3 DEF Look, AfterInit
  <1>4. ASSUME NEW p \in Processes, Alter(p) PROVE StartupTypeOK'
    <2>1. [Down EXCEPT !.died = TRUE, !.began = proc[p].began] \in ProcessRecords
      <3>1. proc[p].began \in BOOLEAN
        OBVIOUS
      <3>2. QED
        BY <3>1, Zenon DEF ProcessRecords
    <2>2. [proc[p] EXCEPT !.at = AfterInit(p)] \in ProcessRecords
      BY DEF ProcessRecords, AfterInit
    <2>3. proc' \in [Processes -> ProcessRecords]
      <3>1. CASE column
        <4>1. proc' = [proc EXCEPT ![p] = [Down EXCEPT !.died = TRUE, !.began = proc[p].began]]
          BY <1>4, <3>1 DEF Alter
        <4>2. QED
          BY <2>1, <4>1 DEF ProcessRecords
      <3>2. CASE ~column
        <4>1. proc' = [proc EXCEPT ![p] = [proc[p] EXCEPT !.at = AfterInit(p)]]
          BY <1>4, <3>2 DEF Alter
        <4>2. QED
          BY <2>2, <4>1 DEF ProcessRecords
      <3>3. QED
        BY <3>1, <3>2
    <2>4. QED
      BY <1>4, <2>3 DEF Alter, ProcessRecords
  <1>5. ASSUME NEW p \in Processes, Mount(p) PROVE StartupTypeOK'
    BY <1>5 DEF Mount, Mountable
  <1>6. ASSUME NEW p \in Processes, InsertKey(p) PROVE StartupTypeOK'
    BY <1>6 DEF InsertKey
  <1>7. ASSUME NEW p \in Processes, Fail(p) PROVE StartupTypeOK'
    BY <1>7 DEF Fail
  <1>8. ASSUME Edit PROVE StartupTypeOK'
    BY <1>8 DEF Edit
  <1>9. ASSUME NEW p \in Workers, Die(p) PROVE StartupTypeOK'
    BY <1>9 DEF Die, Processes
  <1>10. QED
    BY <1>1, <1>2, <1>3, <1>4, <1>5, <1>6, <1>7, <1>8, <1>9 DEF StartupNext, StartupStep

\* There is nothing that could be out of date.
LEMMA UpToDateInit == StartupInit => UpToDate
  <1> SUFFICES ASSUME StartupInit PROVE UpToDate
    OBVIOUS
  <1>1. column => "test_runs" \in tables
    BY SchemaFacts DEF StartupInit
  <1>2. ASSUME NEW p \in Processes PROVE ProcessUpToDate(p)
    BY DEF StartupInit, ProcessUpToDate, Down
  <1>3. QED
    BY <1>1, <1>2 DEF UpToDate

\* What a process has done of init_db stays done, whatever the others do.
LEMMA DatabaseGrows ==
    ASSUME StartupTypeOK, UpToDate, StartupNext
    PROVE  /\ tables \subseteq tables' /\ tables' \subseteq Tables
           /\ column => column'
           /\ column' => "test_runs" \in tables'
  <1>1. tables' \subseteq Tables
    BY StartupTypeStep DEF StartupTypeOK
  <1>2. ASSUME NEW p \in Processes, Alter(p) PROVE tables' = Tables
    BY <1>2 DEF Alter, UpToDate, ProcessUpToDate
  <1>3. tables \subseteq Tables
    BY DEF StartupTypeOK
  <1>4. ASSUME NEW p \in Processes, Create(p)
        PROVE  /\ tables \subseteq tables'
               /\ column => column'
               /\ column' => "test_runs" \in tables'
    BY <1>4 DEF Create, UpToDate
  <1>5. CASE \E p \in Processes : Create(p)
    BY <1>1, <1>4, <1>5
  <1>6. CASE \E p \in Processes : Alter(p)
    <2>1. PICK p \in Processes : Alter(p)
      BY <1>6
    <2>2. tables' = Tables /\ tables' = tables /\ column'
      BY <1>2, <2>1 DEF Alter
    <2>3. QED
      BY <2>2, SchemaFacts
  <1>7. CASE tables' = tables /\ column' = column
    BY <1>3, <1>7 DEF UpToDate
  <1>8. QED
    BY <1>5, <1>6, <1>7
       DEF StartupNext, StartupStep, Start, Look, Mount, InsertKey, Fail, Die, Edit

\* A process that does not move is as far as it was.
LEMMA OthersUpToDate ==
    ASSUME StartupTypeOK, UpToDate, StartupNext,
           NEW p \in Processes, proc'[p] = proc[p]
    PROVE  ProcessUpToDate(p)'
  BY DatabaseGrows DEF UpToDate, ProcessUpToDate, StartupTypeOK

\* A start leaves what it has passed up to date; the others see the database grow.
LEMMA UpToDateStep ==
    ASSUME StartupTypeOK, UpToDate, StartupNext
    PROVE  UpToDate'
  <1> USE DEF Down
  <1>0. ASSUME NEW p \in Processes PROVE ProcessUpToDate(p)
    BY DEF UpToDate
  <1>1. ASSUME NEW p \in Processes, StartupStep(p) \/ Die(p), ProcessUpToDate(p)' PROVE UpToDate'
    <2>1. ASSUME NEW q \in Processes, q # p PROVE proc'[q] = proc[q]
      BY <1>1, <2>1
         DEF StartupTypeOK, StartupStep, Start, Create, Look, Alter, Mount, InsertKey, Fail, Die
    <2>2. QED
      BY <1>1, <2>1, OthersUpToDate, DatabaseGrows DEF UpToDate
  <1>2. ASSUME NEW p \in Processes, Start(p) PROVE ProcessUpToDate(p)'
    BY <1>2, SchemaFacts DEF Start, StartupTypeOK, ProcessUpToDate
  <1>3. ASSUME NEW p \in Processes, Create(p) PROVE ProcessUpToDate(p)'
    <2> DEFINE n == proc[p].next
    <2>1. n \in 1..Len(Schema) /\ \A i \in DOMAIN Schema : i < n => Schema[i] \in tables
      BY <1>0, <1>3, SchemaFacts DEF Create, ProcessUpToDate
    <2>2. \A i \in DOMAIN Schema : i <= n => Schema[i] \in tables'
      BY <1>3, <2>1, SchemaFacts DEF Create
    <2>3. CASE n = Len(Schema)
      <3>1. tables' = Tables
        BY <2>2, <2>3, DatabaseGrows, SchemaFacts DEF Tables
      <3>2. proc'[p] = [proc[p] EXCEPT !.next = 1, !.at = "look"]
        BY <1>3, <2>3 DEF Create, StartupTypeOK
      <3>3. /\ proc'[p].at = "look"
            /\ proc'[p].began = proc[p].began
            /\ proc'[p].died = proc[p].died
        BY <3>2 DEF StartupTypeOK
      <3>4. QED
        BY <1>0, <3>1, <3>3, DatabaseGrows DEF ProcessUpToDate
    <2>4. CASE n # Len(Schema)
      <3>1. proc'[p] = [proc[p] EXCEPT !.next = n + 1]
        BY <1>3, <2>4 DEF Create, StartupTypeOK
      <3>2. n + 1 \in DOMAIN Schema /\ \A i \in DOMAIN Schema : i < n + 1 => Schema[i] \in tables'
        BY <2>1, <2>2, <2>4, SchemaFacts
      <3>3. QED
        BY <1>0, <1>3, <3>1, <3>2, DatabaseGrows DEF ProcessUpToDate, StartupTypeOK, Create
    <2>5. QED
      BY <2>3, <2>4
  <1>4. ASSUME NEW p \in Processes, Look(p) PROVE ProcessUpToDate(p)'
    BY <1>0, <1>4 DEF Look, AfterInit, StartupTypeOK, ProcessUpToDate
  <1>5. ASSUME NEW p \in Processes, Alter(p) PROVE ProcessUpToDate(p)'
    BY <1>0, <1>5 DEF Alter, AfterInit, StartupTypeOK, ProcessUpToDate
  <1>6. ASSUME NEW p \in Processes, Mount(p) PROVE ProcessUpToDate(p)'
    BY <1>0, <1>6 DEF Mount, StartupTypeOK, ProcessUpToDate
  <1>7. ASSUME NEW p \in Processes, InsertKey(p) \/ Fail(p) \/ Die(p) PROVE ProcessUpToDate(p)'
    BY <1>7 DEF InsertKey, Fail, Die, StartupTypeOK, ProcessUpToDate
  <1>8. ASSUME Edit PROVE UpToDate'
    BY <1>8 DEF Edit, UpToDate, ProcessUpToDate
  <1>9. QED
    BY <1>1, <1>2, <1>3, <1>4, <1>5, <1>6, <1>7, <1>8 DEF StartupNext, StartupStep, Processes

-----------------------------------------------------------------------------
(***************************************************************************)
(* Requests.  RequestTypeOK and OnItsWay speak of the variables of App     *)
(* only, so a step of Startup leaves them alone.                           *)
(***************************************************************************)
Ids == Requests \union {NoId}
AnswerRecords == [status : Nat, id : Ids, header : Ids, shown : SUBSET STRING, version : Nat]
LineRecords == [req : Requests, id : Ids,
                event : {"handler", "pool", "request", "unhandled"}, status : Nat]
RowRecords == [req : Requests, status : Nat]

RequestTypeOK ==
    /\ call \in [Requests -> Calls]
    /\ stage \in [Requests -> {"idle"} \union InProgress \union Over]
    /\ worker \in [Requests -> Workers \union {NoWorker}]
    /\ var \in [Requests -> [outer : Ids, inner : Ids]]
    /\ answer \in [Requests -> AnswerRecords]
    /\ lines \subseteq LineRecords
    /\ rows \in Seq(RowRecords)
    /\ booked \in [Requests -> Nat]

\* The type invariant in two parts: the starts, and the requests.
LEMMA TypeParts == TypeOK <=> StartupTypeOK /\ RequestTypeOK
  BY DEF TypeOK, RequestTypeOK, Ids, AnswerRecords, LineRecords, RowRecords

\* No request has arrived.
LEMMA RequestsInit == Init => RequestTypeOK /\ OnItsWay
  <1> SUFFICES ASSUME Init PROVE RequestTypeOK /\ OnItsWay
    OBVIOUS
  <1>1. NoAnswer \in AnswerRecords
    BY DEF NoAnswer, AnswerRecords, Ids
  <1>2. RequestTypeOK
    BY <1>1 DEF Init, RequestTypeOK, Ids, InProgress, Over, NoWorker
  <1>3. OnItsWay
    BY DEF Init, OnItsWay, ContextOK, AnswerOK, LogOK, BookingOK, InProgress, NoAnswer
  <1>4. QED
    BY <1>2, <1>3

\* A step of a start leaves requests as they are.
LEMMA RequestsStay ==
    ASSUME RequestTypeOK, OnItsWay, UNCHANGED requests
    PROVE  RequestTypeOK' /\ OnItsWay'
  <1>1. RequestTypeOK'
    BY DEF requests, RequestTypeOK
  <1>2. OnItsWay'
    BY DEF requests, OnItsWay, ContextOK, AnswerOK, LogOK, RowOK, BookingOK, Skipped
  <1>3. QED
    BY <1>1, <1>2

\* A row of the table is a request's.
LEMMA RowsAreOfRequests ==
    ASSUME RequestTypeOK, NEW i \in DOMAIN rows
    PROVE  rows[i].req \in Requests
  <1>1. rows \in Seq(RowRecords)
    BY DEF RequestTypeOK
  <1>2. rows[i] \in RowRecords
    BY <1>1
  <1>3. QED
    BY <1>2 DEF RowRecords

\* The rows of r, after a step, are true and one at most; those of others are
\* those that were there.
RowsFollow(r) ==
    /\ \A i \in DOMAIN rows' :
          IF rows'[i].req = r THEN RowOK(rows[i])' ELSE i \in DOMAIN rows /\ rows'[i] = rows[i]
    /\ \A i, j \in DOMAIN rows' : rows'[i].req = r /\ rows'[j].req = r => i = j

\* A request without a row that leaves the table alone gets none.
LEMMA RowsStay ==
    ASSUME NEW r \in Requests, rows' = rows, \A i \in DOMAIN rows : rows[i].req # r
    PROVE  RowsFollow(r)
  BY DEF RowsFollow

\* Nobody has a row before his answer has been logged, or instead of one.
LEMMA NoRowYet ==
    ASSUME OnItsWay, NEW r \in Requests,
           stage[r] \notin {"logged", "answered", "lost"}
    PROVE  \A i \in DOMAIN rows : rows[i].req # r
  BY DEF OnItsWay, RowOK

\* What holds of the other requests goes on holding when one of them moves.
LEMMA OneMoves ==
    ASSUME RequestTypeOK, OnItsWay, RequestTypeOK', NEW r \in Requests,
           call' = call, lines \subseteq lines',
           \A q \in Requests \ {r} : /\ stage'[q] = stage[q] /\ var'[q] = var[q]
                                     /\ answer'[q] = answer[q] /\ booked'[q] = booked[q]
                                     /\ worker'[q] = worker[q],
           (ContextOK(r) /\ AnswerOK(r) /\ LogOK(r) /\ BookingOK(r))',
           RowsFollow(r),
           \A l \in lines' \ lines : LineOK(l)
    PROVE  OnItsWay'
  <1>1. ASSUME NEW q \in Requests, q # r
        PROVE  (ContextOK(q) /\ AnswerOK(q) /\ LogOK(q) /\ BookingOK(q))'
    BY <1>1 DEF OnItsWay, ContextOK, AnswerOK, LogOK, BookingOK, Skipped, RequestTypeOK
  <1>2. ASSUME NEW i \in DOMAIN rows' PROVE RowOK(rows[i])'
    <2>1. CASE rows'[i].req = r
      BY <1>2, <2>1 DEF RowsFollow
    <2>2. CASE rows'[i].req # r
      <3>1. i \in DOMAIN rows /\ rows'[i] = rows[i]
        BY <1>2, <2>2 DEF RowsFollow
      <3>2. RowOK(rows[i]) /\ rows[i].req \in Requests
        BY <3>1, RowsAreOfRequests DEF OnItsWay
      <3>3. QED
        BY <2>2, <3>1, <3>2 DEF RowOK, Skipped
    <2>3. QED
      BY <2>1, <2>2
  <1>3. ASSUME NEW i \in DOMAIN rows', NEW j \in DOMAIN rows', rows'[i].req = rows'[j].req
        PROVE  i = j
    <2>1. CASE rows'[i].req = r
      BY <1>3, <2>1 DEF RowsFollow
    <2>2. CASE rows'[i].req # r
      <3>1. /\ i \in DOMAIN rows /\ rows'[i] = rows[i]
            /\ j \in DOMAIN rows /\ rows'[j] = rows[j]
        BY <1>3, <2>2 DEF RowsFollow
      <3>2. QED
        BY <1>3, <3>1 DEF OnItsWay
    <2>3. QED
      BY <2>1, <2>2
  <1>4. \A l \in lines' : LineOK(l)
    BY DEF OnItsWay
  <1>5. QED
    BY <1>1, <1>2, <1>3, <1>4 DEF OnItsWay, LineOK

\* A request arrives with a context of its own and nothing answered or logged.
LEMMA ArriveKeeps ==
    ASSUME RequestTypeOK, OnItsWay, NEW r \in Requests, NEW p \in Workers, Arrive(r, p)
    PROVE  RequestTypeOK' /\ OnItsWay'
  <1>1. RequestTypeOK'
    BY DEF Arrive, RequestTypeOK, Context, Ids, InProgress
  <1>2. ContextOK(r) /\ AnswerOK(r) /\ LogOK(r) /\ BookingOK(r)
    BY DEF OnItsWay
  <1>3. (ContextOK(r) /\ AnswerOK(r) /\ LogOK(r) /\ BookingOK(r))'
    BY <1>2 DEF Arrive, Context, RequestTypeOK, ContextOK, AnswerOK, LogOK, BookingOK, Skipped
  <1>4. RowsFollow(r)
    BY NoRowYet, RowsStay DEF Arrive
  <1>5. QED
    BY <1>1, <1>3, <1>4, OneMoves DEF Arrive, Context, RequestTypeOK

\* The answer a route or a handler below the middlewares makes has the id of
\* its request; the condition on booked is what each of them adds.
LEMMA RespondKeeps ==
    ASSUME RequestTypeOK, OnItsWay, NEW r \in Requests, stage[r] \in {"routing", "booked"},
           NEW status \in Nat, NEW shown \in SUBSET STRING, NEW version \in Nat,
           Respond(r, status, shown, version), UNCHANGED booked,
           booked[r] = 1 <=> call[r].path = "recommend" /\ status = 200
    PROVE  RequestTypeOK' /\ OnItsWay'
  <1>1. ContextOK(r) /\ AnswerOK(r) /\ LogOK(r) /\ BookingOK(r)
    BY DEF OnItsWay
  <1>2. var[r].inner = r
    BY <1>1 DEF ContextOK, InProgress
  <1> DEFINE made == [ status |-> status, header |-> NoId, shown |-> shown, version |-> version,
                       id |-> IF Skipped(r) THEN NoId ELSE r ]
  <1>3. answer' = [answer EXCEPT ![r] = made] /\ made \in AnswerRecords
    BY <1>2 DEF Respond, AnswerRecords, Ids
  <1>4. RequestTypeOK'
    BY <1>3 DEF Respond, RequestTypeOK, InProgress
  <1>5. answer'[r].status = status /\ (Skipped(r) \/ answer'[r].id = r)
    BY <1>3 DEF RequestTypeOK
  <1>6. (ContextOK(r) /\ AnswerOK(r) /\ LogOK(r) /\ BookingOK(r))'
    BY <1>1, <1>5
       DEF Respond, RequestTypeOK, ContextOK, AnswerOK, LogOK, BookingOK, Skipped, InProgress
  <1>7. RowsFollow(r)
    BY NoRowYet, RowsStay DEF Respond
  <1>8. QED
    BY <1>3, <1>4, <1>6, <1>7, OneMoves DEF Respond, RequestTypeOK

\* Nothing is booked before the handler of /recommend is reached.
LEMMA NotBooked ==
    ASSUME RequestTypeOK, OnItsWay, NEW r \in Requests, stage[r] = "routing"
    PROVE  booked[r] = 0
  BY DEF OnItsWay, BookingOK

\* An answer that is decided has not been logged or booked before.
LEMMA AnswersKeep ==
    ASSUME TypeOK, OnItsWay, NEW r \in Requests,
           NotFound(r) \/ Refused(r) \/ Modules(r) \/ Served(r) \/ Recommended(r)
    PROVE  RequestTypeOK' /\ OnItsWay'
  <1>1. StartupTypeOK /\ RequestTypeOK
    BY TypeParts
  <1>2. call[r] \in CallRecords
    BY <1>1, CallsAssumption DEF RequestTypeOK
  <1>3. ASSUME NotFound(r) PROVE RequestTypeOK' /\ OnItsWay'
    <2>1. proc[worker[r]].version \in Nat
      <3>1. worker[r] \in Workers
        BY <1>3 DEF NotFound, OnItsWay, ContextOK, InProgress
      <3>2. QED
        BY <1>1, <3>1 DEF StartupTypeOK, Processes
    <2>2. QED
      BY <1>1, <1>3, <2>1, NotBooked, RespondKeeps DEF NotFound
  <1>4. ASSUME Refused(r) PROVE RequestTypeOK' /\ OnItsWay'
    <2>1. StatusOf[call[r].access] \in Nat /\ StatusOf[call[r].access] # 200
      BY <1>2, <1>4 DEF Refused, StatusOf, CallRecords
    <2>2. QED
      BY <1>1, <1>4, <2>1, NotBooked, RespondKeeps DEF Refused
  <1>5. ASSUME Modules(r) PROVE RequestTypeOK' /\ OnItsWay'
    <2>1. file \in Seq(STRING) /\ edits \in Nat
      BY <1>1, <1>5, StartupAssumption DEF StartupTypeOK, Modules
    <2>2. Listed(file) \in SUBSET STRING
      BY <2>1 DEF Listed
    <2>3. /\ stage[r] = "routing" /\ call[r].path = "modules"
          /\ Respond(r, 200, Listed(file), edits) /\ UNCHANGED booked
      BY <1>5 DEF Modules, Reaches
    <2>4. booked[r] = 0
      BY <1>1, <2>3, NotBooked
    <2>5. booked[r] = 1 <=> call[r].path = "recommend" /\ 200 = 200
      BY <2>3, <2>4
    <2>6. stage[r] \in {"routing", "booked"} /\ 200 \in Nat /\ edits \in Nat
      BY <2>1, <2>3
    <2>7. Respond(r, 200, Listed(file), edits) /\ UNCHANGED booked
      BY <2>3
    <2>8. QED
      BY <1>1, <2>2, <2>5, <2>6, <2>7, RespondKeeps, SMTT(30)
  <1>6. ASSUME Served(r) PROVE RequestTypeOK' /\ OnItsWay'
    BY <1>1, <1>6, NotBooked, RespondKeeps DEF Served, Reaches
  <1>7. ASSUME Recommended(r) PROVE RequestTypeOK' /\ OnItsWay'
    <2>1. booked[r] = 1 /\ call[r].path = "recommend"
      BY <1>7 DEF Recommended, OnItsWay, BookingOK
    <2>2. QED
      BY <1>1, <1>7, <2>1, RespondKeeps DEF Recommended
  <1>8. QED
    BY <1>3, <1>4, <1>5, <1>6, <1>7

\* Before the answer: a line of a handler or of the pool, a booking, an exception.
LEMMA WorkKeeps ==
    ASSUME RequestTypeOK, OnItsWay, NEW r \in Requests,
           HandlerLogs(r) \/ PoolLogs(r) \/ Book(r) \/ Raise(r)
    PROVE  RequestTypeOK' /\ OnItsWay'
  <1>1. ContextOK(r) /\ AnswerOK(r) /\ LogOK(r) /\ BookingOK(r)
    BY DEF OnItsWay
  <1>2. stage[r] = "routing" /\ booked[r] = 0
    BY <1>1 DEF HandlerLogs, PoolLogs, Book, Raise, Reaches, BookingOK
  <1>3. rows' = rows => RowsFollow(r)
    BY <1>2, NoRowYet, RowsStay
  <1>4. ASSUME HandlerLogs(r) \/ PoolLogs(r) PROVE RequestTypeOK' /\ OnItsWay'
    <2>1. PICK line \in {Line(r, r, "handler", 0), Line(r, NoId, "pool", 0)} :
              lines' = lines \union {line}
      BY <1>1, <1>2, <1>4 DEF HandlerLogs, PoolLogs, ContextOK, InProgress
    <2>2. line \in LineRecords /\ LineOK(line)
      BY DEF Line, LineRecords, Ids, LineOK
    <2>3. UNCHANGED <<startup, call, stage, worker, var, answer, rows, booked>>
      BY <1>4 DEF HandlerLogs, PoolLogs
    <2>4. RequestTypeOK'
      BY <2>1, <2>2, <2>3 DEF RequestTypeOK
    <2>5. (ContextOK(r) /\ AnswerOK(r) /\ LogOK(r) /\ BookingOK(r))'
      BY <1>1, <2>1, <2>3 DEF ContextOK, AnswerOK, LogOK, BookingOK, Skipped
    <2>6. QED
      BY <1>3, <2>1, <2>2, <2>3, <2>4, <2>5, OneMoves
  <1>5. ASSUME Book(r) PROVE RequestTypeOK' /\ OnItsWay'
    <2>1. RequestTypeOK'
      BY <1>5 DEF Book, RequestTypeOK, InProgress
    <2>2. booked'[r] = 1
      BY <1>2, <1>5 DEF Book, RequestTypeOK
    <2>3. (ContextOK(r) /\ AnswerOK(r) /\ LogOK(r) /\ BookingOK(r))'
      BY <1>1, <1>2, <1>5, <2>2
         DEF Book, Reaches, RequestTypeOK, ContextOK, AnswerOK, LogOK, BookingOK, InProgress
    <2>4. QED
      BY <1>3, <1>5, <2>1, <2>3, OneMoves DEF Book, RequestTypeOK
  <1>6. ASSUME Raise(r) PROVE RequestTypeOK' /\ OnItsWay'
    <2>1. RequestTypeOK'
      BY <1>6 DEF Raise, RequestTypeOK, InProgress
    <2>2. (ContextOK(r) /\ AnswerOK(r) /\ LogOK(r) /\ BookingOK(r))'
      BY <1>1, <1>2, <1>6
         DEF Raise, RequestTypeOK, ContextOK, AnswerOK, LogOK, BookingOK, InProgress
    <2>3. QED
      BY <1>3, <1>6, <2>1, <2>2, OneMoves DEF Raise, RequestTypeOK
  <1>7. QED
    BY <1>4, <1>5, <1>6

\* The line and the row are written from what the client is then sent.
LEMMA LogKeeps ==
    ASSUME RequestTypeOK, OnItsWay, NEW r \in Requests, NEW inserted \in BOOLEAN, Log(r, inserted)
    PROVE  RequestTypeOK' /\ OnItsWay'
  <1> DEFINE line == Line(r, r, "request", answer[r].status)
             row  == [req |-> r, status |-> answer[r].status]
  <1>1. ContextOK(r) /\ AnswerOK(r) /\ LogOK(r) /\ BookingOK(r)
    BY DEF OnItsWay
  <1>2. stage[r] = "handled" /\ var[r].outer = r
    BY <1>1 DEF Log, ContextOK, InProgress
  <1>3. answer[r].status \in Nat
    BY DEF RequestTypeOK, AnswerRecords
  <1>4. line \in LineRecords /\ row \in RowRecords /\ LineOK(line)
    BY <1>3 DEF Line, LineRecords, RowRecords, Ids, LineOK
  <1>5. /\ lines' \in {lines, lines \union {line}} /\ (Skipped(r) \/ line \in lines')
        /\ rows' = rows \/ (rows' = Append(rows, row) /\ ~Skipped(r))
    BY <1>2 DEF Log, Written, AccessRow
  <1>6. RequestTypeOK'
    <2>1. rows' \in Seq(RowRecords)
      <3>1. rows \in Seq(RowRecords)
        BY DEF RequestTypeOK
      <3>2. row \in RowRecords
        BY <1>4
      <3> HIDE DEF row
      <3>3. Append(rows, row) \in Seq(RowRecords)
        BY <3>1, <3>2
      <3>4. QED
        BY <1>5, <3>1, <3>3
    <2>2. lines' \subseteq LineRecords
      BY <1>4, <1>5 DEF RequestTypeOK
    <2>3. QED
      BY <2>1, <2>2 DEF Log, Written, RequestTypeOK, InProgress
  <1>7. (ContextOK(r) /\ AnswerOK(r) /\ LogOK(r) /\ BookingOK(r))'
    BY <1>1, <1>2, <1>5
       DEF Log, Written, RequestTypeOK, ContextOK, AnswerOK, LogOK, BookingOK, Skipped, InProgress
  <1>8. \A i \in DOMAIN rows : rows[i].req # r
    BY <1>2, NoRowYet
  <1>9. RowsFollow(r)
    <2>1. CASE rows' = rows
      BY <1>8, <2>1, RowsStay
    <2>2. CASE rows' = Append(rows, row) /\ ~Skipped(r)
      <3>1. /\ DOMAIN rows' = 1..(Len(rows) + 1) /\ DOMAIN rows = 1..Len(rows)
            /\ Len(rows) \in Nat
            /\ rows'[Len(rows) + 1] = row /\ \A i \in 1..Len(rows) : rows'[i] = rows[i]
        BY <2>2, <1>4 DEF RequestTypeOK
      <3>2. /\ ~Skipped(r)' /\ stage'[r] = "logged" /\ row.status = answer'[r].status
            /\ Line(r, r, "request", row.status) \in lines'
        BY <1>5, <2>2 DEF Log, Written, RequestTypeOK, Skipped
      <3>3. row.req = r
        OBVIOUS
      <3>4. ASSUME NEW i \in DOMAIN rows', rows'[i].req = r PROVE i = Len(rows) + 1
        BY <1>8, <3>1, <3>4
      <3>5. ASSUME NEW i \in DOMAIN rows', rows'[i].req # r
            PROVE  i \in DOMAIN rows /\ rows'[i] = rows[i]
        BY <3>1, <3>3, <3>5
      <3>6. ASSUME NEW i \in DOMAIN rows', rows'[i].req = r PROVE RowOK(rows[i])'
        <4>1. rows'[i] = row
          BY <3>1, <3>4, <3>6
        <4>2. QED
          BY <3>2, <3>3, <4>1 DEF RowOK, Skipped
      <3>7. QED
        BY <3>4, <3>5, <3>6 DEF RowsFollow
    <2>3. QED
      BY <1>5, <2>1, <2>2
  <1>10. \A l \in lines' \ lines : LineOK(l)
    BY <1>4, <1>5
  <1>11. QED
    BY <1>5, <1>6, <1>7, <1>9, <1>10, OneMoves DEF Log, Written, RequestTypeOK

\* send_wrapper's id is that of its own request, whatever the context holds.
LEMMA SendKeeps ==
    ASSUME RequestTypeOK, OnItsWay, NEW r \in Requests, Send(r)
    PROVE  RequestTypeOK' /\ OnItsWay'
  <1>1. ContextOK(r) /\ AnswerOK(r) /\ LogOK(r) /\ BookingOK(r)
    BY DEF OnItsWay
  <1>2. RequestTypeOK'
    BY DEF Send, RequestTypeOK, AnswerRecords, Ids, Over
  <1>3. /\ answer'[r].status = answer[r].status /\ answer'[r].id = answer[r].id
        /\ answer'[r].header = r
    BY DEF Send, RequestTypeOK, AnswerRecords
  <1>4. (ContextOK(r) /\ AnswerOK(r) /\ LogOK(r) /\ BookingOK(r))'
    BY <1>1, <1>3
       DEF Send, RequestTypeOK, ContextOK, AnswerOK, LogOK, BookingOK, Skipped, InProgress
  <1>5. RowsFollow(r)
    <2>1. /\ rows' = rows /\ lines' = lines /\ call' = call
          /\ stage'[r] = "answered"
      BY DEF Send, RequestTypeOK
    <2>2. \A i \in DOMAIN rows : rows[i].req = r => RowOK(rows[i])'
      BY <1>3, <2>1 DEF OnItsWay, RowOK, Skipped
    <2>3. QED
      BY <2>1, <2>2 DEF RowsFollow, OnItsWay
  <1>6. QED
    BY <1>2, <1>4, <1>5, OneMoves DEF Send, RequestTypeOK

\* An exception that no handler takes ends in a 500 and one line of the log.
LEMMA UnhandledKeeps ==
    ASSUME RequestTypeOK, OnItsWay, NEW r \in Requests, Unhandled(r)
    PROVE  RequestTypeOK' /\ OnItsWay'
  <1>1. ContextOK(r) /\ AnswerOK(r) /\ LogOK(r) /\ BookingOK(r)
    BY DEF OnItsWay
  <1> DEFINE failure == [NoAnswer EXCEPT !.status = 500]
  <1>2. failure \in AnswerRecords /\ failure.status = 500
    BY DEF NoAnswer, AnswerRecords, Ids
  <1>3. Line(r, NoId, "unhandled", 0) \in LineRecords
    BY DEF Line, LineRecords, Ids
  <1>4. answer' = [answer EXCEPT ![r] = failure]
    BY DEF Unhandled
  <1>5. RequestTypeOK'
    <2>1. lines' \subseteq LineRecords /\ answer' \in [Requests -> AnswerRecords]
      BY <1>2, <1>3, <1>4 DEF Unhandled, RequestTypeOK
    <2>2. var' \in [Requests -> [outer : Ids, inner : Ids]]
      BY DEF Unhandled, RequestTypeOK, Ids
    <2>3. QED
      BY <2>1, <2>2 DEF Unhandled, RequestTypeOK, Over
  <1>6. answer'[r].status = 500
    BY <1>2, <1>4 DEF RequestTypeOK
  <1>7. (ContextOK(r) /\ AnswerOK(r) /\ LogOK(r) /\ BookingOK(r))'
    BY <1>1, <1>6
       DEF Unhandled, RequestTypeOK, ContextOK, AnswerOK, LogOK, BookingOK, InProgress
  <1>8. RowsFollow(r)
    BY NoRowYet, RowsStay DEF Unhandled
  <1>9. \A l \in lines' \ lines : LineOK(l)
    BY DEF Unhandled, Line, LineOK
  <1>10. QED
    BY <1>4, <1>5, <1>7, <1>8, <1>9, OneMoves DEF Unhandled, RequestTypeOK

\* A crash may hit many requests at a time; each is left as it was, or lost.
LEMMA CrashKeeps ==
    ASSUME RequestTypeOK, OnItsWay, NEW p \in Workers, Crash(p)
    PROVE  RequestTypeOK' /\ OnItsWay'
  <1>1. RequestTypeOK'
    BY DEF Crash, RequestTypeOK, Over
  <1>2. \A r \in Requests : stage'[r] = stage[r] \/ stage'[r] = "lost"
    BY DEF Crash, RequestTypeOK
  <1>3. ASSUME NEW r \in Requests
        PROVE  (ContextOK(r) /\ AnswerOK(r) /\ LogOK(r) /\ BookingOK(r))'
    <2>1. ContextOK(r) /\ AnswerOK(r) /\ LogOK(r) /\ BookingOK(r)
      BY DEF OnItsWay
    <2>2. CASE stage'[r] = stage[r]
      BY <2>1, <2>2 DEF Crash, ContextOK, AnswerOK, LogOK, BookingOK, Skipped
    <2>3. CASE stage'[r] = "lost"
      BY <2>1, <2>3 DEF Crash, ContextOK, AnswerOK, LogOK, BookingOK, InProgress
    <2>4. QED
      BY <1>2, <2>2, <2>3
  <1>4. UNCHANGED <<call, answer, lines, rows>>
    BY DEF Crash
  <1>5. ASSUME NEW i \in DOMAIN rows PROVE RowOK(rows[i])'
    <2>1. RowOK(rows[i]) /\ rows[i].req \in Requests
      BY <1>5, RowsAreOfRequests DEF OnItsWay
    <2>2. QED
      BY <1>2, <1>4, <2>1 DEF RowOK, Skipped
  <1>6. QED
    BY <1>1, <1>3, <1>4, <1>5 DEF OnItsWay, LineOK

-----------------------------------------------------------------------------
(***************************************************************************)
(* The invariant, and what it is for.                                      *)
(***************************************************************************)
\* Nothing has started and nothing been asked.
LEMMA InvInit == Init => IInv
  BY StartupTypeInit, UpToDateInit, RequestsInit, TypeParts DEF Init, IInv

\* Each step keeps the invariant: either a start moves or a request does.
LEMMA InvStep ==
    ASSUME IInv, [Next]_vars
    PROVE  IInv'
  <1>1. StartupTypeOK /\ RequestTypeOK /\ UpToDate /\ OnItsWay /\ TypeOK
    BY TypeParts DEF IInv
  <1>2. ASSUME StartupNext, RequestTypeOK', OnItsWay' PROVE IInv'
    <2>1. StartupTypeOK' /\ UpToDate'
      BY <1>1, <1>2, StartupTypeStep, UpToDateStep
    <2>2. TypeOK'
      BY <1>2, <2>1 DEF TypeOK, StartupTypeOK, RequestTypeOK, Ids, AnswerRecords, LineRecords, RowRecords
    <2>3. QED
      BY <1>2, <2>1, <2>2 DEF IInv
  <1>3. ASSUME UNCHANGED startup, RequestTypeOK', OnItsWay' PROVE IInv'
    <2>1. StartupTypeOK' /\ UpToDate'
      BY <1>1, <1>3 DEF startup, StartupTypeOK, UpToDate, ProcessUpToDate
    <2>2. TypeOK'
      BY <1>3, <2>1 DEF TypeOK, StartupTypeOK, RequestTypeOK, Ids, AnswerRecords, LineRecords, RowRecords
    <2>3. QED
      BY <1>3, <2>1, <2>2 DEF IInv
  <1>4. CASE \E p \in Processes : StartupStep(p) /\ UNCHANGED requests
    BY <1>1, <1>2, <1>4, RequestsStay DEF StartupNext
  <1>5. CASE Edit /\ UNCHANGED requests
    BY <1>1, <1>2, <1>5, RequestsStay DEF StartupNext
  <1>6. CASE \E r \in Requests, p \in Workers : Arrive(r, p)
    <2>1. UNCHANGED startup
      BY <1>6 DEF Arrive
    <2>2. QED
      BY <1>1, <1>3, <1>6, <2>1, ArriveKeeps
  <1>7. CASE \E r \in Requests : RequestStep(r)
    <2>1. UNCHANGED startup
      BY <1>7 DEF RequestStep, NotFound, Refused, Modules, Served, HandlerLogs, PoolLogs, Book,
                  Recommended, Raise, Log, Written, Send, Unhandled, Respond
    <2>2. RequestTypeOK' /\ OnItsWay'
      BY <1>1, <1>7, AnswersKeep, WorkKeeps, LogKeeps, SendKeeps, UnhandledKeeps DEF RequestStep
    <2>3. QED
      BY <1>3, <2>1, <2>2
  <1>8. CASE \E p \in Workers : Crash(p)
    BY <1>1, <1>2, <1>8, CrashKeeps DEF Crash, StartupNext
  <1>9. CASE UNCHANGED vars
    BY <1>1, <1>3, <1>9, RequestsStay DEF vars
  <1>10. QED
    BY <1>4, <1>5, <1>6, <1>7, <1>8, <1>9 DEF Next

\* So it holds for ever.
LEMMA Invariance == Spec => []IInv
  <1>1. Init => IInv
    BY InvInit
  <1>2. IInv /\ [Next]_vars => IInv'
    BY InvStep
  <1>3. QED
    BY <1>1, <1>2, PTL DEF Spec

\* In every reachable state each variable of App and Startup has its type.
THEOREM TypeCorrect == Spec => []TypeOK
  <1>1. IInv => TypeOK
    BY DEF IInv
  <1>2. QED
    BY <1>1, Invariance, PTL

\* However many processes start at once on a database of any release and die
\* half way, those that serve or seed find the whole schema.
THEOREM SchemaIsThere == Spec => []ServingFindsItsSchema
  <1>1. IInv => ServingFindsItsSchema
    BY DEF IInv, UpToDate, ProcessUpToDate, ServingFindsItsSchema
  <1>2. QED
    BY <1>1, Invariance, PTL

\* With any number of processes, a start dies of a duplicate column only if it
\* began before the column was there.
THEOREM RaceEnds == Spec => []MigrationRaceEnds
  <1>1. IInv => MigrationRaceEnds
    BY DEF IInv, UpToDate, ProcessUpToDate, MigrationRaceEnds
  <1>2. QED
    BY <1>1, Invariance, PTL

\* However requests overlap, a handled answer's header, envelope and "request"
\* line carry the id of that request, and no line carries another's.
THEOREM Traceability == Spec => []AnswersAreTraceable
  <1>1. IInv => AnswersAreTraceable
    BY DEF IInv, OnItsWay, AnswerOK, LogOK, LineOK, AnswersAreTraceable
  <1>2. QED
    BY <1>1, Invariance, PTL

\* The access log has no two rows for a request, tells what the client was told,
\* and what it lacks of a request that is over the log has.
THEOREM AccessLogIsTrue == Spec => []AccessLogAgreesWithAnswers
  <1>1. ASSUME IInv PROVE AccessLogAgreesWithAnswers
    <2>1. \A i \in DOMAIN rows : RowOK(rows[i])
      BY <1>1 DEF IInv, OnItsWay
    <2>2. \A i, j \in DOMAIN rows : rows[i].req = rows[j].req => i = j
      BY <1>1 DEF IInv, OnItsWay
    <2>3. \A i \in DOMAIN rows : \E l \in lines :
              l.req = rows[i].req /\ l.event = "request" /\ l.status = rows[i].status
      BY <2>1 DEF RowOK, Line
    <2>4. ASSUME NEW r \in Requests, stage[r] \in {"answered", "failed"}, ~Skipped(r)
          PROVE  \E l \in lines : l.req = r /\ l.event \in {"request", "unhandled"}
      <3>1. LogOK(r)
        BY <1>1 DEF IInv, OnItsWay
      <3>2. QED
        BY <2>4, <3>1 DEF LogOK, Line
    <2>5. QED
      BY <2>1, <2>2, <2>3, <2>4 DEF AccessLogAgreesWithAnswers, RowOK
  <1>2. QED
    BY <1>1, Invariance, PTL

\* Only a crash keeps an answer that a route has made from its client.
THEOREM LoggingIsHarmless == Spec => []LoggingKillsNoRequest
  <1>1. ASSUME IInv PROVE LoggingKillsNoRequest
    <2>1. \A r \in Requests : AnswerOK(r) /\ stage[r] \in {"idle"} \union InProgress \union Over
      BY <1>1 DEF IInv, OnItsWay, TypeOK
    <2>2. QED
      BY <2>1 DEF AnswerOK, LoggingKillsNoRequest, InProgress, Over
  <1>2. QED
    BY <1>1, Invariance, PTL

\* A recommendation that reached its client is booked once, and one that ended
\* otherwise, short of a crash, is not.
THEOREM Booking == Spec => []BookedOnce
  <1>1. ASSUME IInv PROVE BookedOnce
    <2>1. \A r \in Requests : AnswerOK(r) /\ BookingOK(r)
      BY <1>1 DEF IInv, OnItsWay
    <2>2. QED
      BY <2>1 DEF AnswerOK, BookingOK, BookedOnce
  <1>2. QED
    BY <1>1, Invariance, PTL

-----------------------------------------------------------------------------
(***************************************************************************)
(* The versions of the configuration file.                                 *)
(***************************************************************************)
\* f[v] is what the file held after the v-th edit.  A process that serves has
\* mounted what one version lists; a 404 tells what such a process lacks, and
\* a list of modules what a version lists.
Explains(f) ==
    /\ f[edits] = file
    /\ \A p \in Processes : proc[p].at = "serving" =>
          proc[p].version <= edits /\ proc[p].mounted = Mountable(f[proc[p].version])
    /\ \A r \in Requests : answer[r].status = 404 =>
          /\ answer[r].version <= edits
          /\ call[r].path \in Known \ Mountable(f[answer[r].version])
    /\ \A r \in Requests : answer[r].shown # {} =>
          /\ answer[r].version <= edits
          /\ answer[r].shown \subseteq Listed(f[answer[r].version])

Histories == [0..edits -> Files \union {Torn}]

\* The process of a request in progress serves, and goes on as it was mounted.
Attended == \A r \in Requests : stage[r] \in InProgress => proc[worker[r]].at = "serving"

Consistent == Attended /\ \E f \in Histories : Explains(f)

\* The file has its first content, and nobody has read it.
LEMMA ConsistentInit == Init => Consistent
  <1> SUFFICES ASSUME Init PROVE Consistent
    OBVIOUS
  <1>1. Attended
    BY DEF Init, Attended, InProgress
  <1> DEFINE f == [v \in 0..0 |-> file]
  <1>2. f \in Histories
    BY DEF Init, StartupInit, Histories
  <1>3. \A p \in Processes : proc[p].at = "down"
    BY DEF Init, StartupInit, Down
  <1>4. \A r \in Requests : answer[r].status = 0 /\ answer[r].shown = {}
    BY DEF Init, NoAnswer
  <1>5. f[edits] = file
    BY DEF Init, StartupInit
  <1>6. Explains(f)
    BY <1>3, <1>4, <1>5 DEF Explains
  <1>. QED
    BY <1>1, <1>2, <1>6 DEF Consistent

\* A start reads the file as it is now; the processes that serve stay as they are.
LEMMA StartKeepsVersions ==
    ASSUME TypeOK, OnItsWay, Consistent, NEW p \in Processes, StartupStep(p), UNCHANGED requests
    PROVE  Consistent'
  <1>1. proc[p].at # "serving" /\ file' = file /\ edits' = edits
    BY DEF StartupStep, Start, Create, Look, Alter, Mount, InsertKey, Fail
  <1>2. \A q \in Processes : q # p => proc'[q] = proc[q]
    BY DEF StartupStep, Start, Create, Look, Alter, Mount, InsertKey, Fail, TypeOK, StartupTypeOK
  <1>3. proc'[p].at = "serving" => proc'[p].version = edits /\ proc'[p].mounted = Mountable(file)
    <2>0. Down.at = "down" /\ [Down EXCEPT !.at = "schema", !.began = column].at = "schema"
      BY DEF Down
    <2>1. CASE Start(p) \/ Look(p) \/ InsertKey(p) \/ Fail(p)
      BY <2>0, <2>1 DEF Start, Look, AfterInit, InsertKey, Fail, TypeOK, StartupTypeOK
    <2>2. CASE Create(p)
      BY <2>2 DEF Create, TypeOK, StartupTypeOK
    <2>3. CASE Alter(p)
      BY <2>3 DEF Alter, AfterInit, Down, TypeOK, StartupTypeOK
    <2>4. CASE Mount(p)
      BY <2>4 DEF Mount, Down, TypeOK, StartupTypeOK
    <2>. QED
      BY <2>1, <2>2, <2>3, <2>4 DEF StartupStep
  <1>4. edits \in Nat
    BY DEF TypeOK, StartupTypeOK
  <1>5. Attended'
    <2> SUFFICES ASSUME NEW r \in Requests, stage[r] \in InProgress
                 PROVE  proc'[worker[r]].at = "serving"
      BY DEF Attended, requests
    <2>1. worker[r] \in Processes /\ proc[worker[r]].at = "serving"
      BY DEF OnItsWay, ContextOK, Consistent, Attended, Processes
    <2>. QED BY <1>1, <1>2, <2>1
  <1>6. PICK f \in Histories : Explains(f)
    BY DEF Consistent
  <1>7. Explains(f)'
    BY <1>1, <1>2, <1>3, <1>4, <1>6 DEF Explains, requests
  <1>. QED
    BY <1>1, <1>5, <1>6, <1>7 DEF Consistent, Histories

\* An edit adds a version; what was made of earlier ones stands.
LEMMA EditKeepsVersions ==
    ASSUME TypeOK, Consistent, Edit, UNCHANGED requests
    PROVE  Consistent'
  <1>1. /\ edits \in Nat /\ edits' = edits + 1 /\ file' \in Files \union {Torn}
        /\ proc' = proc /\ UNCHANGED requests
        /\ \A p \in Processes : proc[p].version \in Nat
        /\ \A r \in Requests : answer[r].version \in Nat
    BY DEF TypeOK, StartupTypeOK, Edit
  <1>2. PICK f \in Histories : Explains(f)
    BY DEF Consistent
  <1>3. PICK g \in [0..(edits + 1) -> Files \union {Torn}] :
            g[edits + 1] = file' /\ \A v \in 0..edits : g[v] = f[v]
    <2> DEFINE h == [v \in 0..(edits + 1) |-> IF v = edits + 1 THEN file' ELSE f[v]]
    <2>1. /\ h \in [0..(edits + 1) -> Files \union {Torn}] /\ h[edits + 1] = file'
          /\ \A v \in 0..edits : h[v] = f[v]
      BY <1>1, <1>2 DEF Histories
    <2>. QED BY <2>1
  <1>4. \A p \in Processes : proc[p].at = "serving" =>
            proc[p].version <= edits + 1 /\ proc[p].mounted = Mountable(g[proc[p].version])
    BY <1>1, <1>2, <1>3 DEF Explains
  <1>5. \A r \in Requests : answer[r].status = 404 =>
            /\ answer[r].version <= edits + 1
            /\ call[r].path \in Known \ Mountable(g[answer[r].version])
    BY <1>1, <1>2, <1>3 DEF Explains
  <1>6. \A r \in Requests : answer[r].shown # {} =>
            /\ answer[r].version <= edits + 1
            /\ answer[r].shown \subseteq Listed(g[answer[r].version])
    BY <1>1, <1>2, <1>3 DEF Explains
  <1>7. Explains(g)'
    BY <1>1, <1>3, <1>4, <1>5, <1>6 DEF Explains, requests
  <1>8. g \in Histories'
    BY <1>1, <1>3 DEF Histories
  <1>9. Attended'
    BY <1>1 DEF Consistent, Attended, requests
  <1>. QED
    BY <1>7, <1>8, <1>9 DEF Consistent

\* A request that arrives finds its process serving.
LEMMA ArriveKeepsVersions ==
    ASSUME TypeOK, Consistent, NEW r \in Requests, NEW p \in Workers, Arrive(r, p)
    PROVE  Consistent'
  <1>1. /\ UNCHANGED <<startup, call, answer>> /\ proc[p].at = "serving"
        /\ worker'[r] = p
        /\ \A q \in Requests : q # r => stage'[q] = stage[q] /\ worker'[q] = worker[q]
    BY DEF Arrive, TypeOK
  <1>2. Attended'
    BY <1>1 DEF Consistent, Attended, startup
  <1>3. PICK f \in Histories : Explains(f)
    BY DEF Consistent
  <1>4. Explains(f)' /\ f \in Histories'
    BY <1>1, <1>3 DEF Explains, Histories, startup
  <1>. QED
    BY <1>2, <1>4 DEF Consistent

\* A 404 tells what its process lacks, the list of modules what the file lists.
LEMMA RequestKeepsVersions ==
    ASSUME TypeOK, OnItsWay, Consistent, NEW r \in Requests, RequestStep(r)
    PROVE  Consistent'
  <1>1. /\ UNCHANGED <<startup, call, worker>>
        /\ stage[r] \in InProgress
        /\ \A q \in Requests : q # r => stage'[q] = stage[q] /\ answer'[q] = answer[q]
    BY DEF RequestStep, NotFound, Refused, Modules, Served, HandlerLogs, PoolLogs, Book,
           Recommended, Raise, Reaches, Respond, Log, Written, Send, Unhandled, TypeOK, InProgress
  <1>2. worker[r] \in Workers /\ proc[worker[r]].at = "serving"
    BY <1>1 DEF OnItsWay, ContextOK, Consistent, Attended
  <1>3. Attended'
    BY <1>1, <1>2 DEF Consistent, Attended, startup
  <1>4. PICK f \in Histories : Explains(f)
    BY DEF Consistent
  <1>5. edits \in Nat /\ worker[r] \in Processes /\ call[r] \in CallRecords
    BY <1>2, CallsAssumption DEF TypeOK, StartupTypeOK, Processes
  <1> DEFINE Good(a) ==
                /\ a.status = 404 => /\ a.version <= edits
                                     /\ call[r].path \in Known \ Mountable(f[a.version])
                /\ a.shown # {} => /\ a.version <= edits
                                   /\ a.shown \subseteq Listed(f[a.version])
  <1>6. Good(answer[r])
    BY <1>4 DEF Explains
  <1>7. Good(answer'[r])
    <2>1. ASSUME NEW status, NEW shown, NEW version, Respond(r, status, shown, version)
          PROVE  /\ answer'[r].status = status /\ answer'[r].shown = shown
                 /\ answer'[r].version = version
      BY <2>1 DEF Respond, TypeOK
    <2>2. CASE NotFound(r)
      <3>1. call[r].path \in Known \ proc[worker[r]].mounted
        BY <2>2 DEF NotFound, Routed, IsModule
      <3>2. /\ proc[worker[r]].version <= edits
            /\ proc[worker[r]].mounted = Mountable(f[proc[worker[r]].version])
        BY <1>2, <1>4, <1>5 DEF Explains
      <3>. QED BY <2>1, <2>2, <3>1, <3>2 DEF NotFound
    <2>3. CASE Refused(r)
      <3>1. StatusOf[call[r].access] # 404
        BY <1>5, <2>3 DEF Refused, StatusOf, CallRecords
      <3>. QED BY <2>1, <2>3, <3>1 DEF Refused
    <2>4. CASE Modules(r)
      BY <1>4, <1>5, <2>1, <2>4 DEF Modules, Explains
    <2>5. CASE Served(r) \/ Recommended(r)
      BY <2>1, <2>5 DEF Served, Recommended
    <2>6. CASE \/ HandlerLogs(r) \/ PoolLogs(r) \/ Book(r) \/ Raise(r)
               \/ \E inserted \in BOOLEAN : Log(r, inserted)
      BY <1>6, <2>6 DEF HandlerLogs, PoolLogs, Book, Raise, Log, Written
    <2>7. CASE Send(r)
      <3>1. /\ answer'[r].status = answer[r].status /\ answer'[r].shown = answer[r].shown
            /\ answer'[r].version = answer[r].version
        BY <2>7 DEF Send, TypeOK
      <3>. QED BY <1>6, <3>1
    <2>8. CASE Unhandled(r)
      <3>1. [NoAnswer EXCEPT !.status = 500].status = 500
            /\ [NoAnswer EXCEPT !.status = 500].shown = {}
        BY DEF NoAnswer
      <3>2. answer'[r].status = 500 /\ answer'[r].shown = {}
        BY <2>8, <3>1 DEF Unhandled, TypeOK
      <3>. QED BY <3>2
    <2>. QED
      BY <2>2, <2>3, <2>4, <2>5, <2>6, <2>7, <2>8 DEF RequestStep
  <1>8. Explains(f)' /\ f \in Histories'
    BY <1>1, <1>4, <1>7 DEF Explains, Histories, startup
  <1>. QED
    BY <1>3, <1>8 DEF Consistent

\* With the process its requests are gone; their answers are what they were.
LEMMA CrashKeepsVersions ==
    ASSUME TypeOK, OnItsWay, Consistent, NEW p \in Workers, Crash(p)
    PROVE  Consistent'
  <1>1. /\ UNCHANGED <<file, edits, call, worker, answer>> /\ p \in Processes
        /\ \A q \in Processes : q # p => proc'[q] = proc[q]
        /\ proc'[p].at = "down"
    BY DEF Crash, Die, Down, TypeOK, StartupTypeOK, Processes
  <1>2. \A r \in Requests : stage'[r] \in InProgress => stage[r] \in InProgress /\ worker[r] # p
    BY DEF Crash, TypeOK, InProgress
  <1>3. Attended'
    BY <1>1, <1>2 DEF Consistent, Attended, OnItsWay, ContextOK, Processes
  <1>4. PICK f \in Histories : Explains(f)
    BY DEF Consistent
  <1>5. Explains(f)' /\ f \in Histories'
    BY <1>1, <1>4 DEF Explains, Histories
  <1>. QED
    BY <1>3, <1>5 DEF Consistent

\* Whatever happens, one history of the file explains all of it.
LEMMA ConsistentStep == IInv /\ Consistent /\ [Next]_vars => Consistent'
  <1> SUFFICES ASSUME IInv, Consistent, [Next]_vars PROVE Consistent'
    OBVIOUS
  <1>1. TypeOK /\ OnItsWay
    BY DEF IInv
  <1>2. CASE UNCHANGED vars
    BY <1>2 DEF vars, startup, requests, Consistent, Attended, Histories, Explains
  <1>. QED
    BY <1>1, <1>2, StartKeepsVersions, EditKeepsVersions, ArriveKeepsVersions,
       RequestKeepsVersions, CrashKeepsVersions DEF Next

\* An item of the menu that leads nowhere has been edited in or out between the
\* start of the process that was asked and the answer it was shown in, for any
\* number of processes, restarts and edits.
THEOREM MenuIsTrue == Spec => []MenuLeadsToRoutes
  <1>1. IInv /\ Consistent => MenuLeadsToRoutes
    <2> SUFFICES ASSUME Consistent, NEW r \in Requests, NEW s \in Requests,
                        call[r].path \in answer[s].shown, answer[r].status = 404,
                        answer[r].version = answer[s].version
                 PROVE  FALSE
      BY DEF MenuLeadsToRoutes
    <2>1. PICK f \in Histories : Explains(f)
      BY DEF Consistent
    <2>. QED BY <2>1 DEF Explains, Mountable
  <1>2. Spec => []Consistent
    BY ConsistentInit, ConsistentStep, Invariance, PTL DEF Spec
  <1>. QED
    BY <1>1, <1>2, Invariance, PTL
=============================================================================

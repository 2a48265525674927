------------------------------ MODULE History ------------------------------
(***************************************************************************)
(* The history of console tests: table test_runs (core/test_runs.py), its  *)
(* routes under /ocr/test/history, and the history sections of several     *)
(* browsers (web/app.js), which act on lists that may be out of date.      *)
(*                                                                         *)
(* The table is modelled as SQLite keeps it: the id of a new row comes     *)
(* from AUTOINCREMENT's own record of the largest id ever given.  Each     *)
(* request is served in one transaction; the answers to one browser's      *)
(* requests may arrive in any order.                                       *)
(***************************************************************************)
EXTENDS Integers, FiniteSets, FiniteSetsExt

CONSTANTS
    Browsers,
    Limit,          \* test_runs.recent's limit
    MaxRuns,        \* bound: test runs that are recorded
    MaxRequests     \* bound: requests in progress

ASSUME HistoryAssumption == Limit \in Nat \ {0} /\ MaxRuns \in Nat /\ MaxRequests \in Nat

VARIABLES
    table,          \* test_runs: id -> the run it holds
    largest,        \* sqlite_sequence
    recorded,       \* auxiliary: how many runs have been recorded; names them
    view,           \* view[b]: histRuns, the list on screen: id -> run
    detail,         \* detail[b]: the run in #hist-detail, or None
    traffic,        \* traffic[b]: requests of b, unanswered or answered
    reported        \* auxiliary: rows that the answers to deletes have counted

vars == <<table, largest, recorded, view, detail, traffic, reported>>

None == 0
EmptyList == [id \in {} |-> None]

Restricted(f, S) == [id \in S |-> f[id]]

-----------------------------------------------------------------------------
(***************************************************************************)
(* test_runs.py.                                                           *)
(***************************************************************************)
\* Mistake: INTEGER PRIMARY KEY alone; a deleted last id is given again.
RecordReusing ==
    /\ recorded < MaxRuns
    /\ recorded' = recorded + 1
    /\ LET id == Max(DOMAIN table \union {0}) + 1 IN
       table' = [i \in DOMAIN table \union {id} |->
                    IF i = id THEN recorded + 1 ELSE table[i]]
    /\ UNCHANGED <<largest, view, detail, traffic, reported>>

\* record, called by POST /ocr/test of any console.
Record ==
    /\ recorded < MaxRuns
    /\ recorded' = recorded + 1
    /\ largest' = largest + 1
    /\ table' = [i \in DOMAIN table \union {largest + 1} |->
                    IF i = largest + 1 THEN recorded + 1 ELSE table[i]]
    /\ UNCHANGED <<view, detail, traffic, reported>>

\* ORDER BY id DESC LIMIT ?
Recent ==
    Restricted(table, {i \in DOMAIN table :
                          Cardinality({j \in DOMAIN table : j > i}) < Limit})

\* Mistake: the ids asked for are counted, not the rows that went.
DeletedAsked(ids) == Cardinality(ids)

Deleted(ids) == Cardinality(ids \intersect DOMAIN table)

\* get; a run that is gone is None, and a 404 for the client.
ServedRun(id) == IF id \in DOMAIN table THEN table[id] ELSE None

-----------------------------------------------------------------------------
(***************************************************************************)
(* What a browser asks for.  seen is auxiliary: what the list showed when  *)
(* the user clicked.  Bound: of equal requests of one browser there is one *)
(* at a time.                                                              *)
(***************************************************************************)
Send(b, q) ==
    /\ MapThenSumSet(LAMBDA c : Cardinality(traffic[c]), Browsers) < MaxRequests
    /\ q \notin traffic[b]
    /\ traffic' = [traffic EXCEPT ![b] = @ \union {q}]
    /\ UNCHANGED <<table, largest, recorded, view, detail, reported>>

AskList(b) == Send(b, [kind |-> "list"])

ClickRow(b, id) ==
    /\ id \in DOMAIN view[b]
    /\ Send(b, [kind |-> "detail", id |-> id, seen |-> view[b][id]])

\* One row, or those that are ticked.
ClickDelete(b, ids) ==
    /\ ids # {} /\ ids \subseteq DOMAIN view[b]
    /\ Send(b, [kind |-> "delete", ids |-> ids, seen |-> Restricted(view[b], ids)])

-----------------------------------------------------------------------------
(***************************************************************************)
(* The routes.                                                             *)
(***************************************************************************)
Replace(b, q, answer) == [traffic EXCEPT ![b] = (@ \ {q}) \union {answer}]

ServeList(b, q) ==
    /\ q \in traffic[b] /\ q.kind = "list"
    /\ traffic' = Replace(b, q, [kind |-> "listed", runs |-> Recent])
    /\ UNCHANGED <<table, largest, recorded, view, detail, reported>>

ServeDetail(b, q) ==
    /\ q \in traffic[b] /\ q.kind = "detail"
    /\ traffic' = Replace(b, q, [kind |-> "detailed", id |-> q.id, seen |-> q.seen,
                                  run |-> ServedRun(q.id)])
    /\ UNCHANGED <<table, largest, recorded, view, detail, reported>>

ServeDelete(b, q) ==
    /\ q \in traffic[b] /\ q.kind = "delete"
    /\ table' = Restricted(table, DOMAIN table \ q.ids)
    /\ reported' = reported + Deleted(q.ids)
    /\ traffic' = Replace(b, q, [kind |-> "deleted"])
    /\ UNCHANGED <<largest, recorded, view, detail>>

-----------------------------------------------------------------------------
(***************************************************************************)
(* The answers, as they arrive in the browser.                             *)
(***************************************************************************)
Drop(b, q) == [traffic EXCEPT ![b] = @ \ {q}]

ListArrives(b, q) ==
    /\ q \in traffic[b] /\ q.kind = "listed"
    /\ view' = [view EXCEPT ![b] = q.runs]
    /\ detail' = [detail EXCEPT ![b] = None]
    /\ traffic' = Drop(b, q)
    /\ UNCHANGED <<table, largest, recorded, reported>>

\* api() throws on a 404, and the old detail stays.
DetailArrives(b, q) ==
    /\ q \in traffic[b] /\ q.kind = "detailed"
    /\ detail' = IF q.run = None THEN detail ELSE [detail EXCEPT ![b] = q.run]
    /\ traffic' = Drop(b, q)
    /\ UNCHANGED <<table, largest, recorded, view, reported>>

\* The list is asked for again.
DeleteArrives(b, q) ==
    /\ q \in traffic[b] /\ q.kind = "deleted"
    /\ traffic' = Replace(b, q, [kind |-> "list"])
    /\ UNCHANGED <<table, largest, recorded, view, detail, reported>>

\* The request or its answer is lost, or the server refuses it: a message.
Fails(b, q) ==
    /\ q \in traffic[b]
    /\ traffic' = Drop(b, q)
    /\ UNCHANGED <<table, largest, recorded, view, detail, reported>>

-----------------------------------------------------------------------------
Init ==
    /\ table = EmptyList
    /\ largest = 0 /\ recorded = 0
    /\ view = [b \in Browsers |-> EmptyList]
    /\ detail = [b \in Browsers |-> None]
    /\ traffic = [b \in Browsers |-> {}]
    /\ reported = 0

Serve(b, q) == ServeList(b, q) \/ ServeDetail(b, q) \/ ServeDelete(b, q)
Arrive(b, q) == ListArrives(b, q) \/ DetailArrives(b, q) \/ DeleteArrives(b, q)

Next ==
    \/ Record
    \/ \E b \in Browsers :
          \/ AskList(b)
          \/ \E id \in DOMAIN view[b] : ClickRow(b, id)
          \/ \E ids \in SUBSET DOMAIN view[b] : ClickDelete(b, ids)
          \/ \E q \in traffic[b] : Serve(b, q) \/ Arrive(b, q) \/ Fails(b, q)

Spec == Init /\ [][Next]_vars

-----------------------------------------------------------------------------
(***************************************************************************)
(* Properties.                                                             *)
(***************************************************************************)

\* A delete takes away only runs that were on the user's screen under the ids
\* that he ticked, however old the list is and whatever others have recorded
\* and deleted since.
DeletesHitWhatWasSeen ==
    [][ \A id \in DOMAIN table : id \notin DOMAIN table' =>
          \E b \in Browsers : \E q \in traffic[b] \ traffic'[b] :
              q.kind = "delete" /\ id \in q.ids /\ q.seen[id] = table[id] ]_vars

\* The detail that appears is that of a run whose row was clicked, though the
\* row may be gone by then, or the browser may have clicked another since.
DetailsAreOfRowsClicked ==
    [][ \A b \in Browsers : detail'[b] \notin {detail[b], None} =>
          \E q \in traffic[b] \ traffic'[b] :
              q.kind = "detailed" /\ q.seen = detail'[b] ]_vars

\* Deletes that overlap are counted once: what all of them report is what is
\* missing from the table.
DeletesAreCountedOnce == reported = recorded - Cardinality(DOMAIN table)
=============================================================================

---------------------------- MODULE OcrContract ----------------------------
(***************************************************************************)
(* What the OCR service promises a client, with the machinery left out.    *)
(*                                                                         *)
(* A request is a bundle of pages, each page belonging to one of the       *)
(* request's files.  Pages are judged one at a time, in any order, and a   *)
(* judgement stands.  Only when the whole bundle has been judged are its   *)
(* files billed, in the order they were uploaded, each for the pages of    *)
(* it that succeeded.  Only a bundle billed in full is answered.  At any   *)
(* moment a request may be given up (an error, a crash), and what has been *)
(* billed by then stays billed.                                            *)
(*                                                                         *)
(* Retries, worker threads, classification, PDF rendering, the ledger      *)
(* table shared by all requests and the history of test runs are the       *)
(* business of OcrService, which implements this module.                   *)
(***************************************************************************)
EXTENDS Naturals, Sequences, FiniteSets

CONSTANT Requests   \* the requests that may ever be made

VARIABLES
    verdict,        \* verdict[r][p]: "pending", "ok" or "failed", p = <<file, page>>
    bill,           \* bill[r]: one entry per billed file, in upload order
    outcome         \* outcome[r]: "open", "refused", "answered" or "given_up"

vars == <<verdict, bill, outcome>>

Verdicts == {"pending", "ok", "failed"}

Bundle(r)       == DOMAIN verdict[r]
FileCount(r)    == Cardinality({p[1] : p \in Bundle(r)})
InFile(r, f)    == {p \in Bundle(r) : p[1] = f}
Good(r, f)      == {p \in InFile(r, f) : verdict[r][p] = "ok"}
Judged(r)       == \A p \in Bundle(r) : verdict[r][p] # "pending"

Init ==
    /\ \A r \in Requests : \A p \in Bundle(r) : verdict[r][p] = "pending"
    /\ bill = [r \in Requests |-> <<>>]
    /\ outcome = [r \in Requests |-> "open"]

\* Nothing has happened to the request yet, and nothing ever will.
Refuse(r) ==
    /\ outcome[r] = "open"
    /\ \A p \in Bundle(r) : verdict[r][p] = "pending"
    /\ outcome' = [outcome EXCEPT ![r] = "refused"]
    /\ UNCHANGED <<verdict, bill>>

Judge(r, p, v) ==
    /\ outcome[r] = "open"
    /\ verdict[r][p] = "pending"
    /\ verdict' = [verdict EXCEPT ![r][p] = v]
    /\ UNCHANGED <<bill, outcome>>

Bill(r) ==
    LET f == Len(bill[r]) + 1 IN
    /\ outcome[r] = "open"
    /\ Judged(r)
    /\ f <= FileCount(r)
    /\ bill' = [bill EXCEPT ![r] = Append(@,
                  [quantity |-> Cardinality(Good(r, f)),
                   ok       |-> Good(r, f) = InFile(r, f)])]
    /\ UNCHANGED <<verdict, outcome>>

Answer(r) ==
    /\ outcome[r] = "open"
    /\ Judged(r)
    /\ Len(bill[r]) = FileCount(r)
    /\ outcome' = [outcome EXCEPT ![r] = "answered"]
    /\ UNCHANGED <<verdict, bill>>

\* One request on its own (an error) or several at once (the process dies).
GiveUp(R) ==
    /\ \A r \in R : outcome[r] = "open"
    /\ outcome' = [r \in Requests |-> IF r \in R THEN "given_up" ELSE outcome[r]]
    /\ UNCHANGED <<verdict, bill>>

Next ==
    \/ \E r \in Requests : Refuse(r) \/ Bill(r) \/ Answer(r)
    \/ \E r \in Requests : \E p \in Bundle(r), v \in {"ok", "failed"} : Judge(r, p, v)
    \/ \E R \in SUBSET Requests : GiveUp(R)

Spec == Init /\ [][Next]_vars
=============================================================================

-------------------------- MODULE OcrServiceProofs --------------------------
(***************************************************************************)
(* Proofs about OcrService, for every set of requests, every kind of call  *)
(* and every value of the limits: its safety, that it implements           *)
(* OcrContract, and that what is told of a request is what it has billed.  *)
(*                                                                         *)
(* The invariant the proofs go through is IInv.  OneRowPerFile and         *)
(* BilledAgreesWithPages are not inductive: that a committed row keeps     *)
(* agreeing with the pages of its file holds because no page moves once    *)
(* the request's pool is closed, and that is what StageOK and RowsStand    *)
(* add.                                                                    *)
(***************************************************************************)
EXTENDS OcrService, FiniteSetTheorems, SequenceTheorems, TLAPS

\* The pool is empty before a request is recorded, and nothing is recorded
\* before that.
StageOK ==
    \A r \in Requests :
        /\ next[r] <= Len(call[r].uploads) + 1
        /\ stage[r] \in {"idle", "refused", "pool"} => next[r] = 1
        /\ stage[r] \in {"recording", "replying", "answered", "error"} =>
              Settled(r) = Pages(r)
        /\ next[r] > 1 => Settled(r) = Pages(r)

\* A row in the ledger is what LedgerRow would write now.
RowsStand ==
    \A i \in DOMAIN ledger :
        \E r \in Requests : \E f \in Files(r) :
            f < next[r] /\ ledger[i] = LedgerRow(r, f)

\* What is proved inductive.
IInv == TypeOK /\ StageOK /\ RowsStand /\ OneRowPerFile

-----------------------------------------------------------------------------
\* What a call record holds.
LEMMA CallFacts ==
    ASSUME NEW c \in Calls
    PROVE  /\ c.uploads \in Seq(Uploads)
           /\ Len(c.uploads) \in Nat
           /\ Len(c.uploads) > 0
           /\ c.tenant \in STRING
           /\ Tenant(c) \in STRING
  <1>1. c \in CallRecords /\ Len(c.uploads) > 0
    BY CallsAssumption
  <1>2. c.uploads \in Seq(Uploads) /\ c.tenant \in STRING
    BY <1>1 DEF CallRecords
  <1>3. QED
    BY <1>1, <1>2, LimitsAssumption, MaxPagesAssumption DEF Tenant

\* _expand makes finitely many pages, and at least one of each upload.
LEMMA PagesFacts ==
    ASSUME NEW c \in Calls
    PROVE  /\ IsFiniteSet(PagesOf(c.uploads))
           /\ \A f \in 1..Len(c.uploads) : <<f, 1>> \in PagesOf(c.uploads)
           /\ \A p \in PagesOf(c.uploads) : p[1] \in 1..Len(c.uploads)
  <1>1. IsFiniteSet((1..Len(c.uploads)) \X (1..MaxPages))
    <2>1. IsFiniteSet(1..Len(c.uploads)) /\ IsFiniteSet(1..MaxPages)
      BY FS_Interval, CallFacts, LimitsAssumption, MaxPagesAssumption
    <2>2. QED
      BY <2>1, FS_Product
  <1>2. IsFiniteSet(PagesOf(c.uploads))
    BY <1>1, FS_Subset DEF PagesOf
  <1>3. ASSUME NEW f \in 1..Len(c.uploads)
        PROVE  <<f, 1>> \in PagesOf(c.uploads)
    <2>1. c.uploads[f] \in Uploads
      BY CallFacts
    <2>2. 1 <= PageCount(c.uploads[f])
      BY <2>1, LimitsAssumption, MaxPagesAssumption DEF PageCount, Uploads
    <2>3. QED
      BY <2>2, LimitsAssumption, MaxPagesAssumption DEF PagesOf
  <1>4. QED
    BY <1>2, <1>3 DEF PagesOf

\* The sets a row counts are finite, so its numbers are natural numbers.
LEMMA RowTypes ==
    ASSUME TypeOK, NEW r \in Requests
    PROVE  /\ \A f \in Files(r) : LedgerRow(r, f) \in LedgerRows
           /\ RunRow(r) \in RunRows
  <1>1. /\ call[r] \in Calls
        /\ IsFiniteSet(Pages(r))
    BY PagesFacts DEF TypeOK, Pages
  <1>2. \A S \in SUBSET Pages(r) :
            IsFiniteSet(S) /\ Cardinality(S) \in Nat /\ Cardinality(S) <= Cardinality(Pages(r))
    BY <1>1, FS_Subset, FS_CardinalityType
  <1>3. IsFiniteSet(Pages(r) \X CallKinds)
    BY <1>1, FS_Product, FS_Singleton, FS_AddElement, IsFiniteSet({"classify"}),
       CallKinds = {"classify"} \cup {"extract"} DEF CallKinds
  <1>4. ASSUME NEW f \in Files(r)
        PROVE  LedgerRow(r, f) \in LedgerRows
    <2>1. /\ FilePages(r, f) \in SUBSET Pages(r)
          /\ OkIn(r, f) \in SUBSET Pages(r)
      BY DEF FilePages, OkIn
    <2>2. UsageIn(r, f) \in SUBSET (Pages(r) \X CallKinds)
      BY DEF UsageIn, FilePages
    <2>3. Cardinality(UsageIn(r, f)) \in Nat
      BY <1>3, <2>2, FS_Subset, FS_CardinalityType
    <2>4. Tenant(call[r]) \in STRING /\ f \in Nat \ {0}
      BY <1>1, CallFacts DEF Files
    <2>5. QED
      BY <1>2, <2>1, <2>3, <2>4 DEF LedgerRow, LedgerRows
  <1>5. RunRow(r) \in RunRows
    <2>1. OkPages(r) \in SUBSET Pages(r)
      BY DEF OkPages
    <2>2. /\ Cardinality(OkPages(r)) \in Nat
          /\ Cardinality(Pages(r)) \in Nat
          /\ Cardinality(OkPages(r)) <= Cardinality(Pages(r))
      BY <1>2, <2>1
    <2>3. QED
      BY <1>1, <2>2, CallFacts DEF RunRow, RunRows
  <1>6. QED
    BY <1>4, <1>5

\* A step of a pool thread touches the job of one page, and leaves it a job.
LEMMA PageStepEffect ==
    ASSUME TypeOK, NEW r \in Requests, NEW p \in Pages(r), PageStep(r, p)
    PROVE  /\ stage[r] = "pool"
           /\ p \notin Settled(r)
           /\ UNCHANGED <<call, stage, next, ledger, runs, reply>>
           /\ \E j \in JobRecords : job' = [job EXCEPT ![r][p] = j]
           /\ DOMAIN returned' = Requests
  <1>1. job[r][p] \in JobRecords /\ job[r] \in [Pages(r) -> JobRecords]
    BY DEF TypeOK
  <1>2. FirstCall(call[r]) \in CallKinds
    BY DEF FirstCall, CallKinds
  <1>3. CASE Claim(r, p)
    <2>1. p \notin Settled(r)
      BY <1>3 DEF Claim, Settled
    <2>2. /\ [at |-> "failed", attempt |-> 0, usage |-> {}] \in JobRecords
          /\ [at |-> FirstCall(call[r]), attempt |-> 1, usage |-> {}] \in JobRecords
      BY <1>2, LimitsAssumption, MaxPagesAssumption DEF JobRecords
    <2>3. QED
      BY <1>3, <2>1, <2>2 DEF Claim, TypeOK
  <1>4. CASE \E known \in BOOLEAN : ClassifyReturns(r, p, known)
    <2>1. PICK known \in BOOLEAN : ClassifyReturns(r, p, known)
      BY <1>4
    <2>2. p \notin Settled(r)
      BY <2>1 DEF ClassifyReturns, Settled
    <2>3. [job[r][p] EXCEPT !.at = IF known THEN "extract" ELSE "ok",
                            !.usage = IF known THEN {} ELSE {"classify"}] \in JobRecords
      BY <1>1 DEF JobRecords, CallKinds
    <2>4. QED
      BY <2>1, <2>2, <2>3 DEF ClassifyReturns, TypeOK
  <1>5. CASE ExtractReturns(r, p)
    <2>1. p \notin Settled(r)
      BY <1>5 DEF ExtractReturns, Settled
    <2>2. [job[r][p] EXCEPT !.at = "ok",
                            !.usage = {FirstCall(call[r]), "extract"}] \in JobRecords
      BY <1>1, <1>2 DEF JobRecords, CallKinds
    <2>3. QED
      BY <1>5, <2>1, <2>2 DEF ExtractReturns, TypeOK
  <1>6. CASE CallRaises(r, p)
    <2>1. p \notin Settled(r)
      BY <1>6 DEF CallRaises, Settled, CallKinds
    <2>2. job[r][p].attempt <= Retry =>
            [at |-> FirstCall(call[r]), attempt |-> job[r][p].attempt + 1, usage |-> {}]
                \in JobRecords
      BY <1>1, <1>2, LimitsAssumption, MaxPagesAssumption DEF JobRecords
    <2>3. [job[r][p] EXCEPT !.at = "failed"] \in JobRecords
      BY <1>1 DEF JobRecords
    <2>4. QED
      BY <1>6, <2>1, <2>2, <2>3 DEF CallRaises, TypeOK
  <1>7. QED
    BY <1>3, <1>4, <1>5, <1>6 DEF PageStep

-----------------------------------------------------------------------------
\* Nothing is queued, written or answered before the first request.
LEMMA TypeInit == Init => TypeOK
  <1>1. SUFFICES ASSUME Init PROVE TypeOK
    OBVIOUS
  <1>2. NewJob \in JobRecords
    BY LimitsAssumption, MaxPagesAssumption DEF NewJob, JobRecords
  <1>3. QED
    BY <1>1, <1>2 DEF Init, TypeOK, Stages, Pages

\* No step of a request, of a pool thread or of a crash leaves the types.
LEMMA TypeStep == TypeOK /\ [Next]_vars => TypeOK'
  <1>1. SUFFICES ASSUME TypeOK, [Next]_vars PROVE TypeOK'
    OBVIOUS
  <1> USE DEF TypeOK, Pages
  <1>2. ASSUME NEW r \in Requests, Refuse(r) PROVE TypeOK'
    BY <1>1, <1>2 DEF Refuse, Stages
  <1>3. ASSUME NEW r \in Requests, Accept(r) PROVE TypeOK'
    BY <1>1, <1>3 DEF Accept, Stages
  <1>4. ASSUME NEW r \in Requests, NEW p \in Pages(r), PageStep(r, p) PROVE TypeOK'
    <2>1. PICK j \in JobRecords : job' = [job EXCEPT ![r][p] = j]
      BY <1>1, <1>4, PageStepEffect
    <2>2. \A q \in Requests : job'[q] \in [Pages(q) -> JobRecords]
      BY <1>1, <2>1
    <2>3. QED
      BY <1>1, <1>4, <2>1, <2>2, PageStepEffect
  <1>5. ASSUME NEW r \in Requests, PoolCloses(r) PROVE TypeOK'
    BY <1>1, <1>5 DEF PoolCloses, Stages
  <1>6. ASSUME NEW r \in Requests, AppendRow(r) PROVE TypeOK'
    <2>1. LedgerRow(r, next[r]) \in LedgerRows
      BY <1>1, <1>6, RowTypes DEF AppendRow
    <2>2. ledger' \in Seq(LedgerRows) /\ next' \in [Requests -> Nat \ {0}]
      BY <1>1, <1>6, <2>1 DEF AppendRow
    <2>3. QED
      BY <1>1, <1>6, <2>2 DEF AppendRow
  <1>7. ASSUME NEW r \in Requests, RecordRun(r) PROVE TypeOK'
    BY <1>1, <1>7, RowTypes DEF RecordRun, Stages
  <1>8. ASSUME NEW r \in Requests, WriteFails(r) PROVE TypeOK'
    BY <1>1, <1>8 DEF WriteFails, Stages
  <1>9. ASSUME NEW r \in Requests, Respond(r) PROVE TypeOK'
    BY <1>1, <1>9 DEF Respond, Stages
  <1>10. CASE Crash
    BY <1>1, <1>10 DEF Crash, Stages
  <1>11. CASE DeleteRuns
    BY <1>1, <1>11 DEF DeleteRuns
  <1>12. CASE UNCHANGED vars
    BY <1>1, <1>12 DEF vars
  <1>13. QED
    BY <1>1, <1>2, <1>3, <1>4, <1>5, <1>6, <1>7, <1>8, <1>9, <1>10, <1>11, <1>12
       DEF Next, RequestStep

\* Every reachable state is well typed: in particular every number in a ledger
\* row or a stored run is a natural number, whatever the pool did before.
THEOREM TypeCorrect == Spec => []TypeOK
  <1>1. QED
    BY TypeInit, TypeStep, PTL DEF Spec

-----------------------------------------------------------------------------
\* What a row of the ledger holds.
LEMMA RowFacts ==
    ASSUME TypeOK, NEW i \in DOMAIN ledger
    PROVE  /\ i \in 1..Len(ledger)
           /\ ledger[i] \in LedgerRows
           /\ ledger[i].req \in Requests
           /\ ledger[i].file \in Nat \ {0}
  <1>1. ledger \in Seq(LedgerRows)
    BY DEF TypeOK
  <1>2. i \in 1..Len(ledger) /\ ledger[i] \in LedgerRows
    BY <1>1
  <1>3. QED
    BY <1>2 DEF LedgerRows

\* Once a request's pages are settled nothing a row counts can change, and a
\* step that leaves call and job of a request alone leaves its rows alone.
LEMMA RowUnchanged ==
    ASSUME NEW r \in Requests, NEW f,
           call'[r] = call[r], job'[r] = job[r]
    PROVE  /\ LedgerRow(r, f)' = LedgerRow(r, f)
           /\ Settled(r)' = Settled(r)
           /\ Pages(r)' = Pages(r)
           /\ Files(r)' = Files(r)
  BY DEF LedgerRow, Settled, Pages, Files, FilePages, OkIn, UsageIn

\* The steps that neither move a page nor write a row, and advance the stage of
\* a request only where StageOK allows it.
LEMMA QuietStep ==
    ASSUME IInv, TypeOK', UNCHANGED <<call, job, next, ledger>>, StageOK'
    PROVE  IInv'
  <1>1. RowsStand'
    <2>1. \A r \in Requests : \A f : LedgerRow(r, f)' = LedgerRow(r, f) /\ Files(r)' = Files(r)
      BY RowUnchanged
    <2>2. QED
      BY <2>1 DEF IInv, RowsStand
  <1>2. OneRowPerFile'
    BY DEF IInv, OneRowPerFile, RowsOf, Files
  <1>3. QED
    BY <1>1, <1>2 DEF IInv

\* An empty ledger and requests that wait satisfy the inductive invariant.
LEMMA IInvInit == Init => IInv
  BY TypeInit, CallFacts DEF Init, IInv, StageOK, RowsStand, OneRowPerFile, RowsOf, Files, TypeOK

\* A pool thread moves a page of a request that has no row yet; the rows of the
\* others stand.
LEMMA PageStepInvariant ==
    ASSUME IInv, TypeOK', NEW r \in Requests, NEW p \in Pages(r), PageStep(r, p)
    PROVE  IInv'
  <1> USE DEF IInv
  <1>1. /\ stage[r] = "pool"
        /\ UNCHANGED <<call, stage, next, ledger>>
        /\ \A q \in Requests \ {r} : job'[q] = job[q]
    BY PageStepEffect DEF TypeOK
  <1>2. next[r] = 1
    BY <1>1 DEF StageOK
  <1>3. \A q \in Requests \ {r} : Settled(q)' = Settled(q) /\ Pages(q)' = Pages(q)
    BY <1>1, RowUnchanged
  <1>4. StageOK'
    BY <1>1, <1>2, <1>3 DEF StageOK
  <1>5. \A q \in Requests \ {r} : \A f : LedgerRow(q, f)' = LedgerRow(q, f) /\ Files(q)' = Files(q)
    BY <1>1, RowUnchanged
  <1>6. RowsStand'
    <2>1. SUFFICES ASSUME NEW i \in DOMAIN ledger
                   PROVE  \E q \in Requests : \E f \in Files(q)' :
                              f < next'[q] /\ ledger'[i] = LedgerRow(q, f)'
      BY <1>1 DEF RowsStand
    <2>2. PICK q \in Requests : \E f \in Files(q) : f < next[q] /\ ledger[i] = LedgerRow(q, f)
      BY DEF RowsStand
    <2>3. q # r
      BY <1>2, <2>2 DEF Files, TypeOK
    <2>4. QED
      BY <1>1, <1>5, <2>2, <2>3
  <1>7. OneRowPerFile'
    BY <1>1 DEF OneRowPerFile, RowsOf, Files
  <1>8. QED
    BY <1>4, <1>6, <1>7

\* The row appended is that of the next file of a request whose pages are all
\* settled; the rows before it stand.
LEMMA AppendInvariant ==
    ASSUME IInv, TypeOK', NEW r \in Requests, AppendRow(r)
    PROVE  IInv'
  <1> USE DEF IInv
  <1>1. /\ stage[r] = "recording" /\ next[r] \in Files(r)
        /\ ledger' = Append(ledger, LedgerRow(r, next[r]))
        /\ next' = [next EXCEPT ![r] = @ + 1]
        /\ UNCHANGED <<call, stage, job>>
    BY DEF AppendRow
  <1>2. /\ ledger \in Seq(LedgerRows) /\ next \in [Requests -> Nat \ {0}]
        /\ call[r] \in Calls
        /\ LedgerRow(r, next[r]) \in LedgerRows
    BY <1>1, RowTypes DEF TypeOK
  <1>3. /\ DOMAIN ledger' = 1..(Len(ledger) + 1)
        /\ DOMAIN ledger = 1..Len(ledger)
        /\ Len(ledger) \in Nat
        /\ \A i \in 1..Len(ledger) : ledger'[i] = ledger[i]
        /\ ledger'[Len(ledger) + 1] = LedgerRow(r, next[r])
    BY <1>1, <1>2
  <1>4. /\ LedgerRow(r, next[r]).req = r
        /\ LedgerRow(r, next[r]).file = next[r]
    BY DEF LedgerRow
  <1>5. \A q \in Requests : /\ Settled(q)' = Settled(q)
                            /\ Pages(q)' = Pages(q)
                            /\ Files(q)' = Files(q)
    BY <1>1, RowUnchanged
  <1>6. StageOK'
    <2>1. next[r] <= Len(call[r].uploads) /\ Len(call[r].uploads) \in Nat
      BY <1>1, <1>2, CallFacts DEF Files
    <2>2. Settled(r) = Pages(r)
      BY <1>1 DEF StageOK
    <2>3. QED
      BY <1>1, <1>2, <1>5, <2>1, <2>2 DEF StageOK
  <1>7. RowsStand'
    <2>1. SUFFICES ASSUME NEW i \in DOMAIN ledger'
                   PROVE  \E q \in Requests : \E f \in Files(q)' :
                              f < next'[q] /\ ledger'[i] = LedgerRow(q, f)'
      BY DEF RowsStand
    <2>2. \A q \in Requests : \A f : LedgerRow(q, f)' = LedgerRow(q, f)
      BY <1>1, RowUnchanged
    <2>3. CASE i \in 1..Len(ledger)
      <3>1. PICK q \in Requests : \E f \in Files(q) : f < next[q] /\ ledger[i] = LedgerRow(q, f)
        BY <1>3, <2>3 DEF RowsStand
      <3>2. PICK f \in Files(q) : f < next[q] /\ ledger[i] = LedgerRow(q, f)
        BY <3>1
      <3>3. f < next'[q]
        BY <1>1, <1>2, <3>2 DEF Files
      <3>4. QED
        BY <1>3, <1>5, <2>2, <2>3, <3>2, <3>3
    <2>4. CASE i = Len(ledger) + 1
      <3>1. next[r] < next'[r]
        BY <1>1, <1>2
      <3>2. QED
        BY <1>1, <1>3, <1>5, <2>2, <2>4, <3>1
    <2>5. QED
      BY <1>3, <2>1, <2>3, <2>4
  <1>8. OneRowPerFile'
    <2> DEFINE new == Len(ledger) + 1
    <2>1. SUFFICES ASSUME NEW q \in Requests
                   PROVE  /\ \A i \in RowsOf(q)' : ledger'[i].file \in Files(q)' /\ ledger'[i].file < next'[q]
                          /\ \A i, j \in RowsOf(q)' : i < j => ledger'[i].file < ledger'[j].file
                          /\ \A f \in Files(q)' : f < next'[q] => \E i \in RowsOf(q)' : ledger'[i].file = f
      BY DEF OneRowPerFile
    <2>2. /\ \A i \in RowsOf(q) : /\ i \in 1..Len(ledger)
                                  /\ ledger[i].file \in Files(q) /\ ledger[i].file < next[q]
                                  /\ ledger'[i] = ledger[i]
          /\ \A i, j \in RowsOf(q) : i < j => ledger[i].file < ledger[j].file
          /\ \A f \in Files(q) : f < next[q] => \E i \in RowsOf(q) : ledger[i].file = f
      BY <1>3 DEF OneRowPerFile, RowsOf
    <2>3. Files(q) \subseteq Nat /\ next[q] \in Nat
      BY <1>2 DEF Files
    <2>4. CASE q # r
      <3>1. RowsOf(q)' = RowsOf(q)
        BY <1>3, <1>4, <2>4 DEF RowsOf
      <3>2. next'[q] = next[q]
        BY <1>1, <1>2, <2>4
      <3>3. QED
        BY <1>5, <2>2, <3>1, <3>2
    <2>5. CASE q = r
      <3>1. RowsOf(r)' = RowsOf(r) \union {new}
        BY <1>3, <1>4 DEF RowsOf
      <3>2. next'[r] = next[r] + 1
        BY <1>1, <1>2
      <3>3. ledger'[new].file = next[r]
        BY <1>3, <1>4
      <3>4. \A i \in RowsOf(r)' : ledger'[i].file \in Files(r)' /\ ledger'[i].file < next'[r]
        BY <1>1, <1>5, <2>2, <2>3, <2>5, <3>1, <3>2, <3>3
      <3>5. ASSUME NEW i \in RowsOf(r)', NEW j \in RowsOf(r)', i < j
            PROVE  ledger'[i].file < ledger'[j].file
        <4>1. i \in RowsOf(r)
          BY <1>3, <2>2, <2>5, <3>1, <3>5
        <4>2. QED
          BY <2>2, <2>5, <3>1, <3>3, <3>5, <4>1
      <3>6. ASSUME NEW f \in Files(r)', f < next'[r]
            PROVE  \E i \in RowsOf(r)' : ledger'[i].file = f
        <4>1. f \in Files(r) /\ (f < next[r] \/ f = next[r])
          BY <1>5, <2>3, <2>5, <3>2, <3>6
        <4>2. CASE f < next[r]
          BY <2>2, <2>5, <3>1, <4>1, <4>2
        <4>3. CASE f = next[r]
          BY <3>1, <3>3, <4>3
        <4>4. QED
          BY <4>1, <4>2, <4>3
      <3>7. QED
        BY <2>5, <3>4, <3>5, <3>6
    <2>6. QED
      BY <2>4, <2>5
  <1>9. QED
    BY <1>6, <1>7, <1>8

\* The inductive invariant is inductive: one step of the proof per action.
LEMMA IInvStep == IInv /\ [Next]_vars => IInv'
  <1>1. SUFFICES ASSUME IInv, [Next]_vars PROVE IInv'
    OBVIOUS
  <1>2. TypeOK'
    BY <1>1, TypeStep DEF IInv
  <1>3. StageOK /\ TypeOK
    BY <1>1 DEF IInv
  <1> USE DEF StageOK, TypeOK, Settled, Pages
  <1>4. ASSUME NEW r \in Requests, Refuse(r) PROVE IInv'
    BY <1>1, <1>2, <1>3, <1>4, QuietStep DEF Refuse
  <1>5. ASSUME NEW r \in Requests, Accept(r) PROVE IInv'
    BY <1>1, <1>2, <1>3, <1>5, QuietStep DEF Accept
  <1>6. ASSUME NEW r \in Requests, NEW p \in Pages(r), PageStep(r, p) PROVE IInv'
    BY <1>1, <1>2, <1>6, PageStepInvariant
  <1>7. ASSUME NEW r \in Requests, PoolCloses(r) PROVE IInv'
    BY <1>1, <1>2, <1>3, <1>7, QuietStep DEF PoolCloses
  <1>8. ASSUME NEW r \in Requests, AppendRow(r) PROVE IInv'
    BY <1>1, <1>2, <1>8, AppendInvariant
  <1>9. ASSUME NEW r \in Requests, RecordRun(r) PROVE IInv'
    BY <1>1, <1>2, <1>3, <1>9, QuietStep DEF RecordRun, Recorded
  <1>10. ASSUME NEW r \in Requests, WriteFails(r) PROVE IInv'
    BY <1>1, <1>2, <1>3, <1>10, QuietStep DEF WriteFails
  <1>11. ASSUME NEW r \in Requests, Respond(r) PROVE IInv'
    BY <1>1, <1>2, <1>3, <1>11, QuietStep DEF Respond, Recorded
  <1>12. CASE Crash
    <2>1. /\ UNCHANGED <<call, job, next, ledger>>
          /\ \A r \in Requests : stage'[r] \in {stage[r], "lost"}
      BY <1>12 DEF Crash
    <2>2. StageOK'
      BY <1>3, <2>1
    <2>3. QED
      BY <1>1, <1>2, <2>1, <2>2, QuietStep
  <1>13. CASE DeleteRuns
    BY <1>1, <1>2, <1>3, <1>13, QuietStep DEF DeleteRuns
  <1>14. CASE UNCHANGED vars
    BY <1>1, <1>2, <1>3, <1>14, QuietStep DEF vars
  <1>15. QED
    BY <1>1, <1>4, <1>5, <1>6, <1>7, <1>8, <1>9, <1>10, <1>11, <1>12, <1>13, <1>14
       DEF Next, RequestStep

\* So it holds for ever.
LEMMA InductiveInvariant == Spec => []IInv
  BY IInvInit, IInvStep, PTL DEF Spec

-----------------------------------------------------------------------------
\* Billing is never skipped, repeated or out of order for any number of
\* concurrent requests, with writes failing and the process dying at any point.
THEOREM RowsAreOnePerFile == Spec => []OneRowPerFile
  <1>1. IInv => OneRowPerFile
    BY DEF IInv
  <1>2. QED
    BY <1>1, InductiveInvariant, PTL

\* A row that LedgerRow would write now agrees with the pages it bills.
LEMMA IInvImpliesBilled == IInv => BilledAgreesWithPages
  <1>1. SUFFICES ASSUME IInv, NEW i \in DOMAIN ledger
                 PROVE  LET row == ledger[i] IN
                        /\ Settled(row.req) = Pages(row.req)
                        /\ row.quantity = Cardinality(OkIn(row.req, row.file))
                        /\ row.ok <=> row.quantity = row.pages
    BY DEF BilledAgreesWithPages
  <1> DEFINE r == ledger[i].req
             f == ledger[i].file
  <1>2. /\ r \in Requests /\ f \in Nat \ {0} /\ call[r] \in Calls
        /\ f \in Files(r) /\ f < next[r] /\ next[r] \in Nat
        /\ ledger[i] = LedgerRow(r, f)
    <2>1. PICK q \in Requests : \E g \in Files(q) : g < next[q] /\ ledger[i] = LedgerRow(q, g)
      BY <1>1 DEF IInv, RowsStand
    <2>2. PICK g \in Files(q) : g < next[q] /\ ledger[i] = LedgerRow(q, g)
      BY <2>1
    <2>3. q = r /\ g = f
      BY <2>2 DEF LedgerRow
    <2>4. QED
      BY <1>1, <2>2, <2>3, RowFacts DEF IInv, TypeOK
  <1>3. Settled(r) = Pages(r)
    BY <1>1, <1>2 DEF IInv, StageOK
  <1>4. /\ ledger[i].quantity = Cardinality(OkIn(r, f))
        /\ ledger[i].pages = Cardinality(FilePages(r, f))
        /\ ledger[i].ok = (FilePages(r, f) # {} /\ \A p \in FilePages(r, f) : job[r][p].at = "ok")
    BY <1>2 DEF LedgerRow
  <1>5. FilePages(r, f) # {}
    <2>1. <<f, 1>> \in Pages(r)
      BY <1>2, PagesFacts DEF Files, Pages
    <2>2. <<f, 1>> \in FilePages(r, f)
      BY <2>1 DEF FilePages
    <2>3. QED
      BY <2>2
  <1>6. IsFiniteSet(FilePages(r, f))
    BY <1>2, PagesFacts, FS_Subset DEF Pages, FilePages
  <1>7. Cardinality(OkIn(r, f)) = Cardinality(FilePages(r, f)) <=> OkIn(r, f) = FilePages(r, f)
    BY <1>6, FS_Subset DEF OkIn
  <1>8. ledger[i].ok <=> ledger[i].quantity = ledger[i].pages
    BY <1>4, <1>5, <1>7 DEF OkIn
  <1>9. QED
    BY <1>3, <1>4, <1>8

\* A committed row bills the pages that succeeded and no other, and its ok says
\* whether all did: no thread of the pool can make it wrong afterwards.
THEOREM BillsAreRight == Spec => []BilledAgreesWithPages
  BY InductiveInvariant, IInvImpliesBilled, PTL
-----------------------------------------------------------------------------
(***************************************************************************)
(* The requests: nobody works without authority, attempts and tokens are   *)
(* accounted for, and nothing that has been decided is revised.            *)
(*                                                                         *)
(* None of this needs the ledger's order, only IInv and what a request's   *)
(* admission and its calls leave behind (Admitted, Accounted).             *)
(***************************************************************************)

\* No page moves and no call is made before the checks have been passed.
AdmittedOK(r) ==
    IF stage[r] \in {"idle", "refused"}
    THEN returned[r] = {} /\ \A p \in Pages(r) : job[r][p].at = "queued"
    ELSE Status(call[r]) = 200

Admitted == \A r \in Requests : AdmittedOK(r)

Returned(r, p, kind) == <<p, job[r][p].attempt, kind>> \in returned[r]

\* The account of one page: AttemptsAccountedFor, and that a page which is
\* being extracted in the automatic mode was classified in this attempt.
PageOK(r, p) ==
    /\ LoadError(Upload(r, p)) =>
          job[r][p].at \in {"queued", "failed"} /\ \A x \in returned[r] : x[1] # p
    /\ job[r][p].at = "failed" /\ ~LoadError(Upload(r, p)) => job[r][p].attempt = Retry + 1
    /\ job[r][p].at # "ok" => job[r][p].usage = {}
    /\ job[r][p].at = "classify" => FirstCall(call[r]) = "classify"
    /\ job[r][p].at = "extract" /\ FirstCall(call[r]) = "classify" => Returned(r, p, "classify")
    /\ job[r][p].at = "ok" =>
          /\ FirstCall(call[r]) \in job[r][p].usage
          /\ \A kind \in job[r][p].usage : Returned(r, p, kind)

Accounted == \A r \in Requests : \A p \in Pages(r) : PageOK(r, p)

-----------------------------------------------------------------------------
\* Every step but those of a pool thread leaves jobs and calls alone, and what
\* it makes of a stage keeps a request on its side of the admission.
LEMMA OtherSteps ==
    ASSUME TypeOK, Next, ~ \E r \in Requests : \E p \in Pages(r) : PageStep(r, p)
    PROVE  /\ UNCHANGED <<call, job, returned>>
           /\ \A r \in Requests :
                 \/ stage'[r] = stage[r]
                 \/ stage[r] = "idle" /\ stage'[r] = "refused"
                 \/ stage[r] = "idle" /\ Status(call[r]) = 200 /\ stage'[r] = "pool"
                 \/ stage[r] \in InProgress /\ stage'[r] \notin {"idle", "refused"}
  <1> stage \in [Requests -> Stages]
    BY DEF TypeOK
  <1>1. ASSUME NEW r \in Requests, Refuse(r) \/ Accept(r)
        PROVE  /\ UNCHANGED <<call, job, returned>>
               /\ \/ stage' = [stage EXCEPT ![r] = "refused"]
                  \/ stage' = [stage EXCEPT ![r] = "pool"] /\ Status(call[r]) = 200
               /\ stage[r] = "idle"
    BY <1>1 DEF Refuse, Accept
  <1>2. ASSUME NEW r \in Requests, RequestStep(r)
        PROVE  /\ UNCHANGED <<call, job, returned>>
               /\ stage[r] \in {"pool", "recording", "replying"}
               /\ \E s \in {"recording", "replying", "answered", "error"} :
                     stage' = [stage EXCEPT ![r] = s]
    <2>1. CASE PoolCloses(r)
      BY <2>1 DEF PoolCloses
    <2>2. CASE AppendRow(r)
      BY <2>2 DEF AppendRow
    <2>3. CASE RecordRun(r)
      BY <2>3 DEF RecordRun, Recorded
    <2>4. CASE WriteFails(r)
      BY <2>4 DEF WriteFails
    <2>5. CASE Respond(r)
      BY <2>5 DEF Respond, Recorded
    <2>6. QED
      BY <1>2, <2>1, <2>2, <2>3, <2>4, <2>5 DEF RequestStep
  <1>3. ASSUME Crash
        PROVE  /\ UNCHANGED <<call, job, returned>>
               /\ stage' = [r \in Requests |-> IF stage[r] \in InProgress THEN "lost" ELSE stage[r]]
    BY <1>3 DEF Crash
  <1>4. CASE \E r \in Requests : Refuse(r) \/ Accept(r)
    <2>1. PICK r \in Requests : Refuse(r) \/ Accept(r)
      BY <1>4
    <2>2. QED
      BY <1>1, <2>1
  <1>5. CASE \E r \in Requests : RequestStep(r)
    <2>1. PICK r \in Requests : RequestStep(r)
      BY <1>5
    <2>2. QED
      BY <1>2, <2>1 DEF InProgress
  <1>6. CASE Crash
    BY <1>3, <1>6 DEF InProgress
  <1>7. CASE DeleteRuns
    BY <1>7 DEF DeleteRuns
  <1>8. QED
    BY <1>4, <1>5, <1>6, <1>7 DEF Next

-----------------------------------------------------------------------------
(***************************************************************************)
(* Admission.                                                              *)
(***************************************************************************)
\* What a pool thread adds to returned, if anything, is a call of its own page.
LEMMA ReturnedEffect ==
    ASSUME TypeOK, NEW r \in Requests, NEW p \in Pages(r), PageStep(r, p)
    PROVE  \/ returned' = returned
           \/ \E kind \in CallKinds :
                 returned' = [returned EXCEPT ![r] = @ \union {<<p, job[r][p].attempt, kind>>}]
  BY DEF PageStep, Claim, ClassifyReturns, ExtractReturns, CallRaises, CallKinds

\* The admission of a request is not undone by any step.
LEMMA AdmittedStep == TypeOK /\ Admitted /\ [Next]_vars => Admitted'
  <1>1. SUFFICES ASSUME TypeOK, Admitted, [Next]_vars, NEW q \in Requests
                 PROVE  AdmittedOK(q)'
    BY DEF Admitted
  <1>2. AdmittedOK(q)
    BY <1>1 DEF Admitted
  <1>3. ASSUME NEW r \in Requests, NEW p \in Pages(r), PageStep(r, p)
        PROVE  AdmittedOK(q)'
    <2>1. stage[r] = "pool" /\ UNCHANGED <<call, stage>> /\ (q # r => job'[q] = job[q])
      BY <1>1, <1>3, PageStepEffect DEF TypeOK
    <2>2. q # r => returned'[q] = returned[q]
      BY <1>1, <1>3, ReturnedEffect DEF TypeOK
    <2>3. QED
      BY <1>2, <2>1, <2>2 DEF AdmittedOK, Pages
  <1>4. CASE Next /\ ~ \E r \in Requests : \E p \in Pages(r) : PageStep(r, p)
    <2>1. /\ UNCHANGED <<call, job, returned>>
          /\ \/ stage'[q] = stage[q]
             \/ stage[q] = "idle" /\ stage'[q] = "refused"
             \/ stage[q] = "idle" /\ Status(call[q]) = 200 /\ stage'[q] = "pool"
             \/ stage[q] \in InProgress /\ stage'[q] \notin {"idle", "refused"}
      BY <1>1, <1>4, OtherSteps
    <2>2. QED
      BY <1>2, <2>1 DEF AdmittedOK, Pages, InProgress
  <1>5. CASE UNCHANGED vars
    BY <1>2, <1>5 DEF vars, AdmittedOK, Pages
  <1>6. QED
    BY <1>1, <1>3, <1>4, <1>5

\* No request has been admitted.
LEMMA AdmittedInit == Init => Admitted
  BY DEF Init, Admitted, AdmittedOK, NewJob

\* Who passed the checks has every right that they check.
LEMMA StatusFacts ==
    ASSUME NEW c, Status(c) = 200
    PROVE  /\ c.access # "anonymous" /\ c.access # "denied" /\ Valid(c)
           /\ c.route = "api" => c.model \in c.grants
  BY DEF Status

\* A request with a row or a call that came back is past its admission.
LEMMA AdmittedImpliesAuthorised == IInv /\ Admitted => WorkIsAuthorised
  <1>1. SUFFICES ASSUME IInv, Admitted, NEW r \in Requests,
                        returned[r] # {} \/ RowsOf(r) # {}
                 PROVE  /\ call[r].access = "granted"
                        /\ call[r].model \in Models
                        /\ call[r].doc_type \in DocTypes \union {AnyType}
                        /\ call[r].route = "api" => call[r].model \in call[r].grants
    BY DEF WorkIsAuthorised
  <1>2. Status(call[r]) = 200
    <2>1. CASE returned[r] # {}
      BY <1>1, <2>1 DEF Admitted, AdmittedOK
    <2>2. CASE RowsOf(r) # {}
      <3>1. PICK i \in RowsOf(r) : ledger[i].file \in Files(r) /\ ledger[i].file < next[r]
        BY <1>1, <2>2 DEF IInv, OneRowPerFile
      <3>2. next[r] # 1
        BY <3>1 DEF Files
      <3>3. stage[r] \notin {"idle", "refused"}
        BY <1>1, <3>2 DEF IInv, StageOK
      <3>4. QED
        BY <1>1, <3>3 DEF Admitted, AdmittedOK
    <2>3. QED
      BY <1>1, <2>1, <2>2
  <1>3. call[r] \in CallRecords
    BY <1>1, CallsAssumption DEF IInv, TypeOK
  <1>4. call[r].access \in {"anonymous", "denied", "granted"}
    BY <1>3 DEF CallRecords
  <1>5. QED
    BY <1>2, <1>4, StatusFacts DEF Valid

\* However requests overlap, no model is called and nothing is billed for a
\* caller whom a check of the router or of its dependencies turns away.
THEOREM WorkNeedsAuthority == Spec => []WorkIsAuthorised
  <1>1. Spec => [](TypeOK /\ Admitted)
    BY TypeInit, TypeStep, AdmittedInit, AdmittedStep, PTL DEF Spec
  <1>2. QED
    BY <1>1, InductiveInvariant, AdmittedImpliesAuthorised, PTL

-----------------------------------------------------------------------------
(***************************************************************************)
(* Attempts and tokens.                                                    *)
(***************************************************************************)
\* A page that keeps its job keeps its account, as the calls that came back
\* only become more, and none of those that are new is of a page without calls.
LEMMA PageOKKept ==
    ASSUME NEW r, NEW p, PageOK(r, p),
           call'[r] = call[r], job'[r][p] = job[r][p],
           returned[r] \subseteq returned'[r],
           LoadError(Upload(r, p)) => \A x \in returned'[r] \ returned[r] : x[1] # p
    PROVE  PageOK(r, p)'
  <1>1. Upload(r, p)' = Upload(r, p)
    BY DEF Upload
  <1>2. \A kind : Returned(r, p, kind) => Returned(r, p, kind)'
    BY DEF Returned
  <1>3. QED
    BY <1>1, <1>2 DEF PageOK

\* What a pool thread does to the page it works on.
LEMMA OwnPage ==
    ASSUME TypeOK, NEW r \in Requests, NEW p \in Pages(r), PageOK(r, p), PageStep(r, p)
    PROVE  PageOK(r, p)'
  <1>1. /\ DOMAIN job = Requests
        /\ job[r] \in [Pages(r) -> JobRecords] /\ job[r][p] \in JobRecords
        /\ UNCHANGED call
    BY PageStepEffect DEF TypeOK
  <1>2. Upload(r, p)' = Upload(r, p)
    BY <1>1 DEF Upload
  <1>3. FirstCall(call[r]) \in CallKinds /\ FirstCall(call[r])' = FirstCall(call[r])
    BY <1>1 DEF FirstCall, CallKinds
  <1>4. CASE Claim(r, p)
    <2>1. /\ job'[r][p] = IF LoadError(Upload(r, p))
                          THEN [at |-> "failed", attempt |-> 0, usage |-> {}]
                          ELSE [at |-> FirstCall(call[r]), attempt |-> 1, usage |-> {}]
          /\ returned' = returned
      BY <1>1, <1>4 DEF Claim
    <2>2. CASE LoadError(Upload(r, p))
      BY <1>1, <1>2, <2>1, <2>2 DEF PageOK
    <2>3. CASE ~LoadError(Upload(r, p))
      BY <1>1, <1>2, <1>3, <2>1, <2>3 DEF PageOK, CallKinds
    <2>4. QED
      BY <2>2, <2>3
  <1>5. CASE \E known \in BOOLEAN : ClassifyReturns(r, p, known)
    <2>1. PICK known \in BOOLEAN : ClassifyReturns(r, p, known)
      BY <1>5
    <2>2. /\ job[r][p].at = "classify"
          /\ job'[r][p] = [job[r][p] EXCEPT !.at = IF known THEN "extract" ELSE "ok",
                                            !.usage = IF known THEN {} ELSE {"classify"}]
          /\ returned'[r] = returned[r] \union {<<p, job[r][p].attempt, "classify">>}
      BY <1>1, <2>1 DEF ClassifyReturns, TypeOK
    <2>3. /\ job'[r][p].at = IF known THEN "extract" ELSE "ok"
          /\ job'[r][p].attempt = job[r][p].attempt
          /\ job'[r][p].usage = IF known THEN {} ELSE {"classify"}
      BY <1>1, <2>2 DEF JobRecords
    <2>4. Returned(r, p, "classify")'
      BY <2>2, <2>3 DEF Returned
    <2>5. FirstCall(call[r]) = "classify" /\ ~LoadError(Upload(r, p))
      BY <2>2 DEF PageOK
    <2>6. QED
      BY <1>2, <1>3, <2>3, <2>4, <2>5 DEF PageOK
  <1>6. CASE ExtractReturns(r, p)
    <2>1. /\ job[r][p].at = "extract"
          /\ job'[r][p] = [job[r][p] EXCEPT !.at = "ok",
                                            !.usage = {FirstCall(call[r]), "extract"}]
          /\ returned'[r] = returned[r] \union {<<p, job[r][p].attempt, "extract">>}
      BY <1>1, <1>6 DEF ExtractReturns, TypeOK
    <2>2. /\ job'[r][p].at = "ok"
          /\ job'[r][p].attempt = job[r][p].attempt
          /\ job'[r][p].usage = {FirstCall(call[r]), "extract"}
      BY <1>1, <2>1 DEF JobRecords
    <2>3. Returned(r, p, "extract")' /\ Returned(r, p, FirstCall(call[r]))'
      BY <1>3, <2>1, <2>2 DEF Returned, PageOK, CallKinds
    <2>4. ~LoadError(Upload(r, p))
      BY <2>1 DEF PageOK
    <2>5. QED
      BY <1>2, <1>3, <2>2, <2>3, <2>4 DEF PageOK
  <1>7. CASE CallRaises(r, p)
    <2>1. /\ job[r][p].at \in CallKinds
          /\ returned' = returned
          /\ job'[r][p] = IF job[r][p].attempt <= Retry
                          THEN [at      |-> FirstCall(call[r]),
                                attempt |-> job[r][p].attempt + 1,
                                usage   |-> {}]
                          ELSE [job[r][p] EXCEPT !.at = "failed"]
      BY <1>1, <1>7 DEF CallRaises
    <2>2. ~LoadError(Upload(r, p)) /\ job[r][p].usage = {}
      BY <2>1 DEF PageOK, CallKinds
    <2>3. CASE job[r][p].attempt <= Retry
      BY <1>2, <1>3, <2>1, <2>2, <2>3 DEF PageOK, CallKinds, Returned
    <2>4. CASE ~(job[r][p].attempt <= Retry)
      <3>1. job[r][p].attempt = Retry + 1
        BY <1>1, <2>4, LimitsAssumption DEF JobRecords
      <3>2. job'[r][p].at = "failed" /\ job'[r][p].attempt = Retry + 1 /\ job'[r][p].usage = {}
        BY <1>1, <2>1, <2>2, <2>4, <3>1 DEF JobRecords
      <3>3. QED
        BY <1>2, <2>2, <3>2 DEF PageOK
    <2>5. QED
      BY <2>3, <2>4
  <1>8. QED
    BY <1>4, <1>5, <1>6, <1>7 DEF PageStep

\* No step takes a page out of the books.
LEMMA AccountedStep == TypeOK /\ Accounted /\ [Next]_vars => Accounted'
  <1>1. SUFFICES ASSUME TypeOK, Accounted, [Next]_vars PROVE Accounted'
    OBVIOUS
  <1>2. ASSUME NEW r \in Requests, NEW p \in Pages(r), PageStep(r, p)
        PROVE  Accounted'
    <2>1. /\ call' = call
          /\ \E j \in JobRecords : job' = [job EXCEPT ![r][p] = j]
      BY <1>1, <1>2, PageStepEffect
    <2>2. SUFFICES ASSUME NEW q \in Requests, NEW o \in Pages(q)
                   PROVE  PageOK(q, o)'
      BY <2>1 DEF Accounted, Pages
    <2>3. PageOK(q, o)
      BY <1>1 DEF Accounted
    <2>4. CASE q = r /\ o = p
      BY <1>1, <1>2, <2>3, <2>4, OwnPage
    <2>5. CASE ~(q = r /\ o = p)
      <3>1. job'[q][o] = job[q][o]
        BY <1>1, <2>1, <2>5 DEF TypeOK
      <3>2. /\ returned[q] \subseteq returned'[q]
            /\ \A x \in returned'[q] \ returned[q] : q = r /\ x[1] = p
        <4>1. CASE returned' = returned
          BY <4>1
        <4>2. CASE \E kind \in CallKinds :
                     returned' = [returned EXCEPT ![r] = @ \union {<<p, job[r][p].attempt, kind>>}]
          <5>1. PICK kind \in CallKinds :
                  returned' = [returned EXCEPT ![r] = @ \union {<<p, job[r][p].attempt, kind>>}]
            BY <4>2
          <5>2. DOMAIN returned = Requests
            BY <1>1 DEF TypeOK
          <5>3. returned'[q] = IF q = r THEN returned[q] \union {<<p, job[r][p].attempt, kind>>}
                               ELSE returned[q]
            BY <5>1, <5>2
          <5>4. QED
            BY <5>3
        <4>3. QED
          BY <1>1, <1>2, <4>1, <4>2, ReturnedEffect
      <3>3. \A x \in returned'[q] \ returned[q] : x[1] # o
        BY <2>5, <3>2
      <3>4. QED
        BY <2>1, <2>3, <3>1, <3>2, <3>3, PageOKKept
    <2>6. QED
      BY <2>4, <2>5
  <1>3. ASSUME UNCHANGED <<call, job, returned>>
        PROVE  Accounted'
    <2>1. SUFFICES ASSUME NEW q \in Requests, NEW o \in Pages(q)
                   PROVE  PageOK(q, o)'
      BY <1>3 DEF Accounted, Pages
    <2>2. PageOK(q, o)
      BY <1>1 DEF Accounted
    <2>3. QED
      BY <1>3, <2>2, PageOKKept
  <1>4. CASE Next /\ ~ \E r \in Requests : \E p \in Pages(r) : PageStep(r, p)
    BY <1>1, <1>3, <1>4, OtherSteps
  <1>5. CASE UNCHANGED vars
    BY <1>3, <1>5 DEF vars
  <1>6. QED
    BY <1>1, <1>2, <1>4, <1>5

\* No page has been tried.
LEMMA AccountedInit == Init => Accounted
  BY DEF Init, Accounted, PageOK, NewJob

\* The invariant has the property as one of its parts.
LEMMA AccountedImplies == Accounted => AttemptsAccountedFor
  <1>1. SUFFICES ASSUME Accounted, NEW r \in Requests, NEW p \in Pages(r)
                 PROVE  LET j == job[r][p]
                            spent == {x \in returned[r] : x[1] = p}
                        IN
                        /\ LoadError(Upload(r, p)) => spent = {} /\ j.at \in {"queued", "failed"}
                        /\ j.at = "failed" /\ ~LoadError(Upload(r, p)) => j.attempt = Retry + 1
                        /\ j.at # "ok" => j.usage = {}
                        /\ j.at = "ok" =>
                              /\ FirstCall(call[r]) \in j.usage
                              /\ \A kind \in j.usage : <<p, j.attempt, kind>> \in spent
    BY DEF AttemptsAccountedFor
  <1>2. PageOK(r, p)
    BY <1>1 DEF Accounted
  <1>3. QED
    BY <1>2 DEF PageOK, Returned

\* Whatever fails in whatever order on however many threads, a page is given up
\* only after the last attempt, and the tokens of a result are those of the
\* attempt that succeeded.
THEOREM AttemptsAreRight == Spec => []AttemptsAccountedFor
  <1>1. Spec => [](TypeOK /\ Accounted)
    BY TypeInit, TypeStep, AccountedInit, AccountedStep, PTL DEF Spec
  <1>2. QED
    BY <1>1, AccountedImplies, PTL

-----------------------------------------------------------------------------
(***************************************************************************)
(* What a step may never do.                                               *)
(***************************************************************************)
\* The ledger grows at most, and a run that is new is that of a request which
\* has just recorded it.
LEMMA DatabaseGrows ==
    ASSUME TypeOK, Next
    PROVE  /\ Len(ledger') >= Len(ledger)
           /\ \A i \in DOMAIN ledger : ledger'[i] = ledger[i]
           /\ \A x \in runs' \ runs : stage[x.req] = "recording" /\ stage'[x.req] = "replying"
  <1>1. ledger \in Seq(LedgerRows)
    BY DEF TypeOK
  <1>2. ASSUME NEW r \in Requests, AppendRow(r)
        PROVE  /\ Len(ledger') >= Len(ledger)
               /\ \A i \in DOMAIN ledger : ledger'[i] = ledger[i]
               /\ runs = runs'
    <2>1. LedgerRow(r, next[r]) \in LedgerRows
      BY <1>2, RowTypes DEF AppendRow
    <2>2. QED
      BY <1>1, <1>2, <2>1 DEF AppendRow
  <1>3. ASSUME NEW r \in Requests, NEW p \in Pages(r), PageStep(r, p)
        PROVE  UNCHANGED <<ledger, runs>>
    BY <1>3, PageStepEffect
  <1>4. ASSUME NEW r \in Requests, RecordRun(r)
        PROVE  /\ ledger' = ledger
               /\ \A x \in runs' \ runs :
                     stage[x.req] = "recording" /\ stage'[x.req] = "replying"
    <2>1. RunRow(r).req = r /\ r \in DOMAIN stage
      BY DEF RunRow, TypeOK
    <2>2. QED
      BY <1>4, <2>1 DEF RecordRun, Recorded
  <1>5. ASSUME NEW r \in Requests,
               Refuse(r) \/ Accept(r) \/ PoolCloses(r) \/ WriteFails(r) \/ Respond(r)
        PROVE  UNCHANGED <<ledger, runs>>
    BY <1>5 DEF Refuse, Accept, PoolCloses, WriteFails, Respond
  <1>6. Crash => UNCHANGED <<ledger, runs>>
    BY DEF Crash
  <1>7. DeleteRuns => ledger' = ledger /\ runs' \ runs = {}
    BY DEF DeleteRuns
  <1>8. Len(ledger) >= Len(ledger)
    BY <1>1
  <1>9. QED
    BY <1>2, <1>3, <1>4, <1>5, <1>6, <1>7, <1>8 DEF Next, RequestStep

\* An ended request is left alone: no action of it is possible any more, and
\* those of the others and a crash pass it by.
LEMMA EndsStand ==
    ASSUME TypeOK, Next, NEW q \in Requests, stage[q] \in Ended
    PROVE  stage'[q] = stage[q] /\ reply'[q] = reply[q]
  <1>1. stage \in [Requests -> Stages] /\ DOMAIN reply = Requests
    BY DEF TypeOK
  <1>2. ASSUME NEW r \in Requests, Refuse(r) \/ Accept(r) \/ RequestStep(r)
        PROVE  /\ stage[r] \notin Ended
               /\ \A o \in Requests \ {r} : stage'[o] = stage[o] /\ reply'[o] = reply[o]
    <2>1. CASE Refuse(r) \/ Accept(r)
      BY <1>1, <2>1 DEF Refuse, Accept, Ended
    <2>2. CASE PoolCloses(r) \/ AppendRow(r)
      BY <1>1, <2>2 DEF PoolCloses, AppendRow, Ended
    <2>3. CASE RecordRun(r) \/ WriteFails(r)
      BY <1>1, <2>3 DEF RecordRun, WriteFails, Recorded, Ended
    <2>4. CASE Respond(r)
      BY <1>1, <2>4 DEF Respond, Recorded, Ended
    <2>5. QED
      BY <1>2, <2>1, <2>2, <2>3, <2>4 DEF RequestStep
  <1>3. ASSUME NEW r \in Requests, NEW p \in Pages(r), PageStep(r, p)
        PROVE  UNCHANGED <<stage, reply>>
    BY <1>3, PageStepEffect
  <1>4. Crash => stage'[q] = stage[q] /\ reply'[q] = reply[q]
    BY DEF Crash, Ended, InProgress
  <1>5. DeleteRuns => stage' = stage /\ reply' = reply
    BY DEF DeleteRuns
  <1>6. QED
    BY <1>2, <1>3, <1>4, <1>5 DEF Next

\* Pages move while their request is in its pool, and no result is revised.
LEMMA ResultsStand ==
    ASSUME TypeOK, Next, NEW q \in Requests
    PROVE  /\ job'[q] # job[q] => stage[q] = "pool"
           /\ \A o \in Settled(q) : job'[q][o] = job[q][o]
  <1>1. ASSUME NEW r \in Requests, NEW p \in Pages(r), PageStep(r, p)
        PROVE  /\ job'[q] # job[q] => stage[q] = "pool"
               /\ \A o \in Settled(q) : job'[q][o] = job[q][o]
    <2>1. PICK j \in JobRecords : job' = [job EXCEPT ![r][p] = j]
      BY <1>1, PageStepEffect
    <2>2. stage[r] = "pool" /\ p \notin Settled(r)
      BY <1>1, PageStepEffect
    <2>3. DOMAIN job = Requests /\ job[q] \in [Pages(q) -> JobRecords]
      BY DEF TypeOK
    <2>4. QED
      BY <2>1, <2>2, <2>3 DEF Settled
  <1>2. QED
    BY <1>1, OtherSteps

\* Committed ledger rows, results of pages and the ends of requests stand,
\* whatever step any other request, thread, crash or deletion of runs makes, and
\* no run comes into the history but by its own request.
THEOREM NothingEverRevised == Spec => NothingIsRevised
  <1> DEFINE Revisions ==
         /\ Len(ledger') >= Len(ledger)
         /\ \A i \in DOMAIN ledger : ledger'[i] = ledger[i]
         /\ \A x \in runs' \ runs : stage[x.req] = "recording" /\ stage'[x.req] = "replying"
         /\ \A r \in Requests :
               /\ job[r] # job'[r] => stage[r] = "pool"
               /\ \A p \in Settled(r) : job'[r][p] = job[r][p]
               /\ stage[r] \in Ended => stage'[r] = stage[r] /\ reply'[r] = reply[r]
  <1>1. TypeOK /\ [Next]_vars => [Revisions]_vars
    <2>1. SUFFICES ASSUME TypeOK, Next PROVE Revisions
      OBVIOUS
    <2>2. QED
      BY <2>1, DatabaseGrows, EndsStand, ResultsStand
  <1>2. Spec => [][Revisions]_vars
    BY <1>1, TypeCorrect, PTL DEF Spec
  <1>3. QED
    BY <1>2 DEF NothingIsRevised

-----------------------------------------------------------------------------
(***************************************************************************)
(* The contract: initial states are initial states of it, and every step   *)
(* is one of it or changes nothing it speaks of.                           *)
(*                                                                         *)
(* The bill of a request is read out of the ledger that all requests       *)
(* share.  BillIs is the heart of the proof: it is what the contract says  *)
(* of the request's pages, for as many files as next has passed.  From     *)
(* there on the ledger is not needed any more.                             *)
(***************************************************************************)
\* A request has a row for each file that next has passed, and has passed them
\* all before it replies.
Counted ==
    \A r \in Requests :
        /\ Cardinality(RowsOf(r)) = next[r] - 1
        /\ stage[r] = "replying" => next[r] = Len(call[r].uploads) + 1

\* What the refinement is proved from.
RInv == IInv /\ Admitted /\ Counted

Entry(r, f) == [quantity |-> Cardinality(OkIn(r, f)), ok |-> OkIn(r, f) = FilePages(r, f)]

Entries == [quantity : Nat, ok : BOOLEAN]

\* The bills as the contract sees them.
BillNow == [r \in Requests |-> [f \in 1..(next[r] - 1) |-> Entry(r, f)]]

-----------------------------------------------------------------------------
(***************************************************************************)
(* How many rows a request has.                                            *)
(***************************************************************************)
\* An empty ledger.
LEMMA CountedInit == Init => Counted
  <1>1. SUFFICES ASSUME Init, NEW r \in Requests
                 PROVE  Cardinality(RowsOf(r)) = next[r] - 1 /\ stage[r] # "replying"
    BY DEF Counted
  <1>2. RowsOf(r) = {}
    BY <1>1 DEF Init, RowsOf
  <1>3. QED
    BY <1>1, <1>2, FS_EmptySet DEF Init

\* Every step but AppendRow leaves the ledger and next alone.
LEMMA NoRow ==
    ASSUME TypeOK, [Next]_vars, ~ \E r \in Requests : AppendRow(r)
    PROVE  /\ UNCHANGED <<call, next, ledger>>
           /\ \A r \in Requests : stage'[r] = "replying" => stage[r] = "replying" \/ RecordRun(r)
  <1>1. stage \in [Requests -> Stages]
    BY DEF TypeOK
  <1>2. ASSUME NEW r \in Requests, NEW p \in Pages(r), PageStep(r, p)
        PROVE  UNCHANGED <<call, next, ledger, stage>>
    BY <1>2, PageStepEffect
  <1>3. ASSUME NEW r \in Requests, RecordRun(r)
        PROVE  /\ UNCHANGED <<call, next, ledger>>
               /\ stage' = [stage EXCEPT ![r] = "replying"]
    BY <1>3 DEF RecordRun
  <1>4. ASSUME NEW r \in Requests,
               Refuse(r) \/ Accept(r) \/ PoolCloses(r) \/ WriteFails(r) \/ Respond(r)
        PROVE  /\ UNCHANGED <<call, next, ledger>>
               /\ \A q \in Requests : stage'[q] = "replying" => stage[q] = "replying"
    BY <1>1, <1>4 DEF Refuse, Accept, PoolCloses, WriteFails, Respond
  <1>5. Crash => /\ UNCHANGED <<call, next, ledger>>
                 /\ \A q \in Requests : stage'[q] = "replying" => stage[q] = "replying"
    BY DEF Crash
  <1>6. CASE UNCHANGED vars \/ DeleteRuns
    BY <1>6 DEF vars, DeleteRuns
  <1>7. CASE \E r \in Requests : RecordRun(r)
    BY <1>1, <1>3, <1>7
  <1>8. QED
    BY <1>2, <1>4, <1>5, <1>6, <1>7 DEF Next, RequestStep

\* A row more is a file more.
LEMMA CountedStep == IInv /\ Counted /\ [Next]_vars => Counted'
  <1>1. SUFFICES ASSUME IInv, Counted, [Next]_vars PROVE Counted'
    OBVIOUS
  <1>2. /\ TypeOK /\ next \in [Requests -> Nat \ {0}] /\ stage \in [Requests -> Stages]
        /\ ledger \in Seq(LedgerRows)
    BY <1>1 DEF IInv, TypeOK
  <1>3. ASSUME NEW r \in Requests, AppendRow(r) PROVE Counted'
    <2>1. /\ stage[r] = "recording" /\ stage' = stage /\ call' = call
          /\ ledger' = Append(ledger, LedgerRow(r, next[r]))
          /\ next' = [next EXCEPT ![r] = @ + 1]
      BY <1>3 DEF AppendRow
    <2>2. LedgerRow(r, next[r]) \in LedgerRows /\ LedgerRow(r, next[r]).req = r
      BY <1>2, <1>3, RowTypes DEF AppendRow, LedgerRow
    <2>3. /\ Len(ledger) \in Nat
          /\ DOMAIN ledger = 1..Len(ledger)
          /\ DOMAIN ledger' = 1..(Len(ledger) + 1)
          /\ \A i \in 1..Len(ledger) : ledger'[i] = ledger[i]
          /\ ledger'[Len(ledger) + 1].req = r
      BY <1>2, <2>1, <2>2
    <2>4. \A q \in Requests \ {r} : RowsOf(q)' = RowsOf(q) /\ next'[q] = next[q]
      BY <1>2, <2>1, <2>3 DEF RowsOf
    <2>5. Cardinality(RowsOf(r)') = Cardinality(RowsOf(r)) + 1
      <3>1. RowsOf(r)' = RowsOf(r) \union {Len(ledger) + 1} /\ Len(ledger) + 1 \notin RowsOf(r)
        <4>1. RowsOf(r)' = {i \in 1..(Len(ledger) + 1) : ledger'[i].req = r}
          BY <2>3 DEF RowsOf
        <4>2. RowsOf(r) = {i \in 1..Len(ledger) : ledger'[i].req = r}
          BY <2>3 DEF RowsOf
        <4>3. QED
          BY <2>3, <4>1, <4>2
      <3>2. IsFiniteSet(RowsOf(r))
        <4>1. IsFiniteSet(1..Len(ledger))
          BY <2>3, FS_Interval
        <4>2. RowsOf(r) \subseteq 1..Len(ledger)
          BY <2>3 DEF RowsOf
        <4>3. QED
          BY <4>1, <4>2, FS_Subset
      <3>3. QED
        BY <3>1, <3>2, FS_AddElement
    <2>6. next'[r] = next[r] + 1
      BY <1>2, <2>1
    <2>7. Cardinality(RowsOf(r)') = next'[r] - 1
      BY <1>1, <1>2, <2>5, <2>6 DEF Counted
    <2>8. QED
      BY <1>1, <2>1, <2>4, <2>7 DEF Counted
  <1>4. CASE ~ \E r \in Requests : AppendRow(r)
    <2>1. UNCHANGED <<call, next, ledger>>
      BY <1>1, <1>2, <1>4, NoRow
    <2>2. ASSUME NEW r \in Requests, stage'[r] = "replying"
          PROVE  next'[r] = Len(call'[r].uploads) + 1
      <3>1. CASE stage[r] = "replying"
        BY <1>1, <2>1, <3>1 DEF Counted
      <3>2. CASE RecordRun(r)
        <4>1. next[r] > Len(call[r].uploads) /\ next[r] <= Len(call[r].uploads) + 1
          BY <1>1, <3>2 DEF RecordRun, Recorded, IInv, StageOK
        <4>2. next[r] \in Nat /\ Len(call[r].uploads) \in Nat
          BY <1>2, CallFacts DEF TypeOK
        <4>3. QED
          BY <2>1, <4>1, <4>2
      <3>3. QED
        BY <1>1, <1>2, <1>4, <2>2, <3>1, <3>2, NoRow
    <2>3. \A r \in Requests : RowsOf(r)' = RowsOf(r)
      BY <2>1 DEF RowsOf
    <2>4. QED
      BY <1>1, <2>1, <2>2, <2>3 DEF Counted
  <1>5. QED
    BY <1>3, <1>4

\* What the mapping rests on holds for ever.
LEMMA RefinementInvariant == Spec => []RInv
  BY IInvInit, IInvStep, AdmittedInit, AdmittedStep, CountedInit, CountedStep, PTL
     DEF Spec, RInv, IInv
-----------------------------------------------------------------------------
(***************************************************************************)
(* The contract's variables in the terms of the service.                   *)
(***************************************************************************)
\* The contract counts as the service does: each module has FiniteSets of its own.
LEMMA SameCardinality == \A S : Contract!Cardinality(S) = Cardinality(S)
  BY DEF Contract!Cardinality, Cardinality

\* A request that has not ended is open.
LEMMA OutcomeFacts ==
    /\ \A s \in {"idle", "pool", "recording", "replying"} : OutcomeOf(s) = "open"
    /\ OutcomeOf("refused") = "refused"
    /\ OutcomeOf("answered") = "answered"
    /\ \A s \in {"error", "lost"} : OutcomeOf(s) = "given_up"
    /\ Outcome = [r \in Requests |-> OutcomeOf(stage[r])]
  BY DEF OutcomeOf, Outcome, InProgress

\* What the contract counts of a file is what the service counts.
LEMMA VerdictFacts ==
    ASSUME TypeOK, NEW r \in Requests
    PROVE  /\ DOMAIN Verdict[r] = Pages(r)
           /\ \A p \in Pages(r) : Verdict[r][p] \in {"pending", "ok", "failed"}
           /\ \A p \in Pages(r) : Verdict[r][p] # "pending" <=> p \in Settled(r)
           /\ \A f : Contract!InFile(r, f) = FilePages(r, f)
           /\ \A f : Contract!Good(r, f) = OkIn(r, f)
           /\ Contract!Judged(r) <=> Settled(r) = Pages(r)
           /\ Contract!FileCount(r) = Len(call[r].uploads)
  <1>1. /\ DOMAIN Verdict[r] = Pages(r)
        /\ \A p \in Pages(r) :
              Verdict[r][p] = IF job[r][p].at \in {"ok", "failed"} THEN job[r][p].at ELSE "pending"
    BY DEF Verdict
  <1>2. \A p \in Pages(r) : Verdict[r][p] # "pending" <=> p \in Settled(r)
    BY <1>1 DEF Settled
  <1>3. \A f : Contract!InFile(r, f) = FilePages(r, f)
    BY <1>1 DEF Contract!InFile, Contract!Bundle, FilePages
  <1>4. \A f : Contract!Good(r, f) = OkIn(r, f)
    BY <1>1, <1>3 DEF Contract!Good, OkIn, FilePages
  <1>5. Contract!Judged(r) <=> Settled(r) = Pages(r)
    BY <1>1, <1>2 DEF Contract!Judged, Contract!Bundle, Settled
  <1>6. Contract!FileCount(r) = Len(call[r].uploads)
    <2>1. call[r] \in Calls /\ Len(call[r].uploads) \in Nat
      BY CallFacts DEF TypeOK
    <2>2. {p[1] : p \in Pages(r)} = 1..Len(call[r].uploads)
      <3>1. /\ \A p \in Pages(r) : p[1] \in 1..Len(call[r].uploads)
            /\ \A f \in 1..Len(call[r].uploads) : <<f, 1>> \in Pages(r)
        BY <2>1, PagesFacts DEF Pages
      <3>2. ASSUME NEW f \in 1..Len(call[r].uploads)
            PROVE  f \in {p[1] : p \in Pages(r)}
        <4>1. <<f, 1>> \in Pages(r) /\ <<f, 1>>[1] = f
          BY <3>1
        <4>2. QED
          BY <4>1
      <3>3. QED
        BY <3>1, <3>2
    <2>3. Cardinality(1..Len(call[r].uploads)) = Len(call[r].uploads)
      BY <2>1, FS_Interval
    <2>4. Contract!FileCount(r) = Cardinality({p[1] : p \in Pages(r)})
      <3>1. Contract!Bundle(r) = Pages(r)
        BY <1>1 DEF Contract!Bundle
      <3>2. {p[1] : p \in Contract!Bundle(r)} = {p[1] : p \in Pages(r)}
        BY <3>1
      <3>3. Contract!FileCount(r) = Cardinality({p[1] : p \in Contract!Bundle(r)})
        BY SameCardinality DEF Contract!FileCount
      <3>4. QED
        BY <3>2, <3>3
    <2>5. QED
      BY <2>2, <2>3, <2>4
  <1>7. QED
    BY <1>1, <1>2, <1>3, <1>4, <1>5, <1>6

\* An entry of the bill is one of the abstract specification.
LEMMA EntryType ==
    ASSUME TypeOK, NEW r \in Requests, NEW f
    PROVE  Entry(r, f) \in Entries
  <1>1. IsFiniteSet(Pages(r))
    BY PagesFacts DEF TypeOK, Pages
  <1>2. OkIn(r, f) \subseteq Pages(r)
    BY DEF OkIn, FilePages
  <1>3. Cardinality(OkIn(r, f)) \in Nat
    BY <1>1, <1>2, FS_Subset, FS_CardinalityType
  <1>4. QED
    BY <1>3 DEF Entry, Entries

\* The bill has an entry for each file done.
LEMMA BillNowType ==
    ASSUME TypeOK, NEW r \in Requests
    PROVE  BillNow[r] \in Seq(Entries) /\ Len(BillNow[r]) = next[r] - 1
  <1>1. next[r] - 1 \in Nat
    BY DEF TypeOK
  <1>2. \A f \in 1..(next[r] - 1) : Entry(r, f) \in Entries
    BY EntryType
  <1>3. BillNow[r] = [f \in 1..(next[r] - 1) |-> Entry(r, f)]
    BY DEF BillNow
  <1>4. QED
    BY <1>1, <1>2, <1>3

\* The bill that the ledger holds is the one the contract says.
LEMMA BillIs == RInv => Bill = BillNow
  <1>1. SUFFICES ASSUME RInv, NEW r \in Requests, NEW f \in 1..(next[r] - 1)
                 PROVE  /\ ledger[RowOf(r, f)].quantity = Cardinality(OkIn(r, f))
                        /\ ledger[RowOf(r, f)].ok = (OkIn(r, f) = FilePages(r, f))
    BY DEF RInv, Counted, Bill, BillNow, Entry
  <1>2. /\ TypeOK /\ call[r] \in Calls /\ next[r] \in Nat /\ Len(call[r].uploads) \in Nat
        /\ next[r] <= Len(call[r].uploads) + 1
    BY <1>1, CallFacts DEF RInv, IInv, TypeOK, StageOK
  <1>3. f \in Files(r) /\ f < next[r]
    BY <1>1, <1>2 DEF Files
  <1>4. RowOf(r, f) \in RowsOf(r) /\ ledger[RowOf(r, f)].file = f
    <2>1. \E i \in RowsOf(r) : ledger[i].file = f
      BY <1>1, <1>3 DEF RInv, IInv, OneRowPerFile
    <2>2. QED
      BY <2>1 DEF RowOf
  <1>5. ledger[RowOf(r, f)] = LedgerRow(r, f)
    <2>1. PICK q \in Requests : \E g \in Files(q) : ledger[RowOf(r, f)] = LedgerRow(q, g)
      BY <1>1, <1>4 DEF RInv, IInv, RowsStand, RowsOf
    <2>2. QED
      BY <1>4, <2>1 DEF LedgerRow, RowsOf
  <1>6. FilePages(r, f) # {}
    <2>1. <<f, 1>> \in Pages(r)
      BY <1>2, <1>3, PagesFacts DEF Files, Pages
    <2>2. <<f, 1>> \in FilePages(r, f)
      BY <2>1 DEF FilePages
    <2>3. QED
      BY <2>2
  <1>7. OkIn(r, f) = FilePages(r, f) <=> \A p \in FilePages(r, f) : job[r][p].at = "ok"
    BY DEF OkIn
  <1>8. QED
    BY <1>5, <1>6, <1>7 DEF LedgerRow

-----------------------------------------------------------------------------
(***************************************************************************)
(* The simulation.                                                         *)
(***************************************************************************)
LEMMA InitialStatesMap == Init => Contract!Init
  <1>1. SUFFICES ASSUME Init PROVE Contract!Init
    OBVIOUS
  <1>2. TypeOK /\ RInv
    BY <1>1, TypeInit, IInvInit, AdmittedInit, CountedInit DEF RInv
  <1>3. \A r \in Requests : \A p \in Contract!Bundle(r) : Verdict[r][p] = "pending"
    BY <1>1 DEF Contract!Bundle, Verdict, Init, NewJob
  <1>4. Bill = [r \in Requests |-> <<>>]
    <2>1. Bill = BillNow
      BY <1>2, BillIs
    <2>2. \A r \in Requests : BillNow[r] = <<>>
      BY <1>1, <1>2, BillNowType DEF Init
    <2>3. QED
      BY <2>1, <2>2 DEF BillNow
  <1>5. Outcome = [r \in Requests |-> "open"]
    BY <1>1 DEF Init, Outcome, OutcomeOf
  <1>6. QED
    BY <1>3, <1>4, <1>5 DEF Contract!Init

\* A step that leaves a request's call, job and next alone leaves its bill alone.
LEMMA BillKept ==
    ASSUME NEW r \in Requests, call'[r] = call[r], job'[r] = job[r], next'[r] = next[r]
    PROVE  /\ BillNow'[r] = BillNow[r]
           /\ Verdict'[r] = Verdict[r]
  <1>1. \A f : OkIn(r, f)' = OkIn(r, f) /\ FilePages(r, f)' = FilePages(r, f)
    BY DEF OkIn, FilePages, Pages
  <1>2. \A f : Entry(r, f)' = Entry(r, f)
    BY <1>1 DEF Entry
  <1>3. BillNow'[r] = BillNow[r]
    BY <1>2 DEF BillNow
  <1>4. Verdict'[r] = Verdict[r]
    BY DEF Verdict, Pages
  <1>5. QED
    BY <1>3, <1>4

\* A step of a request's own thread or of a crash leaves all verdicts alone,
\* and one that writes no row all bills.
LEMMA QuietMaps ==
    ASSUME UNCHANGED <<call, job, next>>
    PROVE  UNCHANGED <<Verdict, BillNow>>
  <1>1. \A r \in Requests : BillNow'[r] = BillNow[r] /\ Verdict'[r] = Verdict[r]
    BY BillKept
  <1>2. QED
    BY <1>1 DEF BillNow, Verdict

\* The step of a pool thread: a retry is invisible, an end is a judgement.
LEMMA PageStepMaps ==
    ASSUME RInv, NEW r \in Requests, NEW p \in Pages(r), PageStep(r, p)
    PROVE  /\ UNCHANGED <<BillNow, Outcome>>
           /\ \/ UNCHANGED Verdict
              \/ /\ Outcome[r] = "open" /\ Verdict[r][p] = "pending"
                 /\ \E v \in {"ok", "failed"} : Verdict' = [Verdict EXCEPT ![r][p] = v]
  <1>1. TypeOK
    BY DEF RInv, IInv
  <1>2. /\ stage[r] = "pool" /\ p \notin Settled(r)
        /\ UNCHANGED <<call, stage, next>>
    BY <1>1, PageStepEffect
  <1>3. PICK j \in JobRecords : job' = [job EXCEPT ![r][p] = j]
    BY <1>1, PageStepEffect
  <1>4. DOMAIN job = Requests /\ job[r] \in [Pages(r) -> JobRecords]
    BY <1>1 DEF TypeOK
  <1>5. next[r] = 1
    BY <1>2 DEF RInv, IInv, StageOK
  <1>6. Outcome' = Outcome /\ Outcome[r] = "open"
    BY <1>2 DEF Outcome, OutcomeOf, InProgress
  <1>7. BillNow' = BillNow
    <2>1. ASSUME NEW q \in Requests PROVE BillNow'[q] = BillNow[q]
      <3>1. CASE q = r
        BY <1>2, <1>5, <3>1 DEF BillNow
      <3>2. CASE q # r
        BY <1>2, <1>3, <1>4, <3>2, BillKept
      <3>3. QED
        BY <3>1, <3>2
    <2>2. QED
      BY <2>1 DEF BillNow
  <1>8. Verdict[r][p] = "pending"
    BY <1>1, <1>2, VerdictFacts
  <1>9. \A q \in Requests : Pages(q)' = Pages(q)
    BY <1>2 DEF Pages
  <1>10. Verdict' = [Verdict EXCEPT ![r][p] = IF j.at \in {"ok", "failed"} THEN j.at ELSE "pending"]
    BY <1>3, <1>4, <1>9 DEF Verdict
  <1>11. CASE j.at \in {"ok", "failed"}
    BY <1>6, <1>7, <1>8, <1>10, <1>11
  <1>12. CASE j.at \notin {"ok", "failed"}
    <2>1. Verdict' = [Verdict EXCEPT ![r][p] = "pending"]
      BY <1>10, <1>12
    <2>2. Verdict' = Verdict
      <3>1. [Verdict[r] EXCEPT ![p] = "pending"] = Verdict[r]
        BY <1>8 DEF Verdict
      <3>2. Verdict = [q \in Requests |-> Verdict[q]]
        BY DEF Verdict
      <3>3. QED
        BY <2>1, <3>1, <3>2
    <2>3. QED
      BY <1>6, <1>7, <2>2
  <1>13. QED
    BY <1>11, <1>12

\* A row more is an entry more on the bill of its request.
LEMMA AppendMaps ==
    ASSUME RInv, NEW r \in Requests, AppendRow(r)
    PROVE  /\ UNCHANGED <<Verdict, Outcome>>
           /\ Outcome[r] = "open"
           /\ Settled(r) = Pages(r)
           /\ next[r] <= Len(call[r].uploads)
           /\ BillNow' = [BillNow EXCEPT ![r] = Append(@, Entry(r, next[r]))]
  <1>1. TypeOK
    BY DEF RInv, IInv
  <1>2. /\ stage[r] = "recording" /\ next[r] \in Files(r)
        /\ next' = [next EXCEPT ![r] = @ + 1]
        /\ UNCHANGED <<call, job, stage>>
    BY DEF AppendRow
  <1>3. Outcome' = Outcome /\ Outcome[r] = "open"
    BY <1>2 DEF Outcome, OutcomeOf, InProgress
  <1>4. Settled(r) = Pages(r)
    BY <1>2 DEF RInv, IInv, StageOK
  <1>5. next[r] <= Len(call[r].uploads)
    BY <1>2 DEF Files
  <1>6. Verdict' = Verdict
    BY <1>2 DEF Verdict, Pages
  <1>7. next \in [Requests -> Nat \ {0}]
    BY <1>1 DEF TypeOK
  <1>8. ASSUME NEW q \in Requests, q # r PROVE BillNow'[q] = BillNow[q]
    BY <1>2, <1>7, <1>8, BillKept
  <1>9. BillNow'[r] = Append(BillNow[r], Entry(r, next[r]))
    <2>1. \A f : Entry(r, f)' = Entry(r, f)
      BY <1>2 DEF Entry, OkIn, FilePages, Pages
    <2>2. BillNow'[r] = [f \in 1..next[r] |-> Entry(r, f)]
      BY <1>2, <1>7, <2>1 DEF BillNow
    <2>3. BillNow[r] = [f \in 1..(next[r] - 1) |-> Entry(r, f)]
      BY DEF BillNow
    <2>4. BillNow[r] \in Seq(Entries) /\ Len(BillNow[r]) = next[r] - 1 /\ Entry(r, next[r]) \in Entries
      BY <1>1, BillNowType, EntryType
    <2>5. BillNow'[r] \in Seq(Entries) /\ Len(BillNow'[r]) = next[r]
      <3>1. \A f \in 1..next[r] : Entry(r, f) \in Entries
        BY <1>1, EntryType
      <3>2. QED
        BY <1>7, <2>2, <3>1
    <2>6. /\ Append(BillNow[r], Entry(r, next[r])) \in Seq(Entries)
          /\ Len(Append(BillNow[r], Entry(r, next[r]))) = next[r]
      BY <1>7, <2>4
    <2>7. \A f \in 1..next[r] : BillNow'[r][f] = Append(BillNow[r], Entry(r, next[r]))[f]
      BY <1>7, <2>2, <2>3, <2>4
    <2>8. QED
      BY <2>5, <2>6, <2>7, SeqEqual
  <1>10. BillNow' = [BillNow EXCEPT ![r] = Append(@, Entry(r, next[r]))]
    BY <1>8, <1>9 DEF BillNow
  <1>11. QED
    BY <1>3, <1>4, <1>5, <1>6, <1>10

\* Every step of the service is a step of the contract or leaves it alone.
LEMMA StepsMap == RInv /\ RInv' /\ [Next]_vars => [Contract!Next]_(Contract!vars)
  <1>1. SUFFICES ASSUME RInv, RInv', [Next]_vars
                 PROVE  Contract!Next \/ UNCHANGED <<Verdict, Bill, Outcome>>
    BY DEF Contract!vars
  <1>2. TypeOK /\ stage \in [Requests -> Stages]
    BY <1>1 DEF RInv, IInv, TypeOK
  <1>3. Bill = BillNow
    BY <1>1, BillIs
  <1>4. Bill' = BillNow'
    <2>1. (Bill = BillNow)'
      BY <1>1, BillIs, PTL
    <2>2. QED
      BY <2>1
  <1>5. ASSUME UNCHANGED <<call, job, next>>
        PROVE  UNCHANGED <<Verdict, Bill>>
    BY <1>3, <1>4, <1>5, QuietMaps
  <1>6. /\ Outcome = [r \in Requests |-> OutcomeOf(stage[r])]
        /\ Outcome' = [r \in Requests |-> OutcomeOf(stage'[r])]
    BY DEF Outcome
  <1>7. ASSUME NEW r \in Requests, Refuse(r) PROVE Contract!Next
    <2>1. /\ stage[r] = "idle" /\ stage' = [stage EXCEPT ![r] = "refused"]
          /\ UNCHANGED <<call, job, next>>
      BY <1>7 DEF Refuse
    <2>2. Outcome' = [Outcome EXCEPT ![r] = "refused"] /\ Outcome[r] = "open"
      BY <1>2, <1>6, <2>1, OutcomeFacts
    <2>3. \A p \in Contract!Bundle(r) : Verdict[r][p] = "pending"
      BY <1>1, <2>1 DEF RInv, Admitted, AdmittedOK, Contract!Bundle, Verdict
    <2>4. Contract!Refuse(r)
      BY <1>5, <2>1, <2>2, <2>3 DEF Contract!Refuse
    <2>5. QED
      BY <2>4 DEF Contract!Next
  <1>8. ASSUME NEW r \in Requests, Accept(r) \/ PoolCloses(r) \/ RecordRun(r)
        PROVE  UNCHANGED <<Verdict, Bill, Outcome>>
    <2>1. /\ UNCHANGED <<call, job, next>>
          /\ stage[r] \in {"idle", "pool", "recording"}
          /\ \E s \in InProgress : stage' = [stage EXCEPT ![r] = s]
      BY <1>8 DEF Accept, PoolCloses, RecordRun, Recorded, InProgress
    <2>2. Outcome' = Outcome
      BY <1>2, <1>6, <2>1, OutcomeFacts DEF InProgress
    <2>3. QED
      BY <1>5, <2>1, <2>2
  <1>9. ASSUME NEW r \in Requests, NEW p \in Pages(r), PageStep(r, p)
        PROVE  Contract!Next \/ UNCHANGED <<Verdict, Bill, Outcome>>
    <2>1. /\ UNCHANGED <<Bill, Outcome>>
          /\ \/ UNCHANGED Verdict
             \/ /\ Outcome[r] = "open" /\ Verdict[r][p] = "pending"
                /\ \E v \in {"ok", "failed"} : Verdict' = [Verdict EXCEPT ![r][p] = v]
      BY <1>1, <1>3, <1>4, <1>9, PageStepMaps
    <2>2. CASE UNCHANGED Verdict
      BY <2>1, <2>2
    <2>3. CASE ~ UNCHANGED Verdict
      <3>1. PICK v \in {"ok", "failed"} : Contract!Judge(r, p, v)
        BY <2>1, <2>3 DEF Contract!Judge
      <3>2. p \in Contract!Bundle(r)
        BY <1>2, VerdictFacts DEF Contract!Bundle
      <3>3. QED
        BY <3>1, <3>2 DEF Contract!Next
    <2>4. QED
      BY <2>2, <2>3
  <1>10. ASSUME NEW r \in Requests, AppendRow(r) PROVE Contract!Next
    <2>1. /\ UNCHANGED <<Verdict, Outcome>>
          /\ Outcome[r] = "open"
          /\ Settled(r) = Pages(r)
          /\ next[r] <= Len(call[r].uploads)
          /\ Bill' = [Bill EXCEPT ![r] = Append(@, Entry(r, next[r]))]
      BY <1>1, <1>3, <1>4, <1>10, AppendMaps
    <2>2. Len(Bill[r]) + 1 = next[r]
      <3>1. next[r] \in Nat
        BY <1>2 DEF TypeOK
      <3>2. QED
        BY <1>2, <1>3, <3>1, BillNowType
    <2>3. /\ Contract!Judged(r)
          /\ next[r] <= Contract!FileCount(r)
          /\ Entry(r, next[r]) = [ quantity |-> Cardinality(Contract!Good(r, next[r])),
                                   ok |-> Contract!Good(r, next[r]) = Contract!InFile(r, next[r]) ]
      BY <1>2, <2>1, VerdictFacts DEF Entry
    <2>4. Contract!Bill(r)
      BY <2>1, <2>2, <2>3, SameCardinality DEF Contract!Bill
    <2>5. QED
      BY <2>4 DEF Contract!Next
  <1>11. ASSUME NEW r \in Requests, WriteFails(r) PROVE Contract!Next
    <2>1. /\ stage[r] = "recording" /\ stage' = [stage EXCEPT ![r] = "error"]
          /\ UNCHANGED <<call, job, next>>
      BY <1>11 DEF WriteFails
    <2>2. /\ Outcome[r] = "open"
          /\ Outcome' = [q \in Requests |-> IF q \in {r} THEN "given_up" ELSE Outcome[q]]
      BY <1>2, <1>6, <2>1, OutcomeFacts DEF InProgress
    <2>3. Contract!GiveUp({r})
      BY <1>5, <2>1, <2>2 DEF Contract!GiveUp
    <2>4. QED
      BY <2>3 DEF Contract!Next
  <1>12. ASSUME NEW r \in Requests, Respond(r) PROVE Contract!Next
    <2>1. /\ stage[r] \in {"recording", "replying"}
          /\ stage' = [stage EXCEPT ![r] = "answered"]
          /\ UNCHANGED <<call, job, next>>
      BY <1>12 DEF Respond, Recorded
    <2>2. Outcome[r] = "open" /\ Outcome' = [Outcome EXCEPT ![r] = "answered"]
      BY <1>2, <1>6, <2>1, OutcomeFacts DEF InProgress
    <2>3. Settled(r) = Pages(r)
      BY <1>1, <2>1 DEF RInv, IInv, StageOK
    <2>4. next[r] = Len(call[r].uploads) + 1
      <3>1. next[r] \in Nat /\ Len(call[r].uploads) \in Nat
        BY <1>2, CallFacts DEF TypeOK
      <3>2. next[r] <= Len(call[r].uploads) + 1
        BY <1>1 DEF RInv, IInv, StageOK
      <3>3. next[r] > Len(call[r].uploads) \/ stage[r] = "replying"
        BY <1>12 DEF Respond, Recorded
      <3>4. stage[r] = "replying" => next[r] = Len(call[r].uploads) + 1
        BY <1>1 DEF RInv, Counted
      <3>5. QED
        BY <3>1, <3>2, <3>3, <3>4
    <2>5. Len(Bill[r]) = Contract!FileCount(r)
      <3>1. Len(call[r].uploads) \in Nat
        BY <1>2, CallFacts DEF TypeOK
      <3>2. Len(BillNow[r]) = next[r] - 1
        BY <1>2, BillNowType
      <3>3. Contract!FileCount(r) = Len(call[r].uploads)
        BY <1>2, VerdictFacts
      <3>4. QED
        BY <1>3, <2>4, <3>1, <3>2, <3>3
    <2>6. Contract!Judged(r)
      <3>1. Contract!Judged(r) <=> Settled(r) = Pages(r)
        BY <1>2, VerdictFacts
      <3>2. QED
        BY <2>3, <3>1
    <2>7. Contract!Answer(r)
      BY <1>5, <2>1, <2>2, <2>5, <2>6 DEF Contract!Answer
    <2>8. QED
      BY <2>7 DEF Contract!Next
  <1>13. CASE Crash
    <2> DEFINE R == {r \in Requests : stage[r] \in InProgress}
    <2>1. /\ stage' = [r \in Requests |-> IF stage[r] \in InProgress THEN "lost" ELSE stage[r]]
          /\ UNCHANGED <<call, job, next>>
      BY <1>13 DEF Crash
    <2>2. /\ \A r \in R : Outcome[r] = "open"
          /\ Outcome' = [r \in Requests |-> IF r \in R THEN "given_up" ELSE Outcome[r]]
      BY <1>2, <1>6, <2>1, OutcomeFacts DEF InProgress
    <2>3. Contract!GiveUp(R)
      BY <1>5, <2>1, <2>2 DEF Contract!GiveUp
    <2>4. R \in SUBSET Requests
      OBVIOUS
    <2>5. QED
      BY <2>3, <2>4 DEF Contract!Next
  <1>14. CASE UNCHANGED vars \/ DeleteRuns
    BY <1>5, <1>14 DEF vars, DeleteRuns, Outcome
  <1>15. QED
    BY <1>1, <1>7, <1>8, <1>9, <1>10, <1>11, <1>12, <1>13, <1>14 DEF Next, RequestStep

\* What a client is promised without threads, retries, failing writes and
\* crashes is what it gets with them.
THEOREM ContractImplemented == Spec => ContractHolds
  <1>1. Spec => [][Contract!Next]_(Contract!vars)
    BY RefinementInvariant, StepsMap, PTL DEF Spec
  <1>2. Spec => Contract!Init
    BY InitialStatesMap DEF Spec
  <1>3. QED
    BY <1>1, <1>2 DEF ContractHolds, Contract!Spec

-----------------------------------------------------------------------------
(***************************************************************************)
(* Sums.  MapThenSumSet unfolds into a recursive function on subsets; what *)
(* it computes is proved by induction on their cardinality (Counting).     *)
(***************************************************************************)
\* it is the sum of v over each subset of S, taken in the order of CHOOSE.
IsSum(it, v, S) ==
    it = [s \in SUBSET S |->
            IF s = {} THEN 0
            ELSE v[CHOOSE x \in s : TRUE] + it[s \ {CHOOSE x \in s : TRUE}]]

\* The natural numbers are well founded.
LEMMA Descent == IsWellFoundedOn({ss \in Nat \X Nat : ss[1] < ss[2]}, Nat)
  BY NatLessThanWellFounded DEF OpToRel

\* Induction, about a set of numbers in place of a predicate.
LEMMA Counting ==
    ASSUME NEW N, 0 \in N, \A n \in Nat : n \in N => n + 1 \in N
    PROVE  \A n \in Nat : n \in N
  <1> DEFINE R == {ss \in Nat \X Nat : ss[1] < ss[2]}
             T == {n \in Nat : n \notin N}
  <1>1. SUFFICES ASSUME T # {} PROVE FALSE
    OBVIOUS
  <1>2. IsWellFoundedOn(R, Nat)
    BY Descent
  <1>3. \A A, B : IsWellFoundedOn(A, B) =>
            \A C : C \subseteq B /\ C # {} => \E x \in C : \A y \in C : <<y, x>> \notin A
    BY WFMin
  <1>4. PICK m \in T : \A k \in T : <<k, m>> \notin R
    <2> HIDE DEF R
    <2>. QED BY <1>1, <1>2, <1>3
  <1>5. m # 0 /\ m - 1 \in Nat
    OBVIOUS
  <1>6. <<m - 1, m>> \in R
    BY <1>5
  <1>7. m - 1 \in N
    BY <1>4, <1>5, <1>6
  <1>. QED
    BY <1>5, <1>7

\* The recursion of the fold has a solution: one for the subsets of up to n
\* elements gives one for those of n + 1.
LEMMA SumExists ==
    ASSUME NEW S, IsFiniteSet(S), NEW v
    PROVE  \E it : IsSum(it, v, S)
  <1> DEFINE one(s) == CHOOSE x \in s : TRUE
             D(n) == {s \in SUBSET S : Cardinality(s) <= n}
             G(it, n) == [s \in D(n) |-> IF s = {} THEN 0 ELSE v[one(s)] + it[s \ {one(s)}]]
             N == {n \in Nat : \E it : it = G(it, n)}
  <1>1. \A s \in SUBSET S : IsFiniteSet(s) /\ Cardinality(s) \in Nat
                            /\ Cardinality(s) <= Cardinality(S)
    BY FS_Subset, FS_CardinalityType
  <1>2. ASSUME NEW s \in SUBSET S, s # {}
        PROVE  one(s) \in s /\ Cardinality(s \ {one(s)}) = Cardinality(s) - 1
    <2>1. one(s) \in s
      BY <1>2
    <2>. QED BY <1>1, <2>1, FS_RemoveElement
  <1>3. 0 \in N
    <2> DEFINE it == [s \in D(0) |-> 0]
    <2>1. \A s \in D(0) : s = {}
      BY <1>1, FS_EmptySet
    <2>2. it = G(it, 0)
      BY <2>1
    <2>. QED BY <2>2
  <1>4. ASSUME NEW n \in Nat, n \in N PROVE n + 1 \in N
    <2>1. PICK it : it = G(it, n)
      BY <1>4
    <2> DEFINE new == G(it, n + 1)
    <2> HIDE DEF one
    <2>2. ASSUME NEW s \in D(n + 1), s # {}
          PROVE  s \ {one(s)} \in D(n)
      BY <1>1, <1>2, <2>2
    <2>3. \A s \in D(n) : new[s] = it[s]
      <3>1. \A s \in D(n) : s \in D(n + 1)
        BY <1>1
      <3> HIDE DEF D
      <3>2. ASSUME NEW s \in D(n) PROVE new[s] = it[s]
        <4>1. it[s] = G(it, n)[s]
          BY <2>1
        <4>2. G(it, n)[s] = IF s = {} THEN 0 ELSE v[one(s)] + it[s \ {one(s)}]
          OBVIOUS
        <4>3. new[s] = IF s = {} THEN 0 ELSE v[one(s)] + it[s \ {one(s)}]
          BY <3>1
        <4>. QED BY <4>1, <4>2, <4>3
      <3> HIDE DEF new
      <3>. QED BY <3>2
    <2>4. new = G(new, n + 1)
      BY <2>2, <2>3
    <2> HIDE DEF new, G
    <2>. QED BY <2>4
  <1>5. Cardinality(S) \in N
    <2> HIDE DEF N
    <2>. QED BY <1>1, <1>3, <1>4, Counting, FS_CardinalityType
  <1>6. D(Cardinality(S)) = SUBSET S
    BY <1>1
  <1>7. PICK it : it = G(it, Cardinality(S))
    BY <1>5
  <1>8. IsSum(it, v, S)
    <2> HIDE DEF D
    <2>. QED BY <1>6, <1>7 DEF IsSum
  <1>. QED
    BY <1>8

\* Disjoint sets count for what they have together.
LEMMA DisjointUnion ==
    ASSUME NEW P, NEW Q, IsFiniteSet(P), IsFiniteSet(Q), P \intersect Q = {}
    PROVE  /\ IsFiniteSet(P \union Q)
           /\ Cardinality(P \union Q) = Cardinality(P) + Cardinality(Q)
  <1>1. Cardinality(P) \in Nat /\ Cardinality(Q) \in Nat /\ Cardinality(P \intersect Q) = 0
    BY FS_CardinalityType, FS_EmptySet
  <1>2. /\ IsFiniteSet(P \union Q)
        /\ Cardinality(P \union Q) = Cardinality(P) + Cardinality(Q) - Cardinality(P \intersect Q)
    BY FS_Union
  <1>. QED
    BY <1>1, <1>2

\* A sum of cardinalities of disjoint sets is that of their union.
LEMMA SumIsCount ==
    ASSUME NEW S, IsFiniteSet(S), NEW v, NEW A, NEW it, IsSum(it, v, S),
           \A i \in S : IsFiniteSet(A[i]) /\ v[i] = Cardinality(A[i]),
           \A i, j \in S : i # j => A[i] \intersect A[j] = {}
    PROVE  it[S] = Cardinality(UNION {A[i] : i \in S})
  <1> DEFINE U(s) == UNION {A[i] : i \in s}
             N == {n \in Nat : \A s \in SUBSET S : Cardinality(s) = n =>
                                  IsFiniteSet(U(s)) /\ it[s] = Cardinality(U(s))}
  <1>1. \A s \in SUBSET S : IsFiniteSet(s) /\ Cardinality(s) \in Nat
    BY FS_Subset, FS_CardinalityType
  <1>2. 0 \in N
    <2>1. \A s \in SUBSET S : Cardinality(s) = 0 => s = {}
      BY <1>1, FS_EmptySet
    <2>2. U({}) = {} /\ it[{}] = 0
      BY DEF IsSum
    <2>. QED BY <2>1, <2>2, FS_EmptySet
  <1>3. ASSUME NEW n \in Nat, n \in N PROVE n + 1 \in N
    <2>1. SUFFICES ASSUME NEW s \in SUBSET S, Cardinality(s) = n + 1
                   PROVE  IsFiniteSet(U(s)) /\ it[s] = Cardinality(U(s))
      OBVIOUS
    <2> DEFINE x == CHOOSE x \in s : TRUE
               t == s \ {x}
    <2>2. s # {}
      <3>1. Cardinality({}) = 0
        BY FS_EmptySet
      <3>. QED BY <2>1, <3>1
    <2>3. x \in s /\ it[s] = v[x] + it[t]
      <3>1. it[s] = [r \in SUBSET S |-> IF r = {} THEN 0
                         ELSE v[CHOOSE y \in r : TRUE] + it[r \ {CHOOSE y \in r : TRUE}]][s]
        BY DEF IsSum
      <3>2. it[s] = v[x] + it[t]
        BY <2>2, <3>1
      <3>3. x \in s
        BY <2>2
      <3> HIDE DEF x
      <3>. QED BY <3>2, <3>3
    <2> HIDE DEF x
    <2>4. t \in SUBSET S /\ Cardinality(t) = n
      <3>1. IsFiniteSet(s)
        BY <1>1
      <3>2. Cardinality(s \ {x}) = Cardinality(s) - 1
        BY <2>3, <3>1, FS_RemoveElement
      <3>. QED BY <2>1, <3>2
    <2>5. IsFiniteSet(U(t)) /\ it[t] = Cardinality(U(t))
      BY <1>3, <2>4
    <2>6. U(s) = U(t) \union A[x]
      BY <2>3
    <2>7. U(t) \intersect A[x] = {}
      BY <2>3
    <2>8. IsFiniteSet(A[x]) /\ v[x] = Cardinality(A[x])
      BY <2>3
    <2> HIDE DEF U
    <2>9. /\ IsFiniteSet(U(t) \union A[x])
          /\ Cardinality(U(t) \union A[x]) = Cardinality(U(t)) + Cardinality(A[x])
      BY <2>5, <2>7, <2>8, DisjointUnion
    <2>10. Cardinality(U(t)) \in Nat /\ Cardinality(A[x]) \in Nat
      BY <2>5, <2>8, FS_CardinalityType
    <2>. QED BY <2>3, <2>5, <2>6, <2>8, <2>9, <2>10
  <1>4. Cardinality(S) \in N
    <2> HIDE DEF N
    <2>. QED BY <1>1, <1>2, <1>3, Counting
  <1>. QED
    BY <1>1, <1>4

-----------------------------------------------------------------------------
(***************************************************************************)
(* What the client and the history are told.                               *)
(***************************************************************************)
\* The rows of a request that has recorded all its files are one for each file,
\* and each is what LedgerRow makes of the file's pages.
LEMMA RowsOfDone ==
    ASSUME RInv, NEW r \in Requests, next[r] = Len(call[r].uploads) + 1
    PROVE  /\ IsFiniteSet(RowsOf(r))
           /\ \A i \in RowsOf(r) : /\ ledger[i].file \in Files(r)
                                   /\ ledger[i] = LedgerRow(r, ledger[i].file)
           /\ \A i, j \in RowsOf(r) : i # j => ledger[i].file # ledger[j].file
           /\ \A f \in Files(r) : \E i \in RowsOf(r) : ledger[i].file = f
  <1>1. TypeOK /\ OneRowPerFile /\ RowsStand /\ ledger \in Seq(LedgerRows) /\ Len(ledger) \in Nat
    <2>1. TypeOK /\ OneRowPerFile /\ RowsStand
      BY DEF RInv, IInv
    <2>2. ledger \in Seq(LedgerRows)
      BY <2>1 DEF TypeOK
    <2>3. Len(ledger) \in Nat
      BY <2>2
    <2>. QED BY <2>1, <2>2, <2>3
  <1>2. RowsOf(r) \subseteq 1..Len(ledger) /\ IsFiniteSet(1..Len(ledger))
    <2>1. DOMAIN ledger = 1..Len(ledger)
      BY <1>1
    <2>2. IsFiniteSet(1..Len(ledger))
      BY <1>1, FS_Interval
    <2>. QED BY <2>1, <2>2 DEF RowsOf
  <1>3. IsFiniteSet(RowsOf(r))
    BY <1>2, FS_Subset
  <1>4. ASSUME NEW i \in RowsOf(r)
        PROVE  ledger[i].file \in Files(r) /\ ledger[i] = LedgerRow(r, ledger[i].file)
    <2>1. PICK q \in Requests : \E g \in Files(q) : ledger[i] = LedgerRow(q, g)
      BY <1>1 DEF RowsStand, RowsOf
    <2>2. PICK g \in Files(q) : ledger[i] = LedgerRow(q, g)
      BY <2>1
    <2>3. ledger[i].req = q /\ ledger[i].file = g /\ ledger[i].req = r
      BY <2>2 DEF LedgerRow, RowsOf
    <2>. QED BY <2>2, <2>3
  <1>5. ASSUME NEW i \in RowsOf(r), NEW j \in RowsOf(r), i # j
        PROVE  ledger[i].file # ledger[j].file
    <2>1. i \in Nat /\ j \in Nat
      BY <1>2
    <2>2. \A k \in RowsOf(r) : ledger[k].file \in Nat
      BY <1>1, RowFacts DEF RowsOf
    <2>. QED BY <1>1, <1>5, <2>1, <2>2 DEF OneRowPerFile
  <1>6. ASSUME NEW f \in Files(r) PROVE \E i \in RowsOf(r) : ledger[i].file = f
    <2>1. call[r] \in Calls
      BY <1>1 DEF TypeOK
    <2>2. f < next[r]
      BY <2>1, CallFacts DEF Files
    <2>. QED BY <1>1, <2>2 DEF OneRowPerFile
  <1>. QED
    BY <1>3, <1>4, <1>5, <1>6

\* The two columns of the ledger that a reply and a run add up.
LEMMA LedgerAddsUp ==
    ASSUME RInv, NEW r \in Requests, next[r] = Len(call[r].uploads) + 1
    PROVE  /\ MapThenSumSet(LAMBDA i : ledger[i].quantity, RowsOf(r)) = Cardinality(OkPages(r))
           /\ MapThenSumSet(LAMBDA i : ledger[i].pages, RowsOf(r)) = Cardinality(Pages(r))
  <1> DEFINE S == RowsOf(r)
             ok == [i \in S |-> OkIn(r, ledger[i].file)]
             all == [i \in S |-> FilePages(r, ledger[i].file)]
             Q(it) == it = [s \in SUBSET S |-> IF s = {} THEN 0
                                ELSE ledger[CHOOSE x \in s : TRUE].quantity
                                     + it[s \ {CHOOSE x \in s : TRUE}]]
             P(it) == it = [s \in SUBSET S |-> IF s = {} THEN 0
                                ELSE ledger[CHOOSE x \in s : TRUE].pages
                                     + it[s \ {CHOOSE x \in s : TRUE}]]
             q == [i \in S |-> ledger[i].quantity]
             p == [i \in S |-> ledger[i].pages]
  <1>1. /\ TypeOK /\ call[r] \in Calls /\ IsFiniteSet(S)
        /\ \A i \in S : /\ ledger[i].file \in Files(r)
                        /\ ledger[i] = LedgerRow(r, ledger[i].file)
        /\ \A i, j \in S : i # j => ledger[i].file # ledger[j].file
        /\ \A f \in Files(r) : \E i \in S : ledger[i].file = f
    BY RowsOfDone DEF RInv, IInv, TypeOK
  <1>2. /\ IsFiniteSet(Pages(r)) /\ \A x \in Pages(r) : x[1] \in Files(r)
    BY <1>1, PagesFacts DEF Pages, Files
  <1>3. \A i \in S : /\ IsFiniteSet(ok[i]) /\ q[i] = Cardinality(ok[i])
                     /\ IsFiniteSet(all[i]) /\ p[i] = Cardinality(all[i])
    <2>1. \A f : OkIn(r, f) \in SUBSET Pages(r) /\ FilePages(r, f) \in SUBSET Pages(r)
      BY DEF OkIn, FilePages
    <2>2. \A f : /\ LedgerRow(r, f).quantity = Cardinality(OkIn(r, f))
                 /\ LedgerRow(r, f).pages = Cardinality(FilePages(r, f))
      BY DEF LedgerRow
    <2>3. \A f : IsFiniteSet(OkIn(r, f)) /\ IsFiniteSet(FilePages(r, f))
      BY <1>2, <2>1, FS_Subset
    <2>. QED BY <1>1, <2>2, <2>3
  <1>4. \A i, j \in S : i # j => ok[i] \intersect ok[j] = {} /\ all[i] \intersect all[j] = {}
    BY <1>1 DEF OkIn, FilePages
  <1>5. UNION {ok[i] : i \in S} = OkPages(r) /\ UNION {all[i] : i \in S} = Pages(r)
    BY <1>1, <1>2 DEF OkIn, FilePages, OkPages
  <1>6. MapThenSumSet(LAMBDA i : ledger[i].quantity, S) = Cardinality(OkPages(r))
    <2>1. MapThenSumSet(LAMBDA i : ledger[i].quantity, S) = (CHOOSE it : Q(it))[S]
      BY DEF MapThenSumSet, MapThenFoldSet
    <2>2. \A it : Q(it) <=> IsSum(it, q, S)
      BY DEF IsSum
    <2> HIDE DEF Q, q, ok, S
    <2>3. \E it : Q(it)
      BY <1>1, <2>2, SumExists
    <2>4. IsSum(CHOOSE it : Q(it), q, S)
      BY <2>2, <2>3
    <2>5. IsFiniteSet(S) /\ \A i \in S : IsFiniteSet(ok[i]) /\ q[i] = Cardinality(ok[i])
      BY <1>1, <1>3
    <2>6. \A i, j \in S : i # j => ok[i] \intersect ok[j] = {}
      BY <1>4
    <2>7. \A it : IsSum(it, q, S) => it[S] = Cardinality(UNION {ok[i] : i \in S})
      BY <2>5, <2>6, SumIsCount
    <2>8. (CHOOSE it : Q(it))[S] = Cardinality(UNION {ok[i] : i \in S})
      BY <2>4, <2>7
    <2>. QED BY <1>5, <2>1, <2>8
  <1>7. MapThenSumSet(LAMBDA i : ledger[i].pages, S) = Cardinality(Pages(r))
    <2>1. MapThenSumSet(LAMBDA i : ledger[i].pages, S) = (CHOOSE it : P(it))[S]
      BY DEF MapThenSumSet, MapThenFoldSet
    <2>2. \A it : P(it) <=> IsSum(it, p, S)
      BY DEF IsSum
    <2> HIDE DEF P, p, all, S
    <2>3. \E it : P(it)
      BY <1>1, <2>2, SumExists
    <2>4. IsSum(CHOOSE it : P(it), p, S)
      BY <2>2, <2>3
    <2>5. IsFiniteSet(S) /\ \A i \in S : IsFiniteSet(all[i]) /\ p[i] = Cardinality(all[i])
      BY <1>1, <1>3
    <2>6. \A i, j \in S : i # j => all[i] \intersect all[j] = {}
      BY <1>4
    <2>7. \A it : IsSum(it, p, S) => it[S] = Cardinality(UNION {all[i] : i \in S})
      BY <2>5, <2>6, SumIsCount
    <2>8. (CHOOSE it : P(it))[S] = Cardinality(UNION {all[i] : i \in S})
      BY <2>4, <2>7
    <2>. QED BY <1>5, <2>1, <2>8
  <1>. QED
    BY <1>6, <1>7
\* What a client that was answered has read, and what a stored run says, is of
\* the pages as they are now, and of a request that has written all its rows.
Told ==
    /\ \A r \in Requests : stage[r] = "answered" =>
          next[r] = Len(call[r].uploads) + 1 /\ reply[r] = Success(r)
    /\ \A x \in runs : /\ stage[x.req] \in {"replying", "answered", "lost"}
                       /\ next[x.req] = Len(call[x.req].uploads) + 1
                       /\ call[x.req].route = "test"
                       /\ x = RunRow(x.req)

\* A reply and a run are made of the request's call and of its pages.
LEMMA SameAnswer ==
    ASSUME NEW r \in Requests, call'[r] = call[r], job'[r] = job[r]
    PROVE  Success(r)' = Success(r) /\ RunRow(r)' = RunRow(r)
  BY DEF Success, RunRow, Files, Pages, FilePages, OkIn, OkPages

\* Past its rows, a request only replies or is lost, and what it says stands.
LEMMA DoneStands ==
    ASSUME TypeOK, [Next]_vars, NEW r \in Requests,
           stage[r] \in {"replying", "answered", "lost"}
    PROVE  /\ call'[r] = call[r] /\ job'[r] = job[r] /\ next'[r] = next[r]
           /\ stage'[r] \in {"replying", "answered", "lost"}
           /\ stage[r] = "answered" => stage'[r] = "answered" /\ reply'[r] = reply[r]
  <1>1. /\ stage \in [Requests -> Stages] /\ DOMAIN next = Requests
        /\ DOMAIN job = Requests /\ DOMAIN reply = Requests
    BY DEF TypeOK
  <1>2. CASE UNCHANGED vars \/ DeleteRuns
    BY <1>2 DEF vars, DeleteRuns
  <1>3. ASSUME NEW q \in Requests, NEW p \in Pages(q), PageStep(q, p)
        PROVE  call' = call /\ next' = next /\ stage' = stage /\ reply' = reply /\ job'[r] = job[r]
    <2>1. stage[q] = "pool" /\ UNCHANGED <<call, stage, next, reply>>
      BY <1>3, PageStepEffect
    <2>2. PICK j \in JobRecords : job' = [job EXCEPT ![q][p] = j]
      BY <1>3, PageStepEffect
    <2>. QED BY <1>1, <2>1, <2>2
  <1>4. ASSUME NEW q \in Requests, Refuse(q) \/ Accept(q) \/ PoolCloses(q) \/ WriteFails(q)
        PROVE  call' = call /\ job' = job /\ next' = next /\ stage'[r] = stage[r] /\ reply'[r] = reply[r]
    <2>1. q # r
      BY <1>4 DEF Refuse, Accept, PoolCloses, WriteFails
    <2>2. CASE Refuse(q) \/ WriteFails(q)
      BY <1>1, <2>1, <2>2 DEF Refuse, WriteFails
    <2>3. CASE Accept(q) \/ PoolCloses(q)
      BY <1>1, <2>1, <2>3 DEF Accept, PoolCloses
    <2>. QED BY <1>4, <2>2, <2>3
  <1>5. ASSUME NEW q \in Requests, AppendRow(q)
        PROVE  call' = call /\ job' = job /\ next'[r] = next[r] /\ stage' = stage /\ reply' = reply
    BY <1>1, <1>5 DEF AppendRow
  <1>6. ASSUME NEW q \in Requests, RecordRun(q)
        PROVE  call' = call /\ job' = job /\ next' = next /\ stage'[r] = stage[r] /\ reply' = reply
    BY <1>1, <1>6 DEF RecordRun, Recorded
  <1>7. ASSUME NEW q \in Requests, Respond(q)
        PROVE  /\ call' = call /\ job' = job /\ next' = next
               /\ q # r => stage'[r] = stage[r] /\ reply'[r] = reply[r]
               /\ q = r => stage[r] = "replying" /\ stage'[r] = "answered"
    BY <1>1, <1>7 DEF Respond, Recorded
  <1>8. ASSUME Crash
        PROVE  /\ call' = call /\ job' = job /\ next' = next /\ reply' = reply
               /\ stage'[r] \in {stage[r], "lost"} /\ (stage[r] = "answered" => stage'[r] = stage[r])
    BY <1>8 DEF Crash, InProgress
  <1>. QED
    BY <1>2, <1>3, <1>4, <1>5, <1>6, <1>7, <1>8 DEF Next, RequestStep

\* Replies come from Respond and runs from RecordRun, whatever else goes on.
LEMMA OnlyTellers ==
    ASSUME TypeOK, [Next]_vars
    PROVE  /\ \A r \in Requests : stage'[r] = "answered" => stage[r] = "answered" \/ Respond(r)
           /\ \A x \in runs' : x \in runs \/ \E r \in Requests : RecordRun(r) /\ x = RunRow(r)
  <1>1. stage \in [Requests -> Stages]
    BY DEF TypeOK
  <1>2. ASSUME NEW q \in Requests, NEW p \in Pages(q), PageStep(q, p)
        PROVE  UNCHANGED <<stage, runs>>
    BY <1>2, PageStepEffect
  <1>3. ASSUME NEW q \in Requests,
               Refuse(q) \/ Accept(q) \/ PoolCloses(q) \/ AppendRow(q) \/ WriteFails(q)
        PROVE  runs' = runs /\ \A r \in Requests : stage'[r] = "answered" => stage[r] = "answered"
    BY <1>1, <1>3 DEF Refuse, Accept, PoolCloses, AppendRow, WriteFails
  <1>4. ASSUME NEW q \in Requests, RecordRun(q)
        PROVE  /\ runs' = runs \union {RunRow(q)}
               /\ \A r \in Requests : stage'[r] = "answered" => stage[r] = "answered"
    BY <1>1, <1>4 DEF RecordRun
  <1>5. ASSUME NEW q \in Requests, Respond(q)
        PROVE  /\ runs' = runs
               /\ \A r \in Requests : stage'[r] = "answered" => stage[r] = "answered" \/ r = q
    BY <1>1, <1>5 DEF Respond
  <1>6. ASSUME Crash
        PROVE  runs' = runs /\ \A r \in Requests : stage'[r] = "answered" => stage[r] = "answered"
    BY <1>6 DEF Crash
  <1>7. CASE UNCHANGED vars \/ DeleteRuns
    BY <1>7 DEF vars, DeleteRuns
  <1>8. CASE \E q \in Requests : RecordRun(q)
    <2>1. PICK q \in Requests : RecordRun(q)
      BY <1>8
    <2>. QED BY <1>4, <2>1
  <1>9. CASE \E q \in Requests : Respond(q)
    <2>1. PICK q \in Requests : Respond(q)
      BY <1>9
    <2>. QED BY <1>5, <2>1
  <1>. QED
    BY <1>2, <1>3, <1>6, <1>7, <1>8, <1>9 DEF Next, RequestStep

\* A request that records a run or replies has written its last row.
LEMMA TellersAreDone ==
    ASSUME RInv, NEW r \in Requests, RecordRun(r) \/ Respond(r)
    PROVE  next[r] = Len(call[r].uploads) + 1
  <1>1. /\ next[r] \in Nat /\ Len(call[r].uploads) \in Nat
        /\ next[r] <= Len(call[r].uploads) + 1
    BY CallFacts DEF RInv, IInv, TypeOK, StageOK
  <1>2. CASE Recorded(r)
    BY <1>1, <1>2 DEF Recorded
  <1>3. CASE stage[r] = "replying"
    BY <1>3 DEF RInv, Counted
  <1>. QED
    BY <1>2, <1>3 DEF RecordRun, Respond

\* Nobody has been told anything.
LEMMA ToldInit == Init => Told
  BY DEF Init, Told

\* What was said stays true, and what is said next is true.
LEMMA ToldStep == RInv /\ Told /\ [Next]_vars => Told'
  <1>1. SUFFICES ASSUME RInv, Told, [Next]_vars PROVE Told'
    OBVIOUS
  <1>2. /\ TypeOK /\ runs \subseteq RunRows /\ DOMAIN stage = Requests /\ DOMAIN reply = Requests
    BY <1>1 DEF RInv, IInv, TypeOK
  <1>3. ASSUME NEW r \in Requests, stage'[r] = "answered"
        PROVE  next'[r] = Len(call'[r].uploads) + 1 /\ reply'[r] = Success(r)'
    <2>1. CASE stage[r] = "answered"
      BY <1>1, <1>2, <2>1, DoneStands, SameAnswer DEF Told
    <2>2. CASE Respond(r)
      <3>1. UNCHANGED <<call, job, next>> /\ reply'[r] = Success(r)
        BY <1>2, <2>2 DEF Respond
      <3>2. next[r] = Len(call[r].uploads) + 1
        BY <1>1, <2>2, TellersAreDone
      <3>. QED BY <3>1, <3>2, SameAnswer
    <2>. QED BY <1>1, <1>2, <1>3, <2>1, <2>2, OnlyTellers
  <1>4. ASSUME NEW x \in runs'
        PROVE  /\ stage'[x.req] \in {"replying", "answered", "lost"}
               /\ next'[x.req] = Len(call'[x.req].uploads) + 1
               /\ call'[x.req].route = "test"
               /\ x = RunRow(x.req)'
    <2>1. CASE x \in runs
      <3>1. x.req \in Requests
        BY <1>2, <2>1 DEF RunRows
      <3> DEFINE r == x.req
      <3>2. /\ stage[r] \in {"replying", "answered", "lost"} /\ call[r].route = "test"
            /\ next[r] = Len(call[r].uploads) + 1 /\ x = RunRow(r)
        BY <1>1, <2>1 DEF Told
      <3>3. /\ call'[r] = call[r] /\ job'[r] = job[r] /\ next'[r] = next[r]
            /\ stage'[r] \in {"replying", "answered", "lost"}
        BY <1>1, <1>2, <3>1, <3>2, DoneStands
      <3>4. RunRow(r)' = RunRow(r)
        BY <3>1, <3>3, SameAnswer
      <3>. QED BY <3>2, <3>3, <3>4
    <2>2. CASE \E r \in Requests : RecordRun(r) /\ x = RunRow(r)
      <3>1. PICK r \in Requests : RecordRun(r) /\ x = RunRow(r)
        BY <2>2
      <3>2. x.req = r
        BY <3>1 DEF RunRow
      <3>3. UNCHANGED <<call, job, next>> /\ stage'[r] = "replying" /\ call[r].route = "test"
        BY <1>2, <3>1 DEF RecordRun
      <3>4. next[r] = Len(call[r].uploads) + 1
        BY <1>1, <3>1, TellersAreDone
      <3>5. RunRow(r)' = RunRow(r)
        BY <3>3, SameAnswer
      <3>. QED BY <3>1, <3>2, <3>3, <3>4, <3>5
    <2>. QED BY <1>1, <1>2, <2>1, <2>2, OnlyTellers
  <1>. QED
    BY <1>3, <1>4 DEF Told

\* What is told holds in every reachable state.
LEMMA TruthIsTold == Spec => [](RInv /\ Told)
  BY RefinementInvariant, ToldInit, ToldStep, PTL DEF Spec

\* A run that is told the truth about has its rows.
LEMMA ToldImpliesBacked == RInv /\ Told => RunsAreBacked
  <1>1. SUFFICES ASSUME RInv, Told, NEW x \in runs
                 PROVE  /\ stage[x.req] \in {"replying", "answered", "lost"}
                        /\ \A f \in Files(x.req) : \E i \in RowsOf(x.req) :
                              ledger[i].file = f /\ ledger[i].tenant = TestTenant
                        /\ x.ok_count = MapThenSumSet(LAMBDA i : ledger[i].quantity, RowsOf(x.req))
                        /\ x.page_count = MapThenSumSet(LAMBDA i : ledger[i].pages, RowsOf(x.req))
    BY DEF RunsAreBacked
  <1> DEFINE r == x.req
  <1>2. r \in Requests
    BY <1>1 DEF RInv, IInv, TypeOK, RunRows
  <1>3. /\ stage[r] \in {"replying", "answered", "lost"}
        /\ next[r] = Len(call[r].uploads) + 1 /\ call[r].route = "test" /\ x = RunRow(r)
    BY <1>1 DEF Told
  <1>4. /\ \A i \in RowsOf(r) : /\ ledger[i].file \in Files(r)
                                /\ ledger[i] = LedgerRow(r, ledger[i].file)
        /\ \A f \in Files(r) : \E i \in RowsOf(r) : ledger[i].file = f
    BY <1>1, <1>2, <1>3, RowsOfDone
  <1>5. \A f : LedgerRow(r, f).tenant = TestTenant
    BY <1>3 DEF LedgerRow, Tenant
  <1>6. /\ MapThenSumSet(LAMBDA i : ledger[i].quantity, RowsOf(r)) = Cardinality(OkPages(r))
        /\ MapThenSumSet(LAMBDA i : ledger[i].pages, RowsOf(r)) = Cardinality(Pages(r))
    BY <1>1, <1>2, <1>3, LedgerAddsUp
  <1>7. RunRow(r).ok_count = Cardinality(OkPages(r)) /\ RunRow(r).page_count = Cardinality(Pages(r))
    BY DEF RunRow
  <1>8. \A f \in Files(r) : \E i \in RowsOf(r) : ledger[i].file = f /\ ledger[i].tenant = TestTenant
    BY <1>4, <1>5
  <1>. QED
    BY <1>3, <1>6, <1>7, <1>8

\* A run in the history stands for rows in the ledger: for every set of
\* requests, however they overlap and wherever writes fail or the process dies,
\* its counts are what its rows add up to.
THEOREM RunsAreTrue == Spec => []RunsAreBacked
  BY TruthIsTold, ToldImpliesBacked, PTL

\* A reply that is told the truth agrees with the rows.
LEMMA ToldImpliesAgrees == RInv /\ Told => ReplyAgreesWithLedger
  <1>1. SUFFICES ASSUME RInv, Told, NEW r \in Requests, stage[r] = "answered"
                 PROVE  /\ {ledger[i].file : i \in RowsOf(r)} = DOMAIN reply[r].files
                        /\ \A i \in RowsOf(r) :
                              LET told == reply[r].files[ledger[i].file] IN
                              /\ told.ok = ledger[i].ok
                              /\ told.page_count = ledger[i].pages
                              /\ Cardinality(told.ok_pages) = ledger[i].quantity
                        /\ reply[r].ok_count = MapThenSumSet(LAMBDA i : ledger[i].quantity, RowsOf(r))
                        /\ reply[r].ok_count + reply[r].fail_count = Cardinality(Pages(r))
    BY DEF ReplyAgreesWithLedger
  <1>2. next[r] = Len(call[r].uploads) + 1 /\ reply[r] = Success(r)
    BY <1>1 DEF Told
  <1>3. /\ \A i \in RowsOf(r) : /\ ledger[i].file \in Files(r)
                                /\ ledger[i] = LedgerRow(r, ledger[i].file)
        /\ \A f \in Files(r) : \E i \in RowsOf(r) : ledger[i].file = f
    BY <1>1, <1>2, RowsOfDone
  <1>4. MapThenSumSet(LAMBDA i : ledger[i].quantity, RowsOf(r)) = Cardinality(OkPages(r))
    BY <1>1, <1>2, LedgerAddsUp
  <1>5. /\ Success(r).files = [f \in Files(r) |->
              [page_count |-> Cardinality(FilePages(r, f)),
               ok_pages   |-> OkIn(r, f),
               ok         |-> FilePages(r, f) # {} /\ OkIn(r, f) = FilePages(r, f)]]
        /\ Success(r).ok_count = Cardinality(OkPages(r))
        /\ Success(r).fail_count = Cardinality(Pages(r)) - Cardinality(OkPages(r))
    BY DEF Success
  <1>6. \A f \in Files(r) : /\ Success(r).files[f].page_count = LedgerRow(r, f).pages
                            /\ Cardinality(Success(r).files[f].ok_pages) = LedgerRow(r, f).quantity
    BY <1>5 DEF LedgerRow
  <1>7. ASSUME NEW f \in Files(r) PROVE Success(r).files[f].ok = LedgerRow(r, f).ok
    <2>1. Success(r).files[f].ok = (FilePages(r, f) # {} /\ OkIn(r, f) = FilePages(r, f))
      BY <1>5
    <2>2. LedgerRow(r, f).ok =
            (FilePages(r, f) # {} /\ \A p \in FilePages(r, f) : job[r][p].at = "ok")
      BY DEF LedgerRow
    <2>3. OkIn(r, f) = FilePages(r, f) <=> \A p \in FilePages(r, f) : job[r][p].at = "ok"
      BY DEF OkIn
    <2>. QED BY <2>1, <2>2, <2>3
  <1>8. Success(r).ok_count + Success(r).fail_count = Cardinality(Pages(r))
    <2>1. IsFiniteSet(Pages(r)) /\ OkPages(r) \subseteq Pages(r)
      BY <1>1, PagesFacts DEF RInv, IInv, TypeOK, Pages, OkPages
    <2>2. Cardinality(Pages(r)) \in Nat /\ Cardinality(OkPages(r)) \in Nat
      BY <2>1, FS_Subset, FS_CardinalityType
    <2>. QED BY <1>5, <2>2
  <1>9. {ledger[i].file : i \in RowsOf(r)} = DOMAIN Success(r).files
    BY <1>3, <1>5
  <1>10. \A i \in RowsOf(r) : /\ Success(r).files[ledger[i].file].ok = ledger[i].ok
                              /\ Success(r).files[ledger[i].file].page_count = ledger[i].pages
                              /\ Cardinality(Success(r).files[ledger[i].file].ok_pages)
                                   = ledger[i].quantity
    BY <1>3, <1>6, <1>7
  <1>11. Success(r).ok_count = MapThenSumSet(LAMBDA i : ledger[i].quantity, RowsOf(r))
    BY <1>4, <1>5
  <1>. QED
    BY <1>2, <1>8, <1>9, <1>10, <1>11

\* Whoever got a 200 finds its verdicts and counts in the ledger, for every
\* number of files and pages, as long as the table is kept.
THEOREM RepliesAreTrue == Spec => []ReplyAgreesWithLedger
  BY TruthIsTold, ToldImpliesAgrees, PTL
=============================================================================

--------------------------- MODULE HistoryProofs ---------------------------
(***************************************************************************)
(* Proofs about History, for any number of browsers, runs and requests in  *)
(* flight.                                                                 *)
(*                                                                         *)
(* AUTOINCREMENT never gives an id twice, so that an id names one run for  *)
(* ever: the run recorded as the id-th.  The invariant says so of every    *)
(* place where a pair of the two is kept, the table, the lists on screen   *)
(* and the messages under way, however old they are.                       *)
(***************************************************************************)
EXTENDS History, FiniteSetTheorems, TLAPS

\* What pairs an id with a run pairs it with its own.
Truthful(list) == \A id \in DOMAIN list : list[id] = id

MessageOK(q) ==
    /\ q.kind = "listed" => Truthful(q.runs)
    /\ q.kind \in {"detail", "detailed"} => q.seen = q.id
    /\ q.kind = "detailed" => q.run \in {None, q.id}
    /\ q.kind = "delete" => \A id \in q.ids : q.seen[id] = id

TableOK ==
    /\ largest \in Nat /\ recorded = largest
    /\ DOMAIN table \subseteq 1..largest
    /\ Truthful(table)

BrowserOK(b) == Truthful(view[b]) /\ \A q \in traffic[b] : MessageOK(q)

Shape == DOMAIN view = Browsers /\ DOMAIN detail = Browsers /\ DOMAIN traffic = Browsers

Counted == reported = recorded - Cardinality(DOMAIN table) /\ IsFiniteSet(DOMAIN table)

IInv == TableOK /\ Shape /\ (\A b \in Browsers : BrowserOK(b)) /\ Counted

-----------------------------------------------------------------------------
\* An empty table and empty screens.
LEMMA IInvInit == Init => IInv
  <1>1. SUFFICES ASSUME Init PROVE IInv
    OBVIOUS
  <1>2. DOMAIN table = {} /\ IsFiniteSet({}) /\ Cardinality({}) = 0
    BY <1>1, FS_EmptySet DEF Init, EmptyList
  <1>3. Truthful(EmptyList)
    BY DEF Truthful, EmptyList
  <1>4. QED
    BY <1>1, <1>2, <1>3 DEF Init, IInv, TableOK, Truthful, Shape, BrowserOK, Counted

\* A part of a truthful list is truthful.
LEMMA RestrictedFacts ==
    ASSUME NEW list, Truthful(list), NEW S \in SUBSET DOMAIN list
    PROVE  DOMAIN Restricted(list, S) = S /\ Truthful(Restricted(list, S))
  BY DEF Restricted, Truthful

-----------------------------------------------------------------------------
(***************************************************************************)
(* The invariant, action by action.                                        *)
(***************************************************************************)
\* Messages of browsers are replaced, dropped or added; the table stands.
LEMMA TrafficStep ==
    ASSUME IInv,
           UNCHANGED <<table, largest, recorded, view, reported>>,
           DOMAIN detail' = Browsers, DOMAIN traffic' = Browsers,
           \A b \in Browsers : \A q \in traffic'[b] : q \in traffic[b] \/ MessageOK(q)
    PROVE  IInv'
  <1>1. TableOK' /\ Counted'
    BY DEF IInv, TableOK, Counted
  <1>2. Shape'
    BY DEF IInv, Shape
  <1>3. \A c \in Browsers : BrowserOK(c)'
    BY DEF IInv, Shape, BrowserOK
  <1>4. QED
    BY <1>1, <1>2, <1>3 DEF IInv

\* The new id has not been given before.
LEMMA RecordStep == IInv /\ Record => IInv'
  <1>1. SUFFICES ASSUME IInv, Record PROVE IInv'
    OBVIOUS
  <1> DEFINE new == largest + 1
  <1>2. /\ largest \in Nat /\ recorded = largest /\ DOMAIN table \subseteq 1..largest
        /\ Truthful(table)
        /\ reported = recorded - Cardinality(DOMAIN table) /\ IsFiniteSet(DOMAIN table)
    BY <1>1 DEF IInv, TableOK, Counted
  <1>3. /\ recorded' = new /\ largest' = new
        /\ DOMAIN table' = DOMAIN table \union {new}
        /\ \A i \in DOMAIN table' : table'[i] = IF i = new THEN new ELSE table[i]
        /\ UNCHANGED <<view, detail, traffic, reported>>
    BY <1>1, <1>2 DEF Record
  <1>4. new \notin DOMAIN table
    BY <1>2
  <1>5. TableOK'
    BY <1>2, <1>3 DEF TableOK, Truthful
  <1>6. /\ IsFiniteSet(DOMAIN table')
        /\ Cardinality(DOMAIN table') = Cardinality(DOMAIN table) + 1
    BY <1>2, <1>3, <1>4, FS_AddElement
  <1>7. Counted'
    <2>1. Cardinality(DOMAIN table) \in Nat
      BY <1>2, FS_CardinalityType
    <2>2. QED
      BY <1>2, <1>3, <1>6, <2>1 DEF Counted
  <1>8. Shape' /\ \A b \in Browsers : BrowserOK(b)'
    BY <1>1, <1>3 DEF IInv, Shape, BrowserOK
  <1>9. QED
    BY <1>5, <1>7, <1>8 DEF IInv

\* A delete counts the rows that go.
LEMMA ServeDeleteStep ==
    ASSUME IInv, NEW b \in Browsers, NEW q, ServeDelete(b, q)
    PROVE  IInv'
  <1>1. /\ table' = Restricted(table, DOMAIN table \ q.ids)
        /\ reported' = reported + Cardinality(q.ids \intersect DOMAIN table)
        /\ traffic' = [traffic EXCEPT ![b] = (traffic[b] \ {q}) \union {[kind |-> "deleted"]}]
        /\ UNCHANGED <<largest, recorded, view, detail>>
    BY DEF ServeDelete, Deleted, Replace
  <1>2. /\ largest \in Nat /\ recorded = largest /\ DOMAIN table \subseteq 1..largest
        /\ Truthful(table)
        /\ reported = recorded - Cardinality(DOMAIN table) /\ IsFiniteSet(DOMAIN table)
    BY DEF IInv, TableOK, Counted
  <1>3. DOMAIN table' = DOMAIN table \ q.ids /\ Truthful(table')
    BY <1>1, <1>2, RestrictedFacts
  <1>4. TableOK'
    BY <1>1, <1>2, <1>3 DEF TableOK
  <1>5. Counted'
    <2>1. /\ IsFiniteSet(DOMAIN table \ q.ids)
          /\ Cardinality(DOMAIN table \ q.ids)
               = Cardinality(DOMAIN table) - Cardinality(DOMAIN table \intersect q.ids)
      BY <1>2, FS_Difference
    <2>2. IsFiniteSet(DOMAIN table \intersect q.ids)
      <3>1. DOMAIN table \intersect q.ids \in SUBSET DOMAIN table
        OBVIOUS
      <3>2. QED
        BY <1>2, <3>1, FS_Subset
    <2>3. DOMAIN table \intersect q.ids = q.ids \intersect DOMAIN table
      OBVIOUS
    <2>4. /\ Cardinality(DOMAIN table) \in Nat
          /\ Cardinality(q.ids \intersect DOMAIN table) \in Nat
      BY <1>2, <2>2, <2>3, FS_CardinalityType
    <2>5. /\ IsFiniteSet(DOMAIN table')
          /\ Cardinality(DOMAIN table')
               = Cardinality(DOMAIN table) - Cardinality(q.ids \intersect DOMAIN table)
      BY <1>3, <2>1, <2>3
    <2>6. /\ reported' = reported + Cardinality(q.ids \intersect DOMAIN table)
          /\ recorded' = recorded /\ recorded \in Nat
          /\ reported = recorded - Cardinality(DOMAIN table)
      BY <1>1, <1>2
    <2>7. reported' = recorded' - Cardinality(DOMAIN table')
      BY <2>4, <2>5, <2>6
    <2>8. QED
      BY <2>5, <2>7 DEF Counted
  <1>6. MessageOK([kind |-> "deleted"])
    BY DEF MessageOK
  <1>7. Shape' /\ \A c \in Browsers : BrowserOK(c)'
    BY <1>1, <1>6 DEF IInv, Shape, BrowserOK
  <1>8. QED
    BY <1>4, <1>5, <1>7 DEF IInv

\* What is asked of the server says what the list shows; what is answered, what
\* the table holds.
LEMMA SendStep ==
    ASSUME IInv, NEW b \in Browsers, NEW q, MessageOK(q), Send(b, q)
    PROVE  IInv'
  <1>1. /\ UNCHANGED <<table, largest, recorded, view, detail, reported>>
        /\ traffic' = [traffic EXCEPT ![b] = traffic[b] \union {q}]
    BY DEF Send
  <1>2. /\ DOMAIN detail' = Browsers /\ DOMAIN traffic' = Browsers
        /\ \A c \in Browsers : \A m \in traffic'[c] : m \in traffic[c] \/ MessageOK(m)
    BY <1>1 DEF IInv, Shape
  <1>3. QED
    BY <1>1, <1>2, TrafficStep

\* What a click sends was taken from a truthful list.
LEMMA ClickStep ==
    ASSUME IInv, NEW b \in Browsers,
           \/ AskList(b)
           \/ \E id \in DOMAIN view[b] : ClickRow(b, id)
           \/ \E ids \in SUBSET DOMAIN view[b] : ClickDelete(b, ids)
    PROVE  IInv'
  <1>1. Truthful(view[b])
    BY DEF IInv, BrowserOK
  <1>2. CASE AskList(b)
    BY <1>2, SendStep DEF AskList, MessageOK
  <1>3. ASSUME NEW id \in DOMAIN view[b], ClickRow(b, id) PROVE IInv'
    <2>1. MessageOK([kind |-> "detail", id |-> id, seen |-> view[b][id]])
      BY <1>1 DEF MessageOK, Truthful
    <2>2. QED
      BY <1>3, <2>1, SendStep DEF ClickRow
  <1>4. ASSUME NEW ids \in SUBSET DOMAIN view[b], ClickDelete(b, ids) PROVE IInv'
    <2>1. MessageOK([kind |-> "delete", ids |-> ids, seen |-> Restricted(view[b], ids)])
      BY <1>1 DEF MessageOK, Truthful, Restricted
    <2>2. QED
      BY <1>4, <2>1, SendStep DEF ClickDelete
  <1>5. QED
    BY <1>2, <1>3, <1>4

\* What the server answers was taken from the table.
LEMMA ServeStep ==
    ASSUME IInv, NEW b \in Browsers, NEW q \in traffic[b], Serve(b, q)
    PROVE  IInv'
  <1>1. Truthful(table) /\ MessageOK(q) /\ DOMAIN detail = Browsers /\ DOMAIN traffic = Browsers
    BY DEF IInv, TableOK, BrowserOK, Shape
  <1>2. CASE ServeList(b, q)
    <2>1. Recent = Restricted(table, {i \in DOMAIN table :
                                        Cardinality({j \in DOMAIN table : j > i}) < Limit})
      BY DEF Recent
    <2>2. Truthful(Recent)
      BY <1>1, <2>1, RestrictedFacts
    <2>3. MessageOK([kind |-> "listed", runs |-> Recent])
      BY <2>2 DEF MessageOK
    <2>4. /\ UNCHANGED <<table, largest, recorded, view, detail, reported>>
          /\ traffic' = [traffic EXCEPT ![b] =
                           (traffic[b] \ {q}) \union {[kind |-> "listed", runs |-> Recent]}]
      BY <1>2 DEF ServeList, Replace
    <2>5. /\ DOMAIN traffic' = Browsers
          /\ \A c \in Browsers : \A m \in traffic'[c] : m \in traffic[c] \/ MessageOK(m)
      BY <1>1, <2>3, <2>4
    <2>6. QED
      BY <1>1, <2>4, <2>5, TrafficStep
  <1>3. CASE ServeDetail(b, q)
    <2> DEFINE a == [kind |-> "detailed", id |-> q.id, seen |-> q.seen, run |-> ServedRun(q.id)]
    <2>1. q.kind = "detail" /\ q.seen = q.id
      BY <1>1, <1>3 DEF ServeDetail, MessageOK
    <2>2. ServedRun(q.id) \in {None, q.id}
      BY <1>1 DEF ServedRun, Truthful
    <2>3. MessageOK(a)
      BY <2>1, <2>2 DEF MessageOK
    <2>4. /\ UNCHANGED <<table, largest, recorded, view, detail, reported>>
          /\ traffic' = [traffic EXCEPT ![b] = (traffic[b] \ {q}) \union {a}]
      BY <1>3 DEF ServeDetail, Replace
    <2> HIDE DEF a
    <2>5. /\ DOMAIN traffic' = Browsers
          /\ \A c \in Browsers : \A m \in traffic'[c] : m \in traffic[c] \/ MessageOK(m)
      BY <1>1, <2>3, <2>4
    <2>6. QED
      BY <1>1, <2>4, <2>5, TrafficStep
  <1>4. CASE ServeDelete(b, q)
    BY <1>4, ServeDeleteStep
  <1>5. QED
    BY <1>2, <1>3, <1>4 DEF Serve

\* What arrives replaces what the screen shows, or fails and leaves it.
LEMMA ArriveStep ==
    ASSUME IInv, NEW b \in Browsers, NEW q \in traffic[b], Arrive(b, q) \/ Fails(b, q)
    PROVE  IInv'
  <1>1. MessageOK(q) /\ DOMAIN detail = Browsers /\ DOMAIN traffic = Browsers
    BY DEF IInv, BrowserOK, Shape
  <1>2. CASE ListArrives(b, q)
    <2>1. /\ q.kind = "listed"
          /\ view' = [view EXCEPT ![b] = q.runs]
          /\ detail' = [detail EXCEPT ![b] = None]
          /\ traffic' = [traffic EXCEPT ![b] = traffic[b] \ {q}]
          /\ UNCHANGED <<table, largest, recorded, reported>>
      BY <1>2 DEF ListArrives, Drop
    <2>2. Truthful(q.runs)
      BY <1>1, <2>1 DEF MessageOK
    <2>3. TableOK' /\ Counted'
      BY <2>1 DEF IInv, TableOK, Counted
    <2>4. Shape' /\ \A c \in Browsers : BrowserOK(c)'
      BY <2>1, <2>2 DEF IInv, Shape, BrowserOK
    <2>5. QED
      BY <2>3, <2>4 DEF IInv
  <1>3. CASE DetailArrives(b, q)
    <2>1. /\ UNCHANGED <<table, largest, recorded, view, reported>>
          /\ DOMAIN detail' = Browsers
          /\ traffic' = [traffic EXCEPT ![b] = traffic[b] \ {q}]
      BY <1>1, <1>3 DEF DetailArrives, Drop
    <2>2. /\ DOMAIN traffic' = Browsers
          /\ \A c \in Browsers : \A m \in traffic'[c] : m \in traffic[c] \/ MessageOK(m)
      BY <1>1, <2>1
    <2>3. QED
      BY <2>1, <2>2, TrafficStep
  <1>4. CASE DeleteArrives(b, q)
    <2>1. /\ UNCHANGED <<table, largest, recorded, view, detail, reported>>
          /\ traffic' = [traffic EXCEPT ![b] = (traffic[b] \ {q}) \union {[kind |-> "list"]}]
      BY <1>4 DEF DeleteArrives, Replace
    <2>2. MessageOK([kind |-> "list"])
      BY DEF MessageOK
    <2>3. /\ DOMAIN traffic' = Browsers
          /\ \A c \in Browsers : \A m \in traffic'[c] : m \in traffic[c] \/ MessageOK(m)
      BY <1>1, <2>1, <2>2
    <2>4. QED
      BY <1>1, <2>1, <2>3, TrafficStep
  <1>5. CASE Fails(b, q)
    <2>1. /\ UNCHANGED <<table, largest, recorded, view, detail, reported>>
          /\ traffic' = [traffic EXCEPT ![b] = traffic[b] \ {q}]
      BY <1>5 DEF Fails, Drop
    <2>2. /\ DOMAIN traffic' = Browsers
          /\ \A c \in Browsers : \A m \in traffic'[c] : m \in traffic[c] \/ MessageOK(m)
      BY <1>1, <2>1
    <2>3. QED
      BY <1>1, <2>1, <2>2, TrafficStep
  <1>6. QED
    BY <1>2, <1>3, <1>4, <1>5 DEF Arrive

\* Every step keeps the invariant.
LEMMA IInvStep == IInv /\ [Next]_vars => IInv'
  <1>1. SUFFICES ASSUME IInv, [Next]_vars PROVE IInv'
    OBVIOUS
  <1>2. CASE Record
    BY <1>1, <1>2, RecordStep
  <1>3. ASSUME NEW b \in Browsers,
               \/ AskList(b)
               \/ \E id \in DOMAIN view[b] : ClickRow(b, id)
               \/ \E ids \in SUBSET DOMAIN view[b] : ClickDelete(b, ids)
        PROVE  IInv'
    BY <1>1, <1>3, ClickStep
  <1>4. ASSUME NEW b \in Browsers, NEW q \in traffic[b], Serve(b, q) PROVE IInv'
    BY <1>1, <1>4, ServeStep
  <1>5. ASSUME NEW b \in Browsers, NEW q \in traffic[b], Arrive(b, q) \/ Fails(b, q) PROVE IInv'
    BY <1>1, <1>5, ArriveStep
  <1>6. CASE UNCHANGED vars
    BY <1>1, <1>6 DEF vars, IInv, TableOK, Shape, BrowserOK, Counted
  <1>7. QED
    BY <1>1, <1>2, <1>3, <1>4, <1>5, <1>6 DEF Next

\* So it holds for ever.
LEMMA InductiveInvariant == Spec => []IInv
  BY IInvInit, IInvStep, PTL DEF Spec

-----------------------------------------------------------------------------
(***************************************************************************)
(* What follows.                                                           *)
(***************************************************************************)
\* Deletes that overlap, of any number of browsers, are counted once.
THEOREM CountsAddUp == Spec => []DeletesAreCountedOnce
  <1>1. IInv => DeletesAreCountedOnce
    BY DEF IInv, Counted, DeletesAreCountedOnce
  <1>2. QED
    BY <1>1, InductiveInvariant, PTL

\* Only a delete takes rows away.
LEMMA OnlyDeletesRemove ==
    ASSUME Next, NEW id \in DOMAIN table, id \notin DOMAIN table'
    PROVE  \E b \in Browsers : \E q \in traffic[b] : ServeDelete(b, q)
  <1>1. ~Record
    BY DEF Record
  <1>2. ASSUME NEW b \in Browsers PROVE ~AskList(b)
    BY DEF AskList, Send
  <1>3. ASSUME NEW b \in Browsers, NEW i PROVE ~ClickRow(b, i) /\ ~ClickDelete(b, i)
    BY DEF ClickRow, ClickDelete, Send
  <1>4. ASSUME NEW b \in Browsers, NEW q \in traffic[b]
        PROVE  ~(ServeList(b, q) \/ ServeDetail(b, q) \/ Arrive(b, q) \/ Fails(b, q))
    BY DEF ServeList, ServeDetail, Arrive, ListArrives, DetailArrives, DeleteArrives, Fails
  <1>5. QED
    BY <1>1, <1>2, <1>3, <1>4 DEF Next, Serve

\* However old the list a user acts on, a delete takes away what it showed.
THEOREM DeletesHit == Spec => DeletesHitWhatWasSeen
  <1> DEFINE Hit ==
         \A id \in DOMAIN table : id \notin DOMAIN table' =>
           \E b \in Browsers : \E q \in traffic[b] \ traffic'[b] :
               q.kind = "delete" /\ id \in q.ids /\ q.seen[id] = table[id]
  <1>1. IInv /\ [Next]_vars => [Hit]_vars
    <2>1. SUFFICES ASSUME IInv, Next, NEW id \in DOMAIN table, id \notin DOMAIN table'
                   PROVE  \E b \in Browsers : \E q \in traffic[b] \ traffic'[b] :
                             q.kind = "delete" /\ id \in q.ids /\ q.seen[id] = table[id]
      OBVIOUS
    <2>b. PICK b \in Browsers : \E q \in traffic[b] : ServeDelete(b, q)
      BY <2>1, OnlyDeletesRemove
    <2>2. PICK q \in traffic[b] : ServeDelete(b, q)
      BY <2>b
    <2>3. /\ q.kind = "delete"
          /\ table' = Restricted(table, DOMAIN table \ q.ids)
          /\ traffic' = [traffic EXCEPT ![b] = (traffic[b] \ {q}) \union {[kind |-> "deleted"]}]
      BY <2>2 DEF ServeDelete, Replace
    <2>4. q # [kind |-> "deleted"]
      BY <2>3
    <2>5. q \notin traffic'[b]
      BY <2>1, <2>3, <2>4 DEF IInv, Shape
    <2>6. id \in q.ids
      BY <2>1, <2>3 DEF Restricted
    <2>7. q.seen[id] = id /\ table[id] = id
      BY <2>1, <2>2, <2>3, <2>6 DEF IInv, TableOK, Truthful, BrowserOK, MessageOK
    <2>8. QED
      BY <2>2, <2>3, <2>5, <2>6, <2>7
  <1>2. Spec => [][Hit]_vars
    BY <1>1, InductiveInvariant, PTL DEF Spec
  <1>3. QED
    BY <1>2 DEF DeletesHitWhatWasSeen

\* A detail that appears is that of the row clicked, in whatever order answers
\* arrive and whatever has been deleted meanwhile.
THEOREM DetailsHit == Spec => DetailsAreOfRowsClicked
  <1> DEFINE Clicked ==
         \A b \in Browsers : detail'[b] \notin {detail[b], None} =>
           \E q \in traffic[b] \ traffic'[b] :
               q.kind = "detailed" /\ q.seen = detail'[b]
  <1>1. IInv /\ [Next]_vars => [Clicked]_vars
    <2>1. SUFFICES ASSUME IInv, Next, NEW b \in Browsers, detail'[b] \notin {detail[b], None}
                   PROVE  \E q \in traffic[b] \ traffic'[b] :
                             q.kind = "detailed" /\ q.seen = detail'[b]
      OBVIOUS
    <2>2. DOMAIN detail = Browsers /\ DOMAIN traffic = Browsers
      BY <2>1 DEF IInv, Shape
    <2>3. PICK q \in traffic[b] : DetailArrives(b, q)
      <3>1. ~Record
        BY <2>1 DEF Record
      <3>2. ASSUME NEW c \in Browsers, NEW i
            PROVE  ~AskList(c) /\ ~ClickRow(c, i) /\ ~ClickDelete(c, i)
        BY <2>1 DEF AskList, ClickRow, ClickDelete, Send
      <3>3. ASSUME NEW c \in Browsers, NEW q \in traffic[c]
            PROVE  ~(Serve(c, q) \/ ListArrives(c, q) \/ DeleteArrives(c, q) \/ Fails(c, q))
        BY <2>1, <2>2 DEF Serve, ServeList, ServeDetail, ServeDelete, ListArrives, DeleteArrives,
                          Fails
      <3>4. PICK c \in Browsers : \E q \in traffic[c] : DetailArrives(c, q)
        BY <2>1, <3>1, <3>2, <3>3 DEF Next, Arrive
      <3>5. c = b
        BY <2>1, <2>2, <3>4 DEF DetailArrives
      <3>6. QED
        BY <3>4, <3>5
    <2>4. /\ q.kind = "detailed"
          /\ detail' = IF q.run = None THEN detail ELSE [detail EXCEPT ![b] = q.run]
          /\ traffic' = [traffic EXCEPT ![b] = traffic[b] \ {q}]
      BY <2>3 DEF DetailArrives, Drop
    <2>5. detail'[b] = q.run /\ q.run # None
      BY <2>1, <2>2, <2>4
    <2>6. q.run = q.seen
      BY <2>1, <2>3, <2>4, <2>5 DEF IInv, BrowserOK, MessageOK
    <2>7. QED
      BY <2>2, <2>3, <2>4, <2>5, <2>6
  <1>2. Spec => [][Clicked]_vars
    BY <1>1, InductiveInvariant, PTL DEF Spec
  <1>3. QED
    BY <1>2 DEF DetailsAreOfRowsClicked
=============================================================================

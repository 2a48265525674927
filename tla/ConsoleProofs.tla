--------------------------- MODULE ConsoleProofs ---------------------------
(***************************************************************************)
(* Proofs about Console, for every set of cards and of choices and every   *)
(* number of openings of the section and of calls.                         *)
(*                                                                         *)
(* QuietCardTellsLastRun speaks of cards that wait for nothing.  What      *)
(* makes it inductive is the other half, CardOK: a card that does wait,    *)
(* and whose runs have not overlapped, waits for one call only, made for   *)
(* the choice its form still holds, and is locked with an empty result     *)
(* area.  It is stated of removed cards too: their calls go on.            *)
(***************************************************************************)
EXTENDS Console, FiniteSetTheorems, TLAPS

Card == [there : BOOLEAN, locked : BOOLEAN, choice : Choices \union {NoFiles},
         status : {"", "running", "done", "failed"},
         shown : Choices \union {Nothing}, overlapped : BOOLEAN]

TypesOK ==
    /\ inited \in BOOLEAN /\ leaving \in BOOLEAN
    /\ bound \in Nat
    /\ card \in [Cards -> Card]
    /\ \A k \in calls : k.card \in Cards /\ k.choice \in Choices

\* A card that waits for no call: QuietCardTellsLastRun, of this card.
Quiet(c) ==
    /\ ~card[c].locked
    /\ card[c].status = "running" => leaving
    /\ ~card[c].overlapped => (card[c].shown # Nothing <=> card[c].status = "done")

\* A card in its only run.
InOneRun(c) ==
    /\ card[c].locked
    /\ card[c].status = "running"
    /\ card[c].shown = Nothing
    /\ \A k \in CallsOf(c) : k.choice = card[c].choice
    /\ \A k, l \in CallsOf(c) : k = l

CardOK(c) ==
    /\ CallsOf(c) = {} => Quiet(c)
    /\ CallsOf(c) # {} /\ ~card[c].overlapped => InOneRun(c)

\* Counting the cards means something, and one is left.
CardsOK ==
    /\ IsFiniteSet(Shown)
    /\ inited => Shown # {}

IInv == TypesOK /\ (\A c \in Cards : CardOK(c)) /\ CardsOK

-----------------------------------------------------------------------------
\* A card whose fields and calls are left alone keeps its account, on a page that
\* is not given back once it is being left.
LEMMA SameCard ==
    ASSUME NEW c \in Cards, CardOK(c), card'[c] = card[c], CallsOf(c)' = CallsOf(c),
           leaving' \in {leaving, TRUE}
    PROVE  CardOK(c)'
  BY DEF CardOK, Quiet, InOneRun

\* A card that is new on the page, or on a new page, waits for nothing.
LEMMA FreshCard ==
    ASSUME NEW c \in Cards, CallsOf(c)' = {},
           card'[c] \in {Fresh, [Fresh EXCEPT !.there = TRUE]}
    PROVE  CardOK(c)'
  <1> DEFINE new == [Fresh EXCEPT !.there = TRUE]
  <1>0. /\ ~Fresh.locked /\ ~Fresh.overlapped
        /\ Fresh.shown = Nothing /\ Fresh.status = ""
    BY DEF Fresh
  <1>5. /\ ~new.locked /\ ~new.overlapped
        /\ new.shown = Nothing /\ new.status = ""
    BY DEF Fresh
  <1>1. /\ ~card'[c].locked /\ ~card'[c].overlapped
        /\ card'[c].shown = Nothing /\ card'[c].status = ""
    BY <1>0, <1>5 DEF new
  <1>2. "" # "running" /\ "" # "done"
    OBVIOUS
  <1>. QED
    BY <1>1, <1>2 DEF CardOK, Quiet

\* addRequestCard puts one more card on the page and disturbs no other.
LEMMA AddedCard ==
    ASSUME NEW c \in Cards, TypesOK, CardsOK, \A d \in Cards : CardOK(d),
           CallsOf(c) = {}, card' = Added(card, c), calls' = calls, leaving' = leaving
    PROVE  /\ card' \in [Cards -> Card]
           /\ \A d \in Cards : CardOK(d)'
           /\ IsFiniteSet(Shown)' /\ Shown' # {}
  <1>1. /\ card' = [card EXCEPT ![c] = [Fresh EXCEPT !.there = TRUE]]
        /\ [Fresh EXCEPT !.there = TRUE] \in Card
        /\ [Fresh EXCEPT !.there = TRUE].there
    BY DEF Added, Fresh, Card, NoFiles, Nothing
  <1>2. card' \in [Cards -> Card] /\ card'[c] = [Fresh EXCEPT !.there = TRUE]
    BY <1>1 DEF TypesOK
  <1>3. \A d \in Cards : d # c => card'[d] = card[d]
    BY <1>1 DEF TypesOK
  <1>4. \A d \in Cards : CallsOf(d)' = CallsOf(d)
    BY DEF CallsOf
  <1>5. ASSUME NEW d \in Cards PROVE CardOK(d)'
    <2>1. CASE d = c   BY <2>1, <1>2, <1>4, FreshCard
    <2>2. CASE d # c   BY <2>2, <1>3, <1>4, SameCard
    <2>. QED BY <2>1, <2>2
  <1>6. Shown' = Shown \union {c}
    BY <1>1, <1>2, <1>3 DEF Shown
  <1>. QED
    BY <1>2, <1>5, <1>6, FS_AddElement DEF CardsOK

\* What a change of one card that keeps it on the page leaves alone.
LEMMA OtherCards ==
    ASSUME NEW c \in Cards, TypesOK, NEW v \in Card,
           card' = [card EXCEPT ![c] = v]
    PROVE  /\ card' \in [Cards -> Card]
           /\ card'[c] = v
           /\ \A d \in Cards : d # c => card'[d] = card[d]
           /\ v.there = card[c].there => Shown' = Shown
  BY DEF TypesOK, Shown

-----------------------------------------------------------------------------
\* Filling in the form: a card that is not locked waits for nothing, or has
\* overlapping runs.
LEMMA ChooseStep ==
    ASSUME IInv, NEW c \in Cards, NEW x \in Choices \union {NoFiles}, Choose(c, x)
    PROVE  IInv'
  <1> DEFINE v == [card[c] EXCEPT !.choice = x]
  <1>1. /\ TypesOK /\ card[c] \in Card /\ card' = [card EXCEPT ![c] = v]
        /\ ~card[c].locked /\ calls' = calls /\ inited' = inited /\ bound' = bound
        /\ leaving' = leaving
    BY DEF IInv, TypesOK, Choose
  <1>2. /\ v \in Card /\ v.there = card[c].there /\ v.locked = card[c].locked
        /\ v.status = card[c].status /\ v.shown = card[c].shown
        /\ v.overlapped = card[c].overlapped
    BY <1>1 DEF Card
  <1> HIDE DEF v
  <1>3. /\ card' \in [Cards -> Card] /\ card'[c] = v /\ Shown' = Shown
        /\ \A d \in Cards : d # c => card'[d] = card[d]
    BY <1>1, <1>2, OtherCards
  <1>4. \A d \in Cards : CallsOf(d)' = CallsOf(d)
    BY <1>1 DEF CallsOf
  <1>5. ASSUME NEW d \in Cards PROVE CardOK(d)'
    <2>1. CASE d = c
      <3>1. CardOK(c)   BY DEF IInv
      <3>2. CallsOf(c) = {} \/ card[c].overlapped
        BY <1>1, <3>1 DEF CardOK, InOneRun
      <3>. QED BY <2>1, <3>1, <3>2, <1>1, <1>2, <1>3, <1>4 DEF CardOK, Quiet
    <2>2. CASE d # c   BY <2>2, <1>1, <1>3, <1>4, SameCard DEF IInv
    <2>. QED BY <2>1, <2>2
  <1>. QED
    BY <1>1, <1>3, <1>5 DEF IInv, TypesOK, CardsOK

\* Removing a card: of two cards, one is left.
LEMMA RemoveStep ==
    ASSUME IInv, NEW c \in Cards, RemoveCard(c)
    PROVE  IInv'
  <1> DEFINE v == [card[c] EXCEPT !.there = FALSE]
  <1>1. /\ TypesOK /\ card[c] \in Card /\ card' = [card EXCEPT ![c] = v]
        /\ c \in Shown /\ Cardinality(Shown) > 1 /\ IsFiniteSet(Shown)
        /\ calls' = calls /\ inited' = inited /\ bound' = bound
        /\ leaving' = leaving
    BY DEF IInv, TypesOK, RemoveCard, Shown, CardsOK
  <1>2. /\ v \in Card /\ ~v.there /\ v.locked = card[c].locked
        /\ v.status = card[c].status /\ v.shown = card[c].shown
        /\ v.overlapped = card[c].overlapped /\ v.choice = card[c].choice
    BY <1>1 DEF Card
  <1> HIDE DEF v
  <1>3. /\ card' \in [Cards -> Card] /\ card'[c] = v
        /\ \A d \in Cards : d # c => card'[d] = card[d]
    BY <1>1, <1>2, OtherCards
  <1>4. \A d \in Cards : CallsOf(d)' = CallsOf(d)
    BY <1>1 DEF CallsOf
  <1>5. ASSUME NEW d \in Cards PROVE CardOK(d)'
    <2>1. CASE d = c
      <3>1. CardOK(c)   BY DEF IInv
      <3>. QED BY <2>1, <3>1, <1>1, <1>2, <1>3, <1>4 DEF CardOK, Quiet, InOneRun
    <2>2. CASE d # c   BY <2>2, <1>1, <1>3, <1>4, SameCard DEF IInv
    <2>. QED BY <2>1, <2>2
  <1>6. Shown' = Shown \ {c}
    BY <1>2, <1>3 DEF Shown
  <1>7. /\ IsFiniteSet(Shown \ {c}) /\ Cardinality(Shown \ {c}) = Cardinality(Shown) - 1
        /\ Cardinality(Shown) \in Nat
    BY <1>1, FS_RemoveElement, FS_CardinalityType
  <1>8. Shown \ {c} # {}
    BY <1>1, <1>7, FS_EmptySet
  <1>. QED
    BY <1>1, <1>3, <1>5, <1>6, <1>7, <1>8 DEF IInv, TypesOK, CardsOK

\* A card that starts is locked, its old result cleared; one that was not
\* running and is started once has one call, for the choice in its form.
LEMMA StartedCard ==
    ASSUME IInv, NEW C \in SUBSET Shown, NEW n \in Nat \ {0},
           \A c \in C : card[c].choice # NoFiles, StartRuns(C, n)
    PROVE  IInv'
  <1> DEFINE v(c) == [Started(c) EXCEPT !.overlapped = @ \/ n > 1]
             new == {[card |-> c, choice |-> card[c].choice, no |-> sent + i]
                         : c \in C, i \in 1..n}
  <1>1. /\ TypesOK /\ C \subseteq Cards /\ \A c \in Cards : card[c] \in Card
        /\ inited' = inited /\ bound' = bound /\ leaving' = leaving
    BY DEF IInv, TypesOK, StartRuns, Shown
  <1>2. /\ card' = [c \in Cards |-> IF c \in C THEN v(c) ELSE card[c]]
        /\ calls' = calls \union new
    BY DEF StartRuns
  <1>3. ASSUME NEW c \in Cards
        PROVE  /\ v(c) \in Card /\ v(c).there = card[c].there
               /\ v(c).locked /\ v(c).status = "running" /\ v(c).shown = Nothing
               /\ v(c).choice = card[c].choice
               /\ ~v(c).overlapped => CallsOf(c) = {} /\ n = 1
    <2> DEFINE s == Started(c)
    <2>1. card[c] \in Card   BY <1>1
    <2>2. /\ s \in Card /\ s.there = card[c].there
          /\ s.locked /\ s.status = "running" /\ s.shown = Nothing
          /\ s.choice = card[c].choice
      BY <2>1 DEF Started, Card
    <2>3. s.overlapped <=> CallsOf(c) # {}
      BY <2>1 DEF Started, Card
    <2> HIDE DEF s
    <2>4. /\ v(c) \in Card /\ v(c).there = s.there /\ v(c).choice = s.choice
          /\ v(c).locked = s.locked /\ v(c).status = s.status /\ v(c).shown = s.shown
      BY <2>2 DEF Card, s
    <2>5. v(c).overlapped <=> s.overlapped \/ n > 1
      BY <2>2 DEF Card, s
    <2> HIDE DEF v
    <2>. QED BY <2>2, <2>3, <2>4, <2>5
  <1>4. \A k \in new : k.card \in C /\ k.choice = card[k.card].choice
    OBVIOUS
  <1>5. n = 1 => \A k, l \in new : k.card = l.card => k = l
    OBVIOUS
  <1> HIDE DEF v, new
  <1>6. \A c \in Cards : card'[c] = IF c \in C THEN v(c) ELSE card[c]
    BY <1>2
  <1>7. TypesOK'
    <2>1. \A k \in new : k.card \in Cards /\ k.choice \in Choices
      BY <1>1, <1>4 DEF Card
    <2>2. card' \in [Cards -> Card]
      BY <1>1, <1>2, <1>3
    <2>. QED BY <1>1, <1>2, <2>1, <2>2 DEF TypesOK
  <1>8. ASSUME NEW c \in Cards PROVE CardOK(c)'
    <2>1. CASE c \in C
      <3>1. CallsOf(c)' # {}
        <4>1. [card |-> c, choice |-> card[c].choice, no |-> sent + 1] \in new
          BY <2>1 DEF new
        <4>. QED BY <4>1, <1>2 DEF CallsOf
      <3>2. ASSUME ~card'[c].overlapped PROVE InOneRun(c)'
        <4>1. CallsOf(c) = {} /\ n = 1
          BY <3>2, <2>1, <1>3, <1>6
        <4>2. CallsOf(c)' = {k \in new : k.card = c}
          BY <4>1, <1>2 DEF CallsOf
        <4>. QED BY <2>1, <4>1, <4>2, <1>3, <1>4, <1>5, <1>6 DEF InOneRun
      <3>. QED BY <3>1, <3>2 DEF CardOK
    <2>2. CASE c \notin C
      <3>1. CallsOf(c)' = CallsOf(c)
        BY <2>2, <1>2, <1>4 DEF CallsOf
      <3>. QED BY <2>2, <3>1, <1>1, <1>6, SameCard DEF IInv
    <2>. QED BY <2>1, <2>2
  <1>9. Shown' = Shown
    BY <1>3, <1>6 DEF Shown
  <1>. QED
    BY <1>1, <1>7, <1>8, <1>9 DEF IInv, CardsOK

\* An answer, good or bad: the card's only call is over, and nothing else has
\* touched the card since it was made.
LEMMA AnsweredStep ==
    ASSUME IInv, NEW k \in calls, Answered(k)
    PROVE  /\ IInv'
           /\ ~card[k.card].overlapped => card[k.card].choice = k.choice
  <1> DEFINE c == k.card
             v == IF CallSucceeds(k)
                  THEN [card[c] EXCEPT !.status = "done", !.shown = k.choice, !.locked = FALSE]
                  ELSE IF CallFails(k)
                  THEN [card[c] EXCEPT !.status = "failed", !.locked = FALSE]
                  ELSE [card[c] EXCEPT !.locked = FALSE]
  <1>1. /\ TypesOK /\ c \in Cards /\ k.choice \in Choices /\ card[c] \in Card
        /\ inited' = inited /\ bound' = bound /\ calls' = calls \ {k}
        /\ k \in CallsOf(c) /\ CardOK(c)
    BY DEF IInv, TypesOK, Answered, CallSucceeds, CallFails, CallUnauthorized, CallsOf
  <1>2. card' = [card EXCEPT ![c] = v]
    BY <1>1 DEF Answered, CallSucceeds, CallFails, CallUnauthorized, TypesOK
  <1>3. /\ leaving' \in {leaving, TRUE}
        /\ ~CallSucceeds(k) /\ ~CallFails(k) => leaving' = TRUE
    BY DEF Answered, CallSucceeds, CallFails, CallUnauthorized
  <1>4. /\ v \in Card /\ ~v.locked /\ v.there = card[c].there
        /\ v.overlapped = card[c].overlapped /\ v.choice = card[c].choice
        /\ \/ v.status = "done" /\ v.shown = k.choice
           \/ v.status = "failed" /\ v.shown = card[c].shown
           \/ v.status = card[c].status /\ v.shown = card[c].shown /\ leaving' = TRUE
    BY <1>1, <1>3 DEF Card
  <1> HIDE DEF v
  <1>5. /\ card' \in [Cards -> Card] /\ card'[c] = v /\ Shown' = Shown
        /\ \A d \in Cards : d # c => card'[d] = card[d]
    BY <1>1, <1>2, <1>4, OtherCards
  <1>6. ~card[c].overlapped => /\ CallsOf(c) = {k} /\ card[c].choice = k.choice
                               /\ card[c].shown = Nothing /\ card[c].status = "running"
    BY <1>1 DEF CardOK, InOneRun
  <1>7. ASSUME NEW d \in Cards PROVE CardOK(d)'
    <2>1. CASE d = c
      <3>1. CallsOf(c)' = CallsOf(c) \ {k}
        BY <1>1 DEF CallsOf
      <3>2. CallsOf(c)' # {} => card'[c].overlapped
        BY <3>1, <1>4, <1>5, <1>6
      <3>3. k.choice # Nothing
        BY <1>1, ConsoleAssumption DEF Nothing
      <3>4. Quiet(c)'
        BY <1>3, <1>4, <1>5, <1>6, <3>3 DEF Quiet
      <3>. QED BY <2>1, <3>2, <3>4 DEF CardOK
    <2>2. CASE d # c
      <3>1. CallsOf(d)' = CallsOf(d)
        BY <2>2, <1>1 DEF CallsOf
      <3>. QED BY <2>2, <3>1, <1>3, <1>5, SameCard DEF IInv
    <2>. QED BY <2>1, <2>2
  <1>8. IInv'
    BY <1>1, <1>3, <1>5, <1>7 DEF IInv, TypesOK, CardsOK
  <1>. QED
    BY <1>6, <1>8

\* A page that is left holds no card and waits for nothing.
LEMMA EmptyPage ==
    ASSUME card = [c \in Cards |-> Fresh], calls = {}, inited = FALSE, bound = 0,
           leaving = FALSE
    PROVE  IInv
  <1>1. Fresh \in Card /\ ~Fresh.there /\ ~Fresh.locked /\ ~Fresh.overlapped
        /\ Fresh.shown = Nothing /\ Fresh.status = ""
    BY DEF Fresh, Card, NoFiles, Nothing
  <1>2. \A c \in Cards : card[c] = Fresh /\ CallsOf(c) = {}
    BY DEF CallsOf
  <1>3. "" # "running" /\ "" # "done"
    OBVIOUS
  <1>4. \A c \in Cards : CardOK(c)
    BY <1>1, <1>2, <1>3 DEF CardOK, Quiet
  <1>5. Shown = {}
    BY <1>1, <1>2 DEF Shown
  <1>. QED
    BY <1>1, <1>4, <1>5, FS_EmptySet DEF IInv, TypesOK, CardsOK

-----------------------------------------------------------------------------
\* Every step keeps the account of every card.
LEMMA Inductive == IInv /\ [Next]_vars => IInv'
  <1> SUFFICES ASSUME IInv, [Next]_vars PROVE IInv'
    OBVIOUS
  <1>0. TypesOK /\ CardsOK /\ \A d \in Cards : CardOK(d)
    BY DEF IInv
  <1>1. ASSUME UNCHANGED <<card, calls, inited, bound>>, leaving' \in {leaving, TRUE}
        PROVE  IInv'
    <2>1. Shown' = Shown /\ \A d \in Cards : CallsOf(d)' = CallsOf(d)
      BY <1>1 DEF Shown, CallsOf
    <2>2. \A d \in Cards : CardOK(d)'
      BY <1>0, <1>1, <2>1, SameCard
    <2>. QED BY <1>0, <1>1, <2>1, <2>2 DEF IInv, TypesOK, CardsOK
  <1>2. CASE OpenSection   BY <1>2, <1>1 DEF OpenSection
  <1>3. CASE ModelsFail \/ ApiUnauthorized
    BY <1>3, <1>1 DEF ModelsFail, ApiUnauthorized
  <1>4. CASE Unload
    <2>1. /\ card' = [c \in Cards |-> Fresh] /\ calls' = {}
          /\ inited' = FALSE /\ bound' = 0 /\ leaving' = FALSE
      BY <1>4 DEF Unload
    <2>2. Fresh \in Card /\ ~Fresh.there
      BY DEF Fresh, Card, NoFiles, Nothing
    <2>3. \A d \in Cards : card'[d] = Fresh /\ CallsOf(d)' = {}
      BY <2>1 DEF CallsOf
    <2>4. \A d \in Cards : CardOK(d)'
      BY <2>3, FreshCard
    <2>5. Shown' = {}
      BY <2>2, <2>3 DEF Shown
    <2>. QED BY <2>1, <2>2, <2>4, <2>5, FS_EmptySet DEF IInv, TypesOK, CardsOK
  <1>5. CASE ClickRunAll
    <2> DEFINE C == {c \in Shown : card[c].choice # NoFiles}
    <2>1. C \in SUBSET Shown /\ 1 \in Nat \ {0} /\ StartRuns(C, 1)
      BY <1>5 DEF ClickRunAll
    <2>2. \A c \in C : card[c].choice # NoFiles
      OBVIOUS
    <2> HIDE DEF C
    <2>. QED BY <2>1, <2>2, StartedCard
  <1>6. ASSUME NEW c \in Cards, ModelsArrive(c) PROVE IInv'
    <2>1. /\ CallsOf(c) = {} /\ card' = Added(card, c) /\ calls' = calls
          /\ inited' = TRUE /\ bound' \in Nat /\ leaving' = leaving
      BY <1>0, <1>6 DEF ModelsArrive, TypesOK
    <2>2. /\ card' \in [Cards -> Card] /\ \A d \in Cards : CardOK(d)'
          /\ IsFiniteSet(Shown)' /\ Shown' # {}
      BY <1>0, <2>1, AddedCard
    <2>. QED BY <1>0, <2>1, <2>2 DEF IInv, TypesOK, CardsOK
  <1>7. ASSUME NEW c \in Cards, AddCard(c) PROVE IInv'
    <2>1. /\ CallsOf(c) = {} /\ card' = Added(card, c) /\ calls' = calls
          /\ inited' = inited /\ bound' = bound /\ leaving' = leaving
      BY <1>7 DEF AddCard
    <2>2. /\ card' \in [Cards -> Card] /\ \A d \in Cards : CardOK(d)'
          /\ IsFiniteSet(Shown)' /\ Shown' # {}
      BY <1>0, <2>1, AddedCard
    <2>. QED BY <1>0, <2>1, <2>2 DEF IInv, TypesOK, CardsOK
  <1>8. ASSUME NEW c \in Cards, ClickRun(c) PROVE IInv'
    <2>1. /\ {c} \in SUBSET Shown /\ bound \in Nat \ {0} /\ StartRuns({c}, bound)
          /\ \A d \in {c} : card[d].choice # NoFiles
      BY <1>0, <1>8 DEF ClickRun, TypesOK, Shown
    <2>. QED BY <2>1, StartedCard
  <1>. QED
    BY <1>1, <1>2, <1>3, <1>4, <1>5, <1>6, <1>7, <1>8, RemoveStep, ChooseStep,
       AnsweredStep DEF Next, vars

\* IInv holds in every state of the console.
THEOREM InductiveInvariant == Spec => []IInv
  <1>1. Init => IInv
    BY EmptyPage DEF Init
  <1>. QED
    BY <1>1, Inductive, PTL DEF Spec

-----------------------------------------------------------------------------
\* A card that waits for nothing shows what became of its last run, whatever was
\* clicked and in whatever order the answers came, unless two runs overlapped.
THEOREM QuietCardsAreTruthful == Spec => []QuietCardTellsLastRun
  <1>1. IInv => QuietCardTellsLastRun
    BY DEF IInv, CardOK, Quiet, QuietCardTellsLastRun, Shown
  <1>. QED
    BY <1>1, InductiveInvariant, PTL

\* Once the section has been opened there is a card to work with: removing asks
\* for a second one, and the models bring one before anything can be removed.
THEOREM CardIsLeft == Spec => []AlwaysACard
  <1>1. IInv => AlwaysACard
    BY DEF IInv, CardsOK, AlwaysACard
  <1>. QED
    BY <1>1, InductiveInvariant, PTL

\* A result that appears belongs to the form above it: a card in its only run is
\* locked, and only its own answer makes it done.
THEOREM ResultsFit == Spec => ResultFitsForm
  <1> DEFINE Fits == \A c \in Shown :
                 card[c].status = "running" /\ card'[c].status = "done" /\ ~card[c].overlapped
                     => card'[c].shown = card'[c].choice
  <1>1. ASSUME IInv, [Next]_vars, NEW c \in Shown,
               card[c].status = "running", card'[c].status = "done", ~card[c].overlapped
        PROVE  card'[c].shown = card'[c].choice
    <2>1. /\ TypesOK /\ c \in Cards /\ card[c] \in Card /\ card[c].there
          /\ card'[c].status # card[c].status
      BY <1>1 DEF IInv, TypesOK, Shown
    <2>2. ASSUME NEW k \in calls, Answered(k) PROVE card'[c].shown = card'[c].choice
      <3>1. k.card \in Cards /\ card[k.card] \in Card
        BY <2>1 DEF TypesOK
      <3>2. k.card = c
        BY <2>1, <2>2, <3>1 DEF Answered, CallSucceeds, CallFails, CallUnauthorized, TypesOK
      <3>3. card[c].choice = k.choice
        BY <1>1, <2>2, <3>2, AnsweredStep
      <3>4. ~CallFails(k) /\ ~CallUnauthorized(k)
        BY <1>1, <2>1, <3>2 DEF CallFails, CallUnauthorized, TypesOK, Card
      <3>5. card' = [card EXCEPT ![c] = [card[c] EXCEPT
                         !.status = "done", !.shown = k.choice, !.locked = FALSE]]
        BY <2>1, <2>2, <3>2, <3>4 DEF Answered, CallSucceeds, TypesOK
      <3>. QED BY <2>1, <3>3, <3>5 DEF TypesOK, Card
    <2>3. ASSUME NEW C, NEW n, StartRuns(C, n) PROVE FALSE
      <3>1. card'[c] = card[c] \/ card'[c] = [Started(c) EXCEPT !.overlapped = @ \/ n > 1]
        BY <2>1, <2>3 DEF StartRuns
      <3>2. [Started(c) EXCEPT !.overlapped = @ \/ n > 1].status = "running"
        BY <2>1 DEF Started, Card
      <3>. QED BY <1>1, <3>1, <3>2
    <2>4. card'[c] # card[c]
      BY <2>1
    <2>5. ASSUME card' = [d \in Cards |-> Fresh] PROVE FALSE
      <3>1. Fresh.status = "" /\ "" # "done"
        BY DEF Fresh
      <3>. QED BY <1>1, <2>1, <2>5, <3>1
    <2>6. ASSUME NEW d \in Cards, ModelsArrive(d) \/ AddCard(d) PROVE FALSE
      <3>1. d # c /\ card' = [card EXCEPT ![d] = [Fresh EXCEPT !.there = TRUE]]
        BY <2>1, <2>6 DEF ModelsArrive, AddCard, Added
      <3>. QED BY <2>1, <2>4, <3>1 DEF TypesOK
    <2>7. ASSUME NEW d \in Cards, RemoveCard(d) PROVE FALSE
      BY <2>1, <2>7 DEF RemoveCard, TypesOK, Card
    <2>8. ASSUME NEW d \in Cards, NEW x \in Choices \union {NoFiles}, Choose(d, x) PROVE FALSE
      BY <2>1, <2>8 DEF Choose, TypesOK, Card
    <2>. QED
      BY <1>1, <2>2, <2>3, <2>4, <2>5, <2>6, <2>7, <2>8
      DEF Next, vars, OpenSection, ModelsFail, ApiUnauthorized, ClickRunAll, ClickRun, Unload
  <1>2. IInv /\ [Next]_vars => [Fits]_vars
    BY <1>1
  <1>3. Spec => [][Fits]_vars
    BY <1>2, InductiveInvariant, PTL DEF Spec
  <1>. QED
    BY <1>3 DEF ResultFitsForm
=============================================================================

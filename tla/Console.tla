------------------------------ MODULE Console ------------------------------
(***************************************************************************)
(* The OCR test section of the browser console (web/app.js): request       *)
(* cards, each with a form, a run button and the result of its last run.   *)
(*                                                                         *)
(* The page has one thread.  A function runs from an event, or from the    *)
(* end of an await, to its next await without being disturbed; between     *)
(* the two the user clicks on.  loadOcrTest waits for the list of models,  *)
(* runRequest for POST /ocr/test.  Answers come in any order.              *)
(*                                                                         *)
(* A form is abstracted to the choice it holds (files, model, document     *)
(* type and group); a result, to the choice it was made for.               *)
(***************************************************************************)
EXTENDS Naturals, FiniteSets

CONSTANTS
    Cards,          \* bound: the cards that may be added
    Choices,        \* what a form may hold
    MaxLoads,       \* bound: openings of the section that ask for the models
    MaxSent         \* bound: calls of POST /ocr/test

\* What a form holds is never taken for an empty result area.
ASSUME ConsoleAssumption ==
    MaxLoads \in Nat /\ MaxSent \in Nat /\ "nothing" \notin Choices

VARIABLES
    inited,         \* otInited
    loads,          \* how many loadOcrTest have asked for the models
    waiting,        \* how many of them still wait
    bound,          \* how often the click listener of #ot-requests is registered
    card,           \* card[c]: a card of the page
    calls,          \* calls of runRequest that wait for their answer
    sent,           \* how many have been made
    leaving         \* location.href has been set: the page is about to go

vars == <<inited, loads, waiting, bound, card, calls, sent, leaving>>

NoFiles == "no files"       \* a form without files runs nothing
Nothing == "nothing"        \* an empty result area

\* overlapped is auxiliary: when the card was last run, it was running already,
\* or the click ran it twice.
Fresh == [there |-> FALSE, locked |-> FALSE, choice |-> NoFiles,
          status |-> "", shown |-> Nothing, overlapped |-> FALSE]

Shown == {c \in Cards : card[c].there}
CallsOf(c) == {k \in calls : k.card = c}

-----------------------------------------------------------------------------
(***************************************************************************)
(* loadOcrTest, when the section is opened.                                *)
(***************************************************************************)
\* The flag is looked at here and set when the models have arrived.
OpenSection ==
    /\ ~inited
    /\ loads < MaxLoads
    /\ loads' = loads + 1
    /\ waiting' = waiting + 1
    /\ UNCHANGED <<inited, bound, card, calls, sent, leaving>>

\* addRequestCard; ids are counted up, so a new card is none that was there.
Added(cards, c) == [cards EXCEPT ![c] = [Fresh EXCEPT !.there = TRUE]]

ModelsArrive(c) ==
    /\ waiting > 0
    /\ ~card[c].there /\ CallsOf(c) = {}
    /\ waiting' = waiting - 1
    /\ bound' = bound + 1
    /\ card' = Added(card, c)
    /\ inited' = TRUE
    /\ UNCHANGED <<loads, calls, sent, leaving>>

ModelsFail ==
    /\ waiting > 0
    /\ waiting' = waiting - 1
    /\ UNCHANGED <<inited, loads, bound, card, calls, sent, leaving>>

-----------------------------------------------------------------------------
(***************************************************************************)
(* The user's clicks.  A disabled control takes none.                      *)
(***************************************************************************)
AddCard(c) ==
    /\ bound > 0
    /\ ~card[c].there /\ CallsOf(c) = {}
    /\ card' = Added(card, c)
    /\ UNCHANGED <<inited, loads, waiting, bound, calls, sent, leaving>>

Choose(c, choice) ==
    /\ card[c].there /\ ~card[c].locked
    /\ card' = [card EXCEPT ![c].choice = choice]
    /\ UNCHANGED <<inited, loads, waiting, bound, calls, sent, leaving>>

\* Mistake: the last card goes too.
RemoveAny(c) ==
    /\ bound > 0
    /\ card[c].there /\ ~card[c].locked
    /\ card' = [card EXCEPT ![c].there = FALSE]
    /\ UNCHANGED <<inited, loads, waiting, bound, calls, sent, leaving>>

RemoveCard(c) ==
    /\ bound > 0
    /\ card[c].there /\ ~card[c].locked
    /\ Cardinality(Shown) > 1
    /\ card' = [card EXCEPT ![c].there = FALSE]
    /\ UNCHANGED <<inited, loads, waiting, bound, calls, sent, leaving>>

\* Mistake: setCardDisabled is forgotten.
StartedUnlocked(c) ==
    [card[c] EXCEPT !.status = "running", !.shown = Nothing,
                    !.overlapped = CallsOf(c) # {}]

\* runRequest up to its await: the old result is cleared, the card locked.
Started(c) ==
    [card[c] EXCEPT !.status = "running", !.shown = Nothing, !.locked = TRUE,
                    !.overlapped = CallsOf(c) # {}]

\* n calls of runRequest for each card of C, from one click.
StartRuns(C, n) ==
    /\ sent + n * Cardinality(C) <= MaxSent
    /\ card' = [c \in Cards |->
                  IF c \in C
                  THEN [Started(c) EXCEPT !.overlapped = @ \/ n > 1]
                  ELSE card[c]]
    /\ calls' = calls \union
                  {[card |-> c, choice |-> card[c].choice, no |-> sent + i] : c \in C, i \in 1..n}
    /\ sent' = sent + n * Cardinality(C)
    /\ UNCHANGED <<inited, loads, waiting, bound, leaving>>

\* Every registered listener runs the request.
ClickRun(c) ==
    /\ bound > 0
    /\ card[c].there /\ ~card[c].locked
    /\ card[c].choice # NoFiles
    /\ StartRuns({c}, bound)

\* runAllRequests does not ask whether a card is running.
ClickRunAll ==
    /\ bound > 0
    /\ LET C == {c \in Shown : card[c].choice # NoFiles} IN
       C # {} /\ StartRuns(C, 1)

-----------------------------------------------------------------------------
(***************************************************************************)
(* runRequest after its await.                                             *)
(***************************************************************************)
CallSucceeds(k) ==
    /\ k \in calls
    /\ calls' = calls \ {k}
    /\ card' = [card EXCEPT ![k.card].status = "done", ![k.card].shown = k.choice,
                            ![k.card].locked = FALSE]
    /\ UNCHANGED <<inited, loads, waiting, bound, sent, leaving>>

\* Mistakes: no finally, or the error is not shown in the card.
FailsLocked(k) ==
    /\ k \in calls
    /\ calls' = calls \ {k}
    /\ card' = [card EXCEPT ![k.card].status = "failed"]
    /\ UNCHANGED <<inited, loads, waiting, bound, sent, leaving>>

FailsSilently(k) ==
    /\ k \in calls
    /\ calls' = calls \ {k}
    /\ card' = [card EXCEPT ![k.card].locked = FALSE]
    /\ UNCHANGED <<inited, loads, waiting, bound, sent, leaving>>

\* An error envelope, or no answer at all.
CallFails(k) ==
    /\ k \in calls
    /\ calls' = calls \ {k}
    /\ card' = [card EXCEPT ![k.card].status = "failed", ![k.card].locked = FALSE]
    /\ UNCHANGED <<inited, loads, waiting, bound, sent, leaving>>

\* A 401: the card is unlocked and goes on saying that it runs.
CallUnauthorized(k) ==
    /\ k \in calls
    /\ calls' = calls \ {k}
    /\ card' = [card EXCEPT ![k.card].locked = FALSE]
    /\ leaving' = TRUE
    /\ UNCHANGED <<inited, loads, waiting, bound, sent>>

-----------------------------------------------------------------------------
(***************************************************************************)
(* The end of the session.  Script and clicks go on until the page goes;   *)
(* then what it held is gone, and its calls with it.  The server works on. *)
(***************************************************************************)
\* A 401 in api(): for the models, or for another section.
ApiUnauthorized ==
    /\ \/ waiting > 0 /\ waiting' = waiting - 1
       \/ waiting' = waiting
    /\ leaving' = TRUE
    /\ UNCHANGED <<inited, loads, bound, card, calls, sent>>

Unload ==
    /\ leaving
    /\ leaving' = FALSE
    /\ calls' = {}
    /\ inited' = FALSE /\ waiting' = 0 /\ bound' = 0
    /\ card' = [c \in Cards |-> Fresh]
    /\ UNCHANGED <<loads, sent>>

-----------------------------------------------------------------------------
Init ==
    /\ inited = FALSE
    /\ loads = 0 /\ waiting = 0 /\ bound = 0
    /\ card = [c \in Cards |-> Fresh]
    /\ calls = {}
    /\ sent = 0
    /\ leaving = FALSE

Answered(k) == CallSucceeds(k) \/ CallFails(k) \/ CallUnauthorized(k)

Next ==
    \/ OpenSection \/ ModelsFail \/ ClickRunAll \/ ApiUnauthorized \/ Unload
    \/ \E c \in Cards :
          \/ ModelsArrive(c) \/ AddCard(c) \/ RemoveCard(c) \/ ClickRun(c)
          \/ \E choice \in Choices \union {NoFiles} : Choose(c, choice)
    \/ \E k \in calls : Answered(k)

\* fetch settles sooner or later.
Spec == Init /\ [][Next]_vars /\ WF_vars(\E k \in calls : Answered(k))

-----------------------------------------------------------------------------
(***************************************************************************)
(* Properties.                                                             *)
(***************************************************************************)

\* A card that waits for no call is free and tells what became of the last one: a
\* result with "done", none with "failed", unless two runs of it overlapped.  Only
\* on a page that is being left may it still say that it runs.
QuietCardTellsLastRun ==
    \A c \in Shown : CallsOf(c) = {} =>
        /\ ~card[c].locked
        /\ card[c].status = "running" => leaving
        /\ ~card[c].overlapped => (card[c].shown # Nothing) = (card[c].status = "done")

\* A result that appears is that of the form above it: the form cannot have
\* been changed while its only run was in progress.
ResultFitsForm ==
    [][ \A c \in Shown :
          (card[c].status = "running" /\ card'[c].status = "done" /\ ~card[c].overlapped)
              => card'[c].shown = card'[c].choice ]_vars

\* The section is never left without a card to work with.
AlwaysACard == inited => Shown # {}

\* No card stays locked: it comes free or goes with the page.
CardsComeFree == \A c \in Cards : card[c].locked ~> ~card[c].locked
=============================================================================

---------------------------- MODULE ModelConfig ----------------------------
(***************************************************************************)
(* config/app.config.json and what reads it while a request is served:     *)
(* the choice and the check of the model alias (modules/ocr/router.py) and *)
(* every model call (core/config.py, core/model_gateway.py).               *)
(*                                                                         *)
(* Nothing is cached: each of these reads opens the file again, and the    *)
(* file may be edited between any two of them.  An editor that truncates   *)
(* and rewrites leaves it unreadable for a moment (Torn).                  *)
(*                                                                         *)
(* One request at a time is enough, since requests share nothing here but  *)
(* the file.  Its pages, retries and the merging of their results are      *)
(* OcrService's; this module has the calls one after another.  Messages,  *)
(* schemas and the settings that are passed through are left out; a model  *)
(* string is its provider prefix.                                          *)
(***************************************************************************)
EXTENDS Naturals

CONSTANTS
    Files,          \* contents the file may have (see FileRecord)
    Aliases,        \* aliases a client may ask for
    environ,        \* os.environ: variable -> key, or None
    standard_env,   \* external: the variable litellm itself looks at, by prefix
    MaxEdits,       \* bound: edits of the file
    MaxCalls        \* bound: model calls a request makes

None == "None"
Default == ""               \* a form that leaves the model out
Torn == [default_model |-> None, models |-> [a \in {} |-> None]]

Entries ==
    [ provider : {"mock", "litellm", "other"}, model : STRING, api_key_env : STRING,
      api_key : STRING ]

FileRecord(f) ==
    /\ f.default_model \in STRING
    /\ \A a \in DOMAIN f.models : a \in STRING /\ f.models[a] \in Entries

ASSUME ModelConfigAssumption ==
    /\ \A f \in Files : FileRecord(f)
    /\ MaxEdits \in Nat /\ MaxCalls \in Nat

VARIABLES
    file,           \* the file
    boot,           \* auxiliary: what it held when the process started
    edits,          \* how often it has been edited
    op,             \* the request in progress
    made            \* the last model call, or NoCall

vars == <<file, boot, edits, op, made>>

Idle == [stage |-> "idle"]
NoCall == [alias |-> None]

-----------------------------------------------------------------------------
(***************************************************************************)
(* config.py.                                                              *)
(***************************************************************************)
\* Mistake: the file is read once (functools.cache on load_config).
LoadedOnce == boot

load_config == file

default_model == load_config.default_model
available_models == DOMAIN load_config.models

\* The name of the variable is taken out of the entry, and its value put in
\* unless the entry has a key of its own.
get_model_config(alias) ==
    LET m == load_config.models[alias] IN
    [m EXCEPT !.api_key_env = None,
              !.api_key = IF m.api_key_env # None /\ m.api_key = None
                          THEN environ[m.api_key_env] ELSE @]

-----------------------------------------------------------------------------
(***************************************************************************)
(* model_gateway.py.                                                       *)
(***************************************************************************)
\* The arguments of litellm.completion.
Kwargs(cfg) ==
    [ model   |-> cfg.model,
      api_key |-> IF cfg.api_key_env # None THEN environ[cfg.api_key_env] ELSE None ]

\* external: without an argument litellm looks for a key itself.
KeySent(kwargs) ==
    IF kwargs.api_key # None THEN kwargs.api_key ELSE environ[standard_env[kwargs.model]]

\* What a call is made of; entry is auxiliary, the entry it rests on.
CallMade(alias) ==
    LET cfg == get_model_config(alias) IN
    [ alias |-> alias,
      key   |-> IF cfg.provider = "mock" THEN None ELSE KeySent(Kwargs(cfg)),
      entry |-> load_config.models[alias] ]

-----------------------------------------------------------------------------
(***************************************************************************)
(* A request, up to its last call.  since is auxiliary: the contents the   *)
(* file has had since the request arrived.                                 *)
(***************************************************************************)
Arrive(model) ==
    /\ op.stage = "idle"
    /\ op' = [stage |-> "named", model |-> model, alias |-> model, since |-> {file}, calls |-> 0]
    /\ UNCHANGED <<file, boot, edits, made>>

\* alias = model or default_model(): the file is read only for want of a model.
Name ==
    /\ op.stage = "named"
    /\ op' = IF op.model # Default THEN [op EXCEPT !.stage = "validate"]
             ELSE IF load_config = Torn THEN [op EXCEPT !.stage = "error"]
             ELSE [op EXCEPT !.stage = "validate", !.alias = default_model]
    /\ UNCHANGED <<file, boot, edits, made>>

Validate ==
    /\ op.stage = "validate"
    /\ op' = [op EXCEPT !.stage = IF load_config = Torn THEN "error"
                                  ELSE IF op.alias \notin available_models THEN "refuse"
                                  ELSE "working"]
    /\ UNCHANGED <<file, boot, edits, made>>

\* The message of the refusal lists the aliases, and reads the file again for it.
Refuse ==
    /\ op.stage = "refuse"
    /\ op' = [op EXCEPT !.stage = IF load_config = Torn THEN "error" ELSE "refused"]
    /\ UNCHANGED <<file, boot, edits, made>>

\* The alias may have left the file by now, or its provider be none that the
\* gateway knows: then the call raises before anything is sent.
Callable(alias) ==
    alias \in available_models /\ get_model_config(alias).provider \in {"mock", "litellm"}

Call ==
    /\ op.stage = "working"
    /\ op.calls < MaxCalls
    /\ op' = [op EXCEPT !.calls = @ + 1]
    /\ made' = IF Callable(op.alias) THEN CallMade(op.alias) ELSE NoCall
    /\ UNCHANGED <<file, boot, edits>>

Finish ==
    /\ op.stage \in {"working", "refused", "error"}
    /\ op' = Idle
    /\ made' = NoCall
    /\ UNCHANGED <<file, boot, edits>>

-----------------------------------------------------------------------------
Edit ==
    /\ edits < MaxEdits
    /\ edits' = edits + 1
    /\ file' \in (Files \union {Torn}) \ {file}
    /\ op' = IF op = Idle THEN op ELSE [op EXCEPT !.since = @ \union {file'}]
    /\ UNCHANGED <<boot, made>>

Init ==
    /\ file \in Files
    /\ boot = file
    /\ edits = 0
    /\ op = Idle
    /\ made = NoCall

Next ==
    \/ \E model \in Aliases \union {Default} : Arrive(model)
    \/ Name \/ Validate \/ Refuse \/ Call \/ Finish
    \/ Edit

Spec == Init /\ [][Next]_vars

-----------------------------------------------------------------------------
(***************************************************************************)
(* Properties.                                                             *)
(***************************************************************************)

\* A request is let in, refused or sent off to the default model by a file that
\* was there while it was in progress: an edit holds from the next request on
\* ("설정 바꾸면 다음 요청부터 반영"), and one that is over has no effect.
AdmissionFollowsFile ==
    /\ op.stage = "working" => \E f \in op.since : op.alias \in DOMAIN f.models
    /\ op.stage = "refused" => \E f \in op.since : op.alias \notin DOMAIN f.models
    /\ op.stage \in {"validate", "working", "refused"} =>
          op.alias = op.model \/ \E f \in op.since : op.alias = f.default_model
    /\ op.stage = "error" => Torn \in op.since

\* A model is called with an entry the file has had, for this very alias, since
\* the request arrived, however many edits and other calls lie in between.
CallsFollowFile ==
    made # NoCall =>
        \E f \in op.since : op.alias \in DOMAIN f.models /\ f.models[op.alias] = made.entry

(***************************************************************************)
(* What config.py says at its head: the provider's key is the one that the *)
(* variable named by api_key_env holds.                                    *)
(***************************************************************************)
ConfiguredKeyIsUsed ==
    (made # NoCall /\ made.entry.provider = "litellm" /\ made.entry.api_key_env # None
        /\ environ[made.entry.api_key_env] # None)
        => made.key = environ[made.entry.api_key_env]
=============================================================================

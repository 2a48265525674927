------------------------- MODULE ModelConfigProofs -------------------------
(***************************************************************************)
(* Proofs about ModelConfig, for any contents of the file, any aliases and *)
(* environment, and any number of edits and calls: what a request does     *)
(* rests on a file that was there while it was in progress.                *)
(***************************************************************************)
EXTENDS ModelConfig, TLAPS

Contents == Files \union {Torn}

Ops == [ stage : {"named", "validate", "refuse", "refused", "working", "error"},
         model : Aliases \union {Default}, alias : STRING \union Aliases \union {None, Default},
         since : SUBSET Contents, calls : Nat ]

TypeOK == file \in Contents /\ (op = Idle \/ op \in Ops)

\* The file as it is belongs to what the request has seen.
Watched == op = Idle \/ file \in op.since

Excused ==
    /\ op.stage = "refuse" => \E f \in op.since : op.alias \notin DOMAIN f.models
    /\ op.stage = "named" => op.alias = op.model
    /\ op.stage = "refuse" => op.alias = op.model \/ \E f \in op.since : op.alias = f.default_model
    /\ op.stage # "working" => made = NoCall

IInv == TypeOK /\ Watched /\ Excused /\ AdmissionFollowsFile /\ CallsFollowFile

-----------------------------------------------------------------------------
\* A file that is not torn names its default model.
LEMMA FileFacts ==
    ASSUME NEW f \in Contents
    PROVE  /\ f.default_model \in STRING \union {None}
           /\ DOMAIN Torn.models = {}
  BY ModelConfigAssumption DEF Contents, FileRecord, Torn

\* Nothing has been admitted or called.
LEMMA IInvInit == Init => IInv
  BY DEF Init, IInv, TypeOK, Watched, Excused, AdmissionFollowsFile, CallsFollowFile,
         Idle, Contents

\* Everything a request does rests on the file of the moment, which is watched.
LEMMA IInvStep == IInv /\ [Next]_vars => IInv'
  <1>1. SUFFICES ASSUME IInv, [Next]_vars PROVE IInv'
    OBVIOUS
  <1> USE <1>1 DEF IInv
  <1>2. ASSUME NEW model \in Aliases \union {Default}, Arrive(model) PROVE IInv'
    <2>1. /\ op' = [stage |-> "named", model |-> model, alias |-> model, since |-> {file},
                    calls |-> 0]
          /\ file' = file /\ made' = made /\ made = NoCall
      BY <1>2 DEF Arrive, Excused
    <2>2. op' \in Ops
      <3>1. {file} \in SUBSET Contents
        BY DEF TypeOK
      <3>2. QED
        BY <2>1, <3>1 DEF Ops
    <2>3. QED
      BY <2>1, <2>2 DEF TypeOK, Watched, Excused, AdmissionFollowsFile, CallsFollowFile
  <1>3. CASE Name
    <2>1. /\ op.stage = "named" /\ op \in Ops /\ file \in op.since
          /\ op.alias = op.model /\ made = NoCall
      BY <1>3 DEF Name, TypeOK, Watched, Excused, Idle
    <2>2. UNCHANGED <<file, made>>
      BY <1>3 DEF Name
    <2>3. CASE op.model # Default
      <3>1. op' = [op EXCEPT !.stage = "validate"]
        BY <1>3, <2>3 DEF Name
      <3>2. QED
        BY <2>1, <2>2, <3>1 DEF TypeOK, Ops, Watched, Excused, AdmissionFollowsFile, CallsFollowFile
    <2>4. CASE op.model = Default /\ file = Torn
      <3>1. op' = [op EXCEPT !.stage = "error"]
        BY <1>3, <2>4 DEF Name, load_config
      <3>2. QED
        BY <2>1, <2>2, <2>4, <3>1
           DEF TypeOK, Ops, Watched, Excused, AdmissionFollowsFile, CallsFollowFile
    <2>5. CASE op.model = Default /\ file # Torn
      <3>1. op' = [op EXCEPT !.stage = "validate", !.alias = file.default_model]
        BY <1>3, <2>5 DEF Name, load_config, default_model
      <3>2. file.default_model \in STRING \union {None}
        BY FileFacts DEF TypeOK
      <3>3. QED
        BY <2>1, <2>2, <3>1, <3>2
           DEF TypeOK, Ops, Watched, Excused, AdmissionFollowsFile, CallsFollowFile
    <2>6. QED
      BY <2>3, <2>4, <2>5
  <1>4. CASE Validate
    <2>1. /\ op.stage = "validate" /\ op \in Ops /\ file \in op.since /\ made = NoCall
          /\ op.alias = op.model \/ \E f \in op.since : op.alias = f.default_model
      BY <1>4 DEF Validate, TypeOK, Watched, Excused, AdmissionFollowsFile, Idle
    <2>2. /\ UNCHANGED <<file, made>>
          /\ op' = [op EXCEPT !.stage = IF file = Torn THEN "error"
                                        ELSE IF op.alias \notin DOMAIN file.models THEN "refuse"
                                        ELSE "working"]
      BY <1>4 DEF Validate, load_config, available_models
    <2>3. QED
      BY <2>1, <2>2 DEF TypeOK, Ops, Watched, Excused, AdmissionFollowsFile, CallsFollowFile
  <1>5. CASE Refuse
    <2>1. /\ op.stage = "refuse" /\ op \in Ops /\ file \in op.since /\ made = NoCall
          /\ \E f \in op.since : op.alias \notin DOMAIN f.models
          /\ op.alias = op.model \/ \E f \in op.since : op.alias = f.default_model
      BY <1>5 DEF Refuse, TypeOK, Watched, Excused, AdmissionFollowsFile, Idle
    <2>2. /\ UNCHANGED <<file, made>>
          /\ op' = [op EXCEPT !.stage = IF file = Torn THEN "error" ELSE "refused"]
      BY <1>5 DEF Refuse, load_config
    <2>3. QED
      BY <2>1, <2>2 DEF TypeOK, Ops, Watched, Excused, AdmissionFollowsFile, CallsFollowFile
  <1>6. CASE Call
    <2>1. op.stage = "working" /\ op \in Ops /\ file \in op.since
      BY <1>6 DEF Call, TypeOK, Watched, Idle
    <2>2. /\ file' = file
          /\ op' = [op EXCEPT !.calls = @ + 1]
          /\ made' = IF Callable(op.alias) THEN CallMade(op.alias) ELSE NoCall
      BY <1>6 DEF Call
    <2>3. /\ op'.stage = op.stage /\ op'.since = op.since /\ op'.alias = op.alias
          /\ op'.model = op.model /\ op' \in Ops
      BY <2>1, <2>2 DEF Ops
    <2>4. CallsFollowFile'
      <3>1. CASE Callable(op.alias)
        <4>1. op.alias \in DOMAIN file.models /\ made'.entry = file.models[op.alias]
          BY <2>2, <3>1 DEF Callable, CallMade, available_models, load_config
        <4>2. QED
          BY <2>1, <2>3, <4>1 DEF CallsFollowFile
      <3>2. CASE ~Callable(op.alias)
        BY <2>2, <3>2 DEF CallsFollowFile
      <3>3. QED
        BY <3>1, <3>2
    <2>5. QED
      BY <2>1, <2>2, <2>3, <2>4 DEF TypeOK, Watched, Excused, AdmissionFollowsFile
  <1>7. CASE Finish
    BY <1>7 DEF Finish, Idle, TypeOK, Watched, Excused, AdmissionFollowsFile, CallsFollowFile
  <1>8. CASE Edit
    <2>1. file' \in Contents /\ made' = made
      BY <1>8 DEF Edit, Contents
    <2>2. CASE op = Idle
      <3>1. op' = Idle
        BY <1>8, <2>2 DEF Edit
      <3>2. QED
        BY <2>1, <2>2, <3>1
           DEF Idle, TypeOK, Watched, Excused, AdmissionFollowsFile, CallsFollowFile
    <2>3. CASE op # Idle
      <3>1. op \in Ops /\ op' = [op EXCEPT !.since = @ \union {file'}]
        BY <1>8, <2>3 DEF Edit, TypeOK
      <3>2. /\ op'.stage = op.stage /\ op'.alias = op.alias /\ op'.model = op.model
            /\ op'.since = op.since \union {file'}
            /\ op' \in Ops
        BY <2>1, <3>1 DEF Ops
      <3>3. QED
        BY <2>1, <3>2 DEF TypeOK, Watched, Excused, AdmissionFollowsFile, CallsFollowFile
    <2>4. QED
      BY <2>2, <2>3
  <1>9. CASE UNCHANGED vars
    BY <1>9 DEF vars, TypeOK, Watched, Excused, AdmissionFollowsFile, CallsFollowFile
  <1>10. QED
    BY <1>2, <1>3, <1>4, <1>5, <1>6, <1>7, <1>8, <1>9 DEF Next

\* So it holds for ever.
LEMMA InductiveInvariant == Spec => []IInv
  BY IInvInit, IInvStep, PTL DEF Spec

\* However the file is edited between its reads, a request is let in, refused or
\* given the default model by a file that was there while it was in progress.
THEOREM AdmissionIsCurrent == Spec => []AdmissionFollowsFile
  BY InductiveInvariant, PTL DEF IInv

\* And every model call is made with the entry of such a file.
THEOREM CallsAreCurrent == Spec => []CallsFollowFile
  BY InductiveInvariant, PTL DEF IInv
=============================================================================

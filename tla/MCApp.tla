------------------------------- MODULE MCApp -------------------------------
(***************************************************************************)
(* The application with two server processes, a seeding script and two     *)
(* requests.  Of the five tables one stands for the four that were there   *)
(* from the first release on.  One version of the configuration file lists *)
(* a name that is not known before one that is.                            *)
(***************************************************************************)
EXTENDS App, TLC

CONSTANTS w1, w2, k, r1, r2

MCSchema == <<"api_keys", "test_runs">>
MCKnown  == {"ocr", "recommend"}
MCFiles  == { <<"ocr", "recommend">>, <<"hr", "recommend">> }
MCTorn   == <<>>

Granted(path) == [path |-> path, access |-> "granted", pooled |-> FALSE]

MCCalls ==
    { Granted("static"), Granted("modules"), Granted("recommend"),
      Granted("ocr"), [Granted("ocr") EXCEPT !.pooled = TRUE],
      [Granted("recommend") EXCEPT !.access = "denied"] }

Alike == Permutations({w1, w2}) \union Permutations({r1, r2})
=============================================================================

--------------------------- MODULE MCModelConfig ---------------------------
(***************************************************************************)
(* ModelConfig with four versions of the file: as it is shipped, with      *)
(* gemini on a key of its own, with gemini gone and with gemini under a    *)
(* provider the gateway does not know.                                     *)
(***************************************************************************)
EXTENDS ModelConfig, TLC

Mock == [provider |-> "mock", model |-> None, api_key_env |-> None, api_key |-> None]
Gemini == [Mock EXCEPT !.provider = "litellm", !.model = "gemini",
                       !.api_key_env = "GEMINI_API_KEY"]

Holding(default, gemini) ==
    [default_model |-> default, models |-> ("mock" :> Mock) @@ ("gemini" :> gemini)]

Shipped == Holding("mock", Gemini)
OwnKey  == Holding("gemini", [Gemini EXCEPT !.api_key_env = "TEAM_KEY"])
Gone    == [default_model |-> "gemini", models |-> ("mock" :> Mock)]
Unknown == Holding("mock", [Gemini EXCEPT !.provider = "other"])

MCFiles == {Shipped, OwnKey, Gone, Unknown}
MCAliases == {"mock", "gemini"}
MCEnviron == ("GEMINI_API_KEY" :> "key of the platform") @@ ("TEAM_KEY" :> "key of the team")
MCStandardEnv == ("gemini" :> "GEMINI_API_KEY")
=============================================================================

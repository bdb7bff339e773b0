------------------------------ MODULE MCRouting -----------------------------
(***************************************************************************)
(* A small registry for ModelRouting: two builtin models on the agent      *)
(* channel, one of which ResolveChannel's switch does not list (as it does *)
(* not list Seed-2.1-Turbo's normalized id), and a preset; an upstream     *)
(* list that may name each of them, a new model, a new spelling of the     *)
(* preset, a display name equal to a builtin's, or a disabled entry.       *)
(***************************************************************************)
EXTENDS ModelRouting

Name(key, spelling) == [key |-> key, spelling |-> spelling]

Glm == Name(<<"glm", "5">>, "canonical")
Turbo == Name(<<"seed", "turbo">>, "canonical")
V3 == Name(<<"deepseek", "v3">>, "canonical")
V4 == Name(<<"deepseek", "v4">>, "canonical")
LowerV3 == Name(<<"deepseek", "v3">>, "lower")

MCBuiltins ==
  <<[id |-> Glm, display |-> Glm.key, aliases |-> {<<"glm">>}],
    [id |-> Turbo, display |-> <<"seed", "t">>, aliases |-> {<<"turbo">>}]>>
MCPresets ==
  <<[id |-> V3, display |-> V3.key, aliases |-> {V3.key}]>>
MCLegacyKeys == {V3.key}
MCAgentKeys == {Glm.key, <<"glm">>}
MCAgentConfig == Glm.key :> Name(<<"glm", "5", "dev">>, "canonical")
MCDefaultModel == Glm
MCDefaultUpstreamModel == V3

Entry(name, display, usable) ==
  [name |-> name, display |-> display, usable |-> usable]

MCEntries ==
  {Entry(V3, V3.key, TRUE), Entry(LowerV3, V3.key, TRUE),
   Entry(V4, V4.key, TRUE), Entry(V4, Glm.key, TRUE), Entry(V4, V4.key, FALSE),
   Entry(Turbo, <<"seed", "t">>, TRUE), Entry(V4, <<"glm">>, TRUE)}

MCAsked ==
  {Glm, V3, LowerV3, V4, Turbo, Name(<<"glm">>, "lower"),
   Name(<<"turbo">>, "lower"),
   Name(<<"deepseek">>, "lower"), Name(<<"gpt">>, "lower")}
=============================================================================

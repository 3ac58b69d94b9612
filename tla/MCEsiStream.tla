---------------------------- MODULE MCEsiStream ----------------------------
(***************************************************************************)
(* An instance of the filter alone (MCResponse has it among the hooks).    *)
(***************************************************************************)
EXTENDS EsiStream

CONSTANT s1

(***************************************************************************)
(* Two dynamic includes, with a removed region between them.               *)
(***************************************************************************)
TwoIncludes ==
  <<{<<"dyn<", "dyn>", "remove<", "remove>", "endremove<", "endremove>", "text",
      "dyn<", "dyn>">>}>>
=============================================================================

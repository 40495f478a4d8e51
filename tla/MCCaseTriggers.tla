--------------------------- MODULE MCCaseTriggers ---------------------------
(***************************************************************************)
(* Workflow e has a trigger and may also be named by the comment that made *)
(* the event; t has a trigger.                                             *)
(***************************************************************************)
EXTENDS CaseTriggers

MCExplicit == {"e", None}
MCDefinitions ==
  {[e |-> "valid", t |-> "valid"], [e |-> "missing", t |-> "valid"],
   [e |-> "invalid", t |-> "valid"]}
=============================================================================

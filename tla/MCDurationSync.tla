--------------------------- MODULE MCDurationSync ---------------------------
(***************************************************************************)
(* Two cases in pages of one, two consumers and two event types of which   *)
(* the definitions use one.  The types are interchangeable, so the first   *)
(* definitions may be fixed.                                               *)
(***************************************************************************)
EXTENDS DurationSync

MCDefinitions == {{"opened"}, {"closed"}}

MCInit == Init /\ defs = {"opened"}

MCSpec == MCInit /\ [][Next]_vars /\ Fairness
=============================================================================

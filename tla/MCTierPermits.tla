--------------------------- MODULE MCTierPermits ----------------------------
(***************************************************************************)
(* A workflow p, the action a in it, run in two rounds, and the child      *)
(* workflow c that a executes.                                             *)
(***************************************************************************)
EXTENDS TierPermits

MCHolder == {"p", "a", "c"}
MCScope  == [p |-> "workflow", a |-> "action", c |-> "workflow"]
MCParent == [p |-> NoHolder, a |-> "p", c |-> "a"]
MCRounds == [p |-> 1, a |-> 2, c |-> 1]
MCWait   == [workflow |-> 2, action |-> 1]
MCLimits == {[workflow |-> 1, action |-> NoLimit], [workflow |-> NoLimit, action |-> 1],
             [workflow |-> 0, action |-> 0]}
=============================================================================

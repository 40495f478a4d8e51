-------------------------- MODULE MCAgentApprovals --------------------------
(***************************************************************************)
(* Two calls t1 and t2, asked together or one after the other, and two     *)
(* submissions that may overlap, repeat or contradict each other.          *)
(***************************************************************************)
EXTENDS AgentApprovals

MCTool == {"t1", "t2"}
MCSubmissions ==
  {[t1 |-> "approve"], [t1 |-> "deny"], [t1 |-> "deny", t2 |-> "approve"]}
=============================================================================

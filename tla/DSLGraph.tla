------------------------------ MODULE DSLGraph ------------------------------
(***************************************************************************)
(* The static workflow graph the scheduler runs: action refs, the edges    *)
(* their `depends_on` lists spell, and the scopes that scatter / gather    *)
(* and do-while loops open and close (tracecat/dsl/common.py, DSLInput).   *)
(*                                                                         *)
(* An edge is [src, dst, type]; `depends_on: ["a.error"]` of action b is   *)
(* the edge [src |-> a, dst |-> b, type |-> "error"].                      *)
(***************************************************************************)
EXTENDS Integers, FiniteSets, SequencesExt

CONSTANTS
  Refs,       \* the action refs of DSLInput.actions
  Edges,      \* the dependencies, one per entry of a depends_on list
  Kind,       \* Kind[r]: "action" or the control-flow action r is
  JoinAll     \* the refs whose join_strategy is ALL (the others are ANY)

Kinds == {"action", "scatter", "gather", "loop_start", "loop_end"}
EdgeTypes == {"success", "error"}

Scatters   == {r \in Refs : Kind[r] = "scatter"}
Gathers    == {r \in Refs : Kind[r] = "gather"}
LoopStarts == {r \in Refs : Kind[r] = "loop_start"}
LoopEnds   == {r \in Refs : Kind[r] = "loop_end"}

InEdges(r)  == {e \in Edges : e.dst = r}
OutEdges(r) == {e \in Edges : e.src = r}
NDeps(r)    == Cardinality(InEdges(r))

ASSUME GraphAssumption ==
  /\ IsFiniteSet(Refs) /\ IsFiniteSet(Edges)
  /\ Edges \subseteq [src : Refs, dst : Refs, type : EdgeTypes]
  /\ Kind \in [Refs -> Kinds]
  /\ JoinAll \subseteq Refs

-----------------------------------------------------------------------------
(* Scopes (DSLInput._assign_action_scopes).  The scope of an action is the *)
(* chain of openers around it, outermost first: an opener is in the scope  *)
(* it opens, a closer in the scope around the one it closes.               *)

ScopeChain[r \in Refs] ==
  LET parent == IF InEdges(r) = {}
                  THEN << >>
                  ELSE ScopeChain[(CHOOSE e \in InEdges(r) : TRUE).src]
  IN  CASE Kind[r] \in {"scatter", "loop_start"} -> Append(parent, r)
        [] Kind[r] \in {"gather", "loop_end"} -> Front(parent)
        [] OTHER -> parent

\* The scope a closer closes: the innermost scope of what it depends on.
ClosedScope(r) == Last(ScopeChain[(CHOOSE e \in InEdges(r) : TRUE).src])

(* Loop regions (DSLScheduler._build_loop_regions): the loop's own scope,  *)
(* every scope nested in it, and the loop_end that closes it.              *)
RegionStart == [end \in LoopEnds |-> ClosedScope(end)]
RegionOwnScope == \* variant: without the scopes nested in the loop
  [end \in LoopEnds |->
     {end} \cup {r \in Refs : /\ ScopeChain[r] # << >>
                             /\ Last(ScopeChain[r]) = RegionStart[end]}]
Region == [end \in LoopEnds |->
             {end} \cup {r \in Refs : \E i \in DOMAIN ScopeChain[r] :
                                        ScopeChain[r][i] = RegionStart[end]}]

-----------------------------------------------------------------------------
(* What DSLInput.validate_structure accepts.                               *)

\* For each ref, the refs with a path along edges of `es` to it: the least set
\* that has what the ref, or a member of the set, depends on.
Reaching(es) ==
  [target \in Refs |->
     {r \in Refs : \A C \in SUBSET Refs :
        (\A e \in es : e.dst \in C \cup {target} => e.src \in C) => r \in C}]

Upstream == Reaching(Edges)
UpstreamBySuccess == Reaching({e \in Edges : e.type = "success"})

\* The topological sort of _assign_action_scopes visits every action: among any of
\* them, one depends on none of the others.
Acyclic ==
  \A U \in SUBSET Refs :
    U # {} => \E r \in U : \A e \in InEdges(r) : e.src \notin U

\* _validate_scope_dependencies (edges only: expressions are not modelled):
\* openers depend on the scope around them, closers on the scope they close,
\* every other action on its own scope.  A loop end closes one loop; only the
\* scope that assigned a gather its own has to be a scatter's.
ValidScopes ==
  /\ \A e \in Edges :
       LET src == ScopeChain[e.src]
           dst == ScopeChain[e.dst]
       IN CASE Kind[e.dst] \in {"scatter", "loop_start"} -> src = Front(dst)
            [] Kind[e.dst] = "gather" -> src # << >> /\ dst = Front(src)
            [] Kind[e.dst] = "loop_end" ->
                 src # << >> /\ dst = Front(src) /\ Last(src) = ClosedScope(e.dst)
            [] OTHER -> src = dst
  /\ \A r \in Gathers : Kind[ClosedScope(r)] = "scatter"

\* _validate_loop_scope_synchronization: a loop end closes a loop start's
\* scope, no two the same one, every loop start has its end, and every
\* action of a loop region reaches the loop end along success edges.
ValidLoops ==
  /\ RegionStart \in [LoopEnds -> LoopStarts]
  /\ \A x, y \in LoopEnds : RegionStart[x] = RegionStart[y] => x = y
  /\ \A s \in LoopStarts : \E x \in LoopEnds : RegionStart[x] = s
  /\ \A x \in LoopEnds :
       Region[x] \subseteq {x} \cup UpstreamBySuccess[x]

\* Without scatters and loops there are no scopes to check, nor cycles.
ValidGraph ==
  /\ \E r \in Refs : InEdges(r) = {}
  /\ \A r \in Gathers \cup LoopEnds : InEdges(r) # {}
  /\ Cardinality(Gathers) <= Cardinality(Scatters)
  /\ Cardinality(LoopEnds) = Cardinality(LoopStarts)
  /\ Scatters \cup LoopStarts # {} => Acyclic /\ ValidScopes /\ ValidLoops
=============================================================================

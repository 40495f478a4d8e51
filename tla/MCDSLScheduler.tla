-------------------------- MODULE MCDSLScheduler ---------------------------
(***************************************************************************)
(* Small workflow graphs for DSLScheduler.                                 *)
(***************************************************************************)
EXTENDS DSLScheduler

S(a, b) == [src |-> a, dst |-> b, type |-> "success"]
E(a, b) == [src |-> a, dst |-> b, type |-> "error"]

KindOf(sc, ga, ls, le) ==
  [r \in Refs |-> IF r \in sc THEN "scatter" ELSE IF r \in ga THEN "gather"
                  ELSE IF r \in ls THEN "loop_start"
                  ELSE IF r \in le THEN "loop_end" ELSE "action"]

\* a forks into b and c; b has an error handler; d and j join the branches.
DiamondRefs  == {"a", "b", "c", "h", "d", "j"}
DiamondEdges == {S("a","b"), S("a","c"), S("b","d"), E("b","h"), S("c","d"),
                 S("d","j"), S("h","j")}
None == << >>

\* x in the streams of scatter s, gathered by g, joined with p by z, then the
\* diamond.
ScatterRefs  == {"s", "x", "y", "g", "p", "z"} \cup DiamondRefs
ScatterEdges == {S("s","x"), S("x","g"), E("x","y"), S("y","g"), S("g","z"),
                 S("p","z"), S("z","a")} \cup DiamondEdges
ScatterKind  == KindOf({"s"}, {"g"}, {}, {})
ScatterStreams == {<< >>} \cup {<< <<"s", i>> >> : i \in -1..1}
ScatterSizes == [s |-> {0, 2}]
TwoItems == [s |-> {2}]

\* A do-while loop l..e around a scatter, whose streams have a loop p..q; then
\* a loop m..n above the platform cap whose failure z handles.
LoopsRefs  == {"a", "l", "s", "p", "y", "q", "g", "e", "m", "n", "z"}
LoopsEdges == {S("a","l"), S("l","s"), S("s","p"), S("p","y"), S("y","q"), S("q","g"),
               S("g","e"), S("e","m"), S("m","n"), E("n","z")}
LoopsKind  == KindOf({"s"}, {"g"}, {"l", "p", "m"}, {"e", "q", "n"})
LoopsMax   == [e |-> 2, q |-> 2, n |-> 4]

\* A scatter in a do-while loop.
ScatterInLoopRefs  == {"l", "s", "x", "g", "e", "z"}
ScatterInLoopEdges == {S("l","s"), S("s","x"), S("x","g"), S("g","e"), S("e","z")}
ScatterInLoopKind  == KindOf({"s"}, {"g"}, {"l"}, {"e"})
ScatterInLoopMax   == [e |-> 2]

\* The same with an error handler of the scatter, which is in its scope.
GuardedRefs  == ScatterInLoopRefs \cup {"y"}
GuardedEdges == ScatterInLoopEdges \cup {E("s","y"), S("y","g")}

\* Two branches in the streams of a scatter; the gather has an error edge.
ForkRefs  == {"s", "x", "y", "g", "z", "h"}
ForkEdges == {S("s","x"), S("s","y"), S("x","g"), S("y","g"), S("g","z"), E("g","h")}
ForkKind  == KindOf({"s"}, {"g"}, {}, {})

-----------------------------------------------------------------------------
(* What the documentation says of the scheduler, where the code differs.   *)

\* docs/automations/actions.mdx: "The error path [...] runs when the action
\* fails": where nothing can fail, no error edge is taken.
ErrorPathNeedsFailure ==
  CanFail \cup CanFailPlatform = {} =>
    \A e \in Edges : \A s \in Streams :
      e.type = "error" => edges[<<e, s>>] # "VISITED"
=============================================================================

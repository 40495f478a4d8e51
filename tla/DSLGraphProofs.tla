--------------------------- MODULE DSLGraphProofs ---------------------------
(***************************************************************************)
(* Lemmas about the static graph: what is upstream of an action, that the  *)
(* scopes of an acyclic graph are well defined, and that a do-while loop   *)
(* is entered by its start and left by its end only.                       *)
(***************************************************************************)
EXTENDS DSLGraph, TLAPS

-----------------------------------------------------------------------------
(* What is upstream of an action.                                          *)

\* A set that has what r, or a member of the set, depends on.
ClosedFor(C, r) == \A e \in Edges : e.dst \in C \cup {r} => e.src \in C

\* Upstream is the least such set.
LEMMA UpstreamLeast ==
  ASSUME NEW r \in Refs
  PROVE  /\ Upstream[r] \subseteq Refs
         /\ \A a \in Refs : a \in Upstream[r]
              <=> \A C \in SUBSET Refs : ClosedFor(C, r) => a \in C
  BY DEF Upstream, Reaching, ClosedFor

\* An edge joins two actions.
LEMMA EdgeEnds ==
  ASSUME NEW e \in Edges
  PROVE  e.src \in Refs /\ e.dst \in Refs /\ e.type \in EdgeTypes
  BY GraphAssumption

\* What an action depends on is upstream of it.
LEMMA EdgeUpstream ==
  ASSUME NEW e \in Edges
  PROVE  e.src \in Upstream[e.dst]
  BY UpstreamLeast, EdgeEnds DEF ClosedFor

\* Upstream of what is upstream is upstream.
LEMMA UpstreamTransitive ==
  ASSUME NEW r \in Refs, NEW a \in Upstream[r]
  PROVE  Upstream[a] \subseteq Upstream[r]
<1>1. a \in Refs
  BY UpstreamLeast
<1>2. ASSUME NEW b \in Upstream[a], NEW C \in SUBSET Refs, ClosedFor(C, r)
      PROVE  b \in C
  <2>1. a \in C
    BY <1>1, <1>2, UpstreamLeast
  <2>2. ClosedFor(C, a)
    BY <1>2, <2>1 DEF ClosedFor
  <2> QED BY <1>1, <2>2, UpstreamLeast
<1> QED BY <1>1, <1>2, UpstreamLeast

\* A path to r ends with one of r's dependencies.
LEMMA UpstreamLastEdge ==
  ASSUME NEW r \in Refs, NEW a \in Upstream[r]
  PROVE  \E e \in InEdges(r) : a = e.src \/ a \in Upstream[e.src]
<1> DEFINE C == {b \in Refs : \E e \in InEdges(r) : b = e.src \/ b \in Upstream[e.src]}
<1>1. ASSUME NEW e \in Edges, e.dst \in C \cup {r}
      PROVE  e.src \in C
  <2>1. e.src \in Refs
    BY EdgeEnds
  <2>2. CASE e.dst = r
    BY <2>1, <2>2 DEF InEdges
  <2>3. CASE e.dst \in C
    <3>1. PICK f \in InEdges(r) : e.dst = f.src \/ e.dst \in Upstream[f.src]
      BY <2>3
    <3>2. f.src \in Refs
      BY EdgeEnds DEF InEdges
    <3>3. e.src \in Upstream[f.src]
      BY <3>1, <3>2, EdgeUpstream, UpstreamTransitive
    <3> QED BY <2>1, <3>3
  <2> QED BY <1>1, <2>2, <2>3
<1>2. ClosedFor(C, r)
  BY <1>1 DEF ClosedFor
<1> HIDE DEF C
<1>3. C \in SUBSET Refs
  BY DEF C
<1>4. a \in C
  BY <1>2, <1>3, UpstreamLeast
<1> QED BY <1>4 DEF C

\* In an acyclic graph nothing is upstream of itself.
LEMMA NotOwnUpstream ==
  ASSUME Acyclic, NEW r \in Refs
  PROVE  r \notin Upstream[r]
<1> SUFFICES ASSUME r \in Upstream[r] PROVE FALSE
  OBVIOUS
<1> DEFINE U == {a \in Upstream[r] : r \in Upstream[a]}
<1>1. U \in SUBSET Refs /\ U # {}
  <2>1. r \in U
    OBVIOUS
  <2>2. U \subseteq Refs
    BY UpstreamLeast
  <2> QED BY <2>1, <2>2
<1>2. PICK a \in U : \A e \in InEdges(a) : e.src \notin U
  BY <1>1 DEF Acyclic
<1>3. a \in Refs
  BY UpstreamLeast
<1>4. PICK e \in InEdges(a) : r = e.src \/ r \in Upstream[e.src]
  BY <1>2, <1>3, UpstreamLastEdge
<1>5. e.src \in Upstream[r]
  BY <1>2, <1>4, EdgeUpstream, UpstreamTransitive DEF InEdges
<1> QED BY <1>2, <1>4, <1>5

\* A path of success edges is a path.
LEMMA SuccessIsUpstream ==
  ASSUME NEW r \in Refs
  PROVE  UpstreamBySuccess[r] \subseteq Upstream[r]
<1>1. ASSUME NEW a \in UpstreamBySuccess[r] PROVE a \in Upstream[r]
  <2>1. a \in Refs
    BY DEF UpstreamBySuccess, Reaching
  <2>2. ASSUME NEW C \in SUBSET Refs, ClosedFor(C, r) PROVE a \in C
    BY <2>2 DEF UpstreamBySuccess, Reaching, ClosedFor
  <2> QED BY <2>1, <2>2, UpstreamLeast
<1> QED BY <1>1

-----------------------------------------------------------------------------
(* Scopes.  ScopeChain is a recursive function: that it satisfies its      *)
(* equation has to be shown, from the graph being acyclic.                 *)

Parent(r) == (CHOOSE e \in InEdges(r) : TRUE).src
ParentChain(f, r) == IF InEdges(r) = {} THEN << >> ELSE f[Parent(r)]
ChainOf(r, parent) ==
  CASE Kind[r] \in {"scatter", "loop_start"} -> Append(parent, r)
    [] Kind[r] \in {"gather", "loop_end"} -> Front(parent)
    [] OTHER -> parent

\* f is the scope chain on D, a set that has the parents of its members.
Solves(f, D) ==
  /\ f \in [D -> Seq(Refs)]
  /\ \A r \in D : /\ InEdges(r) # {} => Parent(r) \in D
                  /\ f[r] = ChainOf(r, ParentChain(f, r))

\* The parent of an action is one of its dependencies.
LEMMA ParentEdge ==
  ASSUME NEW r \in Refs, InEdges(r) # {}
  PROVE  \E e \in InEdges(r) : e \in Edges /\ e.src = Parent(r) /\ Parent(r) \in Refs
<1>1. (CHOOSE e \in InEdges(r) : TRUE) \in InEdges(r)
  OBVIOUS
<1> QED BY <1>1, EdgeEnds DEF Parent, InEdges

\* A chain of refs gives a chain of refs.
LEMMA ChainOfType ==
  ASSUME NEW r \in Refs, NEW parent \in Seq(Refs)
  PROVE  ChainOf(r, parent) \in Seq(Refs)
  BY DEF ChainOf, Front

\* Two solutions agree wherever both are defined.
LEMMA SolutionsAgree ==
  ASSUME Acyclic, NEW D \in SUBSET Refs, NEW E \in SUBSET Refs, NEW f, NEW g,
         Solves(f, D), Solves(g, E)
  PROVE  \A r \in D \cap E : f[r] = g[r]
<1> SUFFICES ASSUME NEW q \in D \cap E, f[q] # g[q] PROVE FALSE
  OBVIOUS
<1> DEFINE U == {r \in D \cap E : f[r] # g[r]}
<1>1. U \in SUBSET Refs /\ U # {}
  OBVIOUS
<1>2. PICK r \in U : \A e \in InEdges(r) : e.src \notin U
  BY <1>1 DEF Acyclic
<1>3. ParentChain(f, r) = ParentChain(g, r)
  <2>1. CASE InEdges(r) = {}
    BY <2>1 DEF ParentChain
  <2>2. CASE InEdges(r) # {}
    <3>1. Parent(r) \in D \cap E
      BY <2>2 DEF Solves
    <3>2. Parent(r) \notin U
      BY <1>2, <2>2, ParentEdge
    <3> QED BY <2>2, <3>1, <3>2 DEF ParentChain
  <2> QED BY <2>1, <2>2
<1>4. f[r] = g[r]
  BY <1>2, <1>3 DEF Solves
<1> QED BY <1>2, <1>4

\* A solution can be extended to an action whose dependencies it covers.
LEMMA SolutionExtends ==
  ASSUME NEW D \in SUBSET Refs, NEW f, Solves(f, D), NEW r \in Refs, r \notin D,
         \A e \in InEdges(r) : e.src \in D
  PROVE  \E g : Solves(g, D \cup {r})
<1> DEFINE g == [q \in D \cup {r} |->
                   IF q = r THEN ChainOf(r, ParentChain(f, r)) ELSE f[q]]
<1>1. InEdges(r) # {} => Parent(r) \in D
  BY ParentEdge
<1>2. ParentChain(f, r) \in Seq(Refs)
  BY <1>1 DEF ParentChain, Solves
<1>3. g \in [D \cup {r} -> Seq(Refs)]
  BY <1>2, ChainOfType DEF Solves
<1>4. \A q \in D : f[q] = g[q]
  OBVIOUS
<1>5. g[r] = ChainOf(r, ParentChain(f, r))
  OBVIOUS
<1> HIDE DEF g
<1>6. \A q \in D \cup {r} : /\ InEdges(q) # {} => Parent(q) \in D
                            /\ ParentChain(g, q) = ParentChain(f, q)
  BY <1>1, <1>4 DEF ParentChain, Solves
<1>7. \A q \in D \cup {r} : g[q] = ChainOf(q, ParentChain(g, q))
  BY <1>4, <1>5, <1>6 DEF Solves
<1>8. Solves(g, D \cup {r})
  BY <1>3, <1>6, <1>7 DEF Solves
<1> QED BY <1>8

\* The solutions on all sets that have one fit together.
LEMMA SolutionsUnite ==
  ASSUME Acyclic, NEW Good \in SUBSET (SUBSET Refs),
         \A D \in Good : \E f : Solves(f, D)
  PROVE  \E g : Solves(g, UNION Good)
<1> DEFINE H(D) == CHOOSE f : Solves(f, D)
           Of(r) == CHOOSE D \in Good : r \in D
           g == [r \in UNION Good |-> H(Of(r))[r]]
<1>1. \A D \in Good : Solves(H(D), D)
  OBVIOUS
<1>2. \A r \in UNION Good : Of(r) \in Good /\ r \in Of(r)
  OBVIOUS
<1>3. ASSUME NEW D \in Good, NEW r \in D
      PROVE  g[r] = H(D)[r]
  <2>1. r \in UNION Good /\ Of(r) \in Good /\ r \in Of(r)
    BY <1>2
  <2>2. g[r] = H(Of(r))[r]
    BY <2>1
  <2> HIDE DEF g, H, Of
  <2>3. Solves(H(D), D) /\ Solves(H(Of(r)), Of(r))
    BY <1>1, <2>1
  <2>4. H(Of(r))[r] = H(D)[r]
    BY <2>1, <2>3, SolutionsAgree
  <2> QED BY <2>2, <2>4
<1>4. g = [r \in UNION Good |-> g[r]]
  OBVIOUS
<1> HIDE DEF g, H, Of
<1>5. ASSUME NEW r \in UNION Good
      PROVE  /\ g[r] \in Seq(Refs)
             /\ InEdges(r) # {} => Parent(r) \in UNION Good
             /\ g[r] = ChainOf(r, ParentChain(g, r))
  <2>1. PICK D \in Good : r \in D
    OBVIOUS
  <2>2. Solves(H(D), D) /\ g[r] = H(D)[r]
    BY <1>1, <1>3, <2>1
  <2>3. InEdges(r) # {} => Parent(r) \in D
    BY <2>1, <2>2 DEF Solves
  <2>4. ParentChain(g, r) = ParentChain(H(D), r)
    BY <1>3, <2>3 DEF ParentChain
  <2> QED BY <2>1, <2>2, <2>3, <2>4 DEF Solves
<1>6. g \in [UNION Good -> Seq(Refs)]
  BY <1>4, <1>5
<1> QED BY <1>5, <1>6 DEF Solves

\* So an acyclic graph has a scope chain for every action.
LEMMA ChainExists ==
  ASSUME Acyclic
  PROVE  \E f : Solves(f, Refs)
<1> DEFINE Good == {D \in SUBSET Refs : \E f : Solves(f, D)}
           G == UNION Good
<1>1. PICK g : Solves(g, G)
  BY SolutionsUnite
<1>2. G \in SUBSET Refs
  OBVIOUS
<1>3. G = Refs
  <2> SUFFICES ASSUME G # Refs PROVE FALSE
    OBVIOUS
  <2> DEFINE U == Refs \ G
  <2>1. U \in SUBSET Refs /\ U # {}
    BY <1>2
  <2>2. PICK r \in U : \A e \in InEdges(r) : e.src \notin U
    BY <2>1 DEF Acyclic
  <2>3. \A e \in InEdges(r) : e.src \in G
    BY <2>2, EdgeEnds DEF InEdges
  <2>4. r \in Refs /\ r \notin G
    BY <2>2
  <2>5. \E f : Solves(f, G \cup {r})
    BY <1>1, <1>2, <2>3, <2>4, SolutionExtends
  <2>6. G \cup {r} \in Good
    BY <1>2, <2>4, <2>5
  <2> QED BY <2>4, <2>6
<1> QED BY <1>1, <1>3

\* The scope chain of every action is the one its parent's chain gives.
LEMMA ChainSolves ==
  ASSUME Acyclic
  PROVE  Solves(ScopeChain, Refs)
<1> DEFINE Eq(f) == f = [r \in Refs |-> ChainOf(r, ParentChain(f, r))]
<1>1. ScopeChain = CHOOSE f : Eq(f)
  BY DEF ScopeChain, ChainOf, ParentChain, Parent
<1>2. PICK f : Solves(f, Refs)
  BY ChainExists
<1>3. f = [r \in Refs |-> f[r]]
  BY <1>2 DEF Solves
<1>4. Eq(f)
  BY <1>2, <1>3 DEF Solves
<1>5. Eq(ScopeChain)
  BY <1>1, <1>4
<1>6. \A r \in Refs : ScopeChain[r] = ChainOf(r, ParentChain(ScopeChain, r))
  BY <1>5
<1>7. ASSUME NEW q \in Refs, ScopeChain[q] # f[q] PROVE FALSE
  <2> DEFINE U == {r \in Refs : ScopeChain[r] # f[r]}
  <2>1. U \in SUBSET Refs /\ U # {}
    BY <1>7
  <2>2. PICK r \in U : \A e \in InEdges(r) : e.src \notin U
    BY <2>1 DEF Acyclic
  <2>3. ParentChain(ScopeChain, r) = ParentChain(f, r)
    BY <2>2, ParentEdge DEF ParentChain
  <2> QED BY <1>2, <1>6, <2>2, <2>3 DEF Solves
<1>8. ScopeChain = [r \in Refs |-> ScopeChain[r]]
  BY <1>5
<1>9. ScopeChain = f
  BY <1>3, <1>7, <1>8
<1> QED BY <1>2, <1>9

\* s is one of the openers around r.
InScope(r, s) == \E i \in DOMAIN ScopeChain[r] : ScopeChain[r][i] = s

\* What taking the last scope off a chain leaves in it.
LEMMA FrontMembers ==
  ASSUME NEW q \in Seq(Refs)
  PROVE  /\ \A i \in DOMAIN Front(q) : i \in DOMAIN q /\ Front(q)[i] = q[i]
         /\ \A i \in DOMAIN q : q[i] # Last(q) => i \in DOMAIN Front(q)
  BY DEF Front, Last

\* And what adding one does.
LEMMA AppendMembers ==
  ASSUME NEW q \in Seq(Refs), NEW r \in Refs
  PROVE  /\ Front(Append(q, r)) = q
         /\ \A i \in DOMAIN Append(q, r) :
              \/ i \in DOMAIN q /\ Append(q, r)[i] = q[i]
              \/ Append(q, r)[i] = r
         /\ \A i \in DOMAIN q : i \in DOMAIN Append(q, r) /\ Append(q, r)[i] = q[i]
         /\ Len(q) + 1 \in DOMAIN Append(q, r) /\ Append(q, r)[Len(q) + 1] = r
<1>1. Front(Append(q, r)) = q
  BY DEF Front
<1> QED BY <1>1

\* The parent's chain of an action, and its own.
LEMMA ChainFacts ==
  ASSUME Acyclic, NEW r \in Refs
  PROVE  /\ ScopeChain[r] \in Seq(Refs)
         /\ ParentChain(ScopeChain, r) \in Seq(Refs)
         /\ ScopeChain[r] = ChainOf(r, ParentChain(ScopeChain, r))
<1>1. Solves(ScopeChain, Refs)
  BY ChainSolves
<1>2. ScopeChain[r] \in Seq(Refs) /\ ScopeChain[r] = ChainOf(r, ParentChain(ScopeChain, r))
  BY <1>1 DEF Solves
<1>3. ParentChain(ScopeChain, r) \in Seq(Refs)
  BY <1>1 DEF Solves, ParentChain
<1> QED BY <1>2, <1>3

\* An opener is in the scope it opens.
LEMMA OpenerInScope ==
  ASSUME Acyclic, NEW r \in LoopStarts
  PROVE  InScope(r, r)
<1>1. r \in Refs /\ Kind[r] = "loop_start"
  BY DEF LoopStarts
<1> DEFINE q == ParentChain(ScopeChain, r)
<1>2. q \in Seq(Refs) /\ ScopeChain[r] = Append(q, r)
  BY <1>1, ChainFacts DEF ChainOf
<1> HIDE DEF q
<1> QED BY <1>1, <1>2, AppendMembers DEF InScope

\* The other openers around an action are around its parent.
LEMMA ScopeFromParent ==
  ASSUME Acyclic, NEW r \in Refs, NEW s, InScope(r, s), s # r
  PROVE  InEdges(r) # {} /\ InScope(Parent(r), s)
<1> DEFINE q == ParentChain(ScopeChain, r)
<1>1. q \in Seq(Refs) /\ ScopeChain[r] = ChainOf(r, q)
  BY ChainFacts
<1>2. q # << >> => InEdges(r) # {} /\ q = ScopeChain[Parent(r)]
  BY DEF ParentChain
<1> HIDE DEF q
<1>3. \E i \in DOMAIN q : q[i] = s
  <2>1. CASE ScopeChain[r] = Append(q, r)
    BY <1>1, <2>1, AppendMembers DEF InScope
  <2>2. CASE ScopeChain[r] = Front(q)
    BY <1>1, <2>2, FrontMembers DEF InScope
  <2>3. CASE ScopeChain[r] = q
    BY <2>3 DEF InScope
  <2> QED BY <1>1, <2>1, <2>2, <2>3 DEF ChainOf
<1>4. q # << >>
  BY <1>3
<1> QED BY <1>2, <1>3, <1>4 DEF InScope

\* The openers around an action, but for itself, are upstream of it.
LEMMA ScopeUpstream ==
  ASSUME Acyclic, NEW r \in Refs, NEW s, InScope(r, s), s # r
  PROVE  s \in Upstream[r]
<1> SUFFICES ASSUME s \notin Upstream[r] PROVE FALSE
  OBVIOUS
<1> DEFINE U == {q \in Refs : InScope(q, s) /\ s # q /\ s \notin Upstream[q]}
<1>1. U \in SUBSET Refs /\ U # {}
  OBVIOUS
<1>2. PICK q \in U : \A e \in InEdges(q) : e.src \notin U
  BY <1>1 DEF Acyclic
<1>3. InEdges(q) # {} /\ InScope(Parent(q), s)
  BY <1>2, ScopeFromParent
<1>4. PICK e \in InEdges(q) : e \in Edges /\ e.src = Parent(q) /\ Parent(q) \in Refs
  BY <1>2, <1>3, ParentEdge
<1>5. s = Parent(q) \/ s \in Upstream[Parent(q)]
  BY <1>2, <1>3, <1>4
<1>6. Parent(q) \in Upstream[q]
  BY <1>4, EdgeUpstream DEF InEdges
<1> QED BY <1>2, <1>5, <1>6, UpstreamTransitive

-----------------------------------------------------------------------------
(* Do-while loops.                                                         *)

\* The graph passed the scope checks of validate_structure.
ScopesChecked == Acyclic /\ ValidScopes /\ ValidLoops

\* A loop's region: its end, and what its start is around.  The start is in it.
LEMMA RegionMembers ==
  ASSUME ScopesChecked, NEW x \in LoopEnds
  PROVE  /\ x \in Refs /\ RegionStart[x] \in LoopStarts
         /\ RegionStart[x] \in Refs /\ RegionStart[x] # x
         /\ Region[x] = {x} \cup {r \in Refs : InScope(r, RegionStart[x])}
         /\ RegionStart[x] \in Region[x]
<1>1. RegionStart[x] \in LoopStarts
  BY DEF ScopesChecked, ValidLoops
<1>2. /\ x \in Refs /\ RegionStart[x] \in Refs /\ RegionStart[x] # x
  BY <1>1 DEF LoopStarts, LoopEnds
<1>3. Region[x] = {x} \cup {r \in Refs : InScope(r, RegionStart[x])}
  BY DEF Region, InScope
<1> QED BY <1>1, <1>2, <1>3, OpenerInScope DEF ScopesChecked

\* The start is upstream of everything in its loop, and everything in it is
\* upstream of its end.
LEMMA RegionUpstream ==
  ASSUME ScopesChecked, NEW x \in LoopEnds, NEW r \in Region[x]
  PROVE  /\ r # RegionStart[x] => RegionStart[x] \in Upstream[r]
         /\ r # x => r \in Upstream[x]
<1>1. r # x => r \in Upstream[x]
  BY RegionMembers, SuccessIsUpstream DEF ScopesChecked, ValidLoops
<1>2. ASSUME r # RegionStart[x] PROVE RegionStart[x] \in Upstream[r]
  <2>1. CASE r = x
    <3>1. RegionStart[x] \in Region[x] \ {x}
      BY RegionMembers
    <3> QED BY <2>1, <3>1, RegionMembers, SuccessIsUpstream DEF ScopesChecked, ValidLoops
  <2>2. CASE r # x
    BY <1>2, <2>2, RegionMembers, ScopeUpstream DEF ScopesChecked
  <2> QED BY <2>1, <2>2
<1> QED BY <1>1, <1>2

\* What ValidScopes says of an edge, where no gather closes scopes.
LEMMA EdgeScopes ==
  ASSUME ScopesChecked, Gathers = {}, NEW e \in Edges
  PROVE  /\ ScopeChain[e.src] \in Seq(Refs) /\ ScopeChain[e.dst] \in Seq(Refs)
         /\ \/ /\ e.dst \notin LoopEnds
               /\ ScopeChain[e.src] = ScopeChain[e.dst]
            \/ /\ e.dst \notin LoopEnds
               /\ ScopeChain[e.dst] = Append(ScopeChain[e.src], e.dst)
            \/ /\ e.dst \in LoopEnds
               /\ ScopeChain[e.src] # << >>
               /\ ScopeChain[e.dst] = Front(ScopeChain[e.src])
               /\ Last(ScopeChain[e.src]) = RegionStart[e.dst]
<1> DEFINE src == ScopeChain[e.src]
           dst == ScopeChain[e.dst]
<1>1. e.src \in Refs /\ e.dst \in Refs /\ Kind[e.dst] # "gather"
  BY EdgeEnds DEF Gathers
<1>2. src \in Seq(Refs) /\ dst \in Seq(Refs)
  BY <1>1, ChainFacts DEF ScopesChecked
<1>3. CASE Kind[e.dst] \in {"scatter", "loop_start"}
  <2>1. src = Front(dst)
    BY <1>3 DEF ScopesChecked, ValidScopes
  <2>2. PICK q \in Seq(Refs) : dst = Append(q, e.dst)
    BY <1>1, <1>3, ChainFacts DEF ScopesChecked, ChainOf
  <2>3. src = q
    BY <1>1, <2>1, <2>2, AppendMembers
  <2> QED BY <1>2, <1>3, <2>2, <2>3 DEF LoopEnds
<1>4. CASE Kind[e.dst] = "loop_end"
  <2>1. src # << >> /\ dst = Front(src) /\ Last(src) = ClosedScope(e.dst)
    BY <1>4 DEF ScopesChecked, ValidScopes
  <2>2. e.dst \in LoopEnds
    BY <1>1, <1>4 DEF LoopEnds
  <2> QED BY <1>2, <2>1, <2>2 DEF RegionStart
<1>5. CASE Kind[e.dst] \notin {"scatter", "loop_start", "loop_end"}
  <2>1. src = dst
    BY <1>1, <1>5 DEF ScopesChecked, ValidScopes
  <2> QED BY <1>2, <1>5, <2>1 DEF LoopEnds
<1> QED BY <1>3, <1>4, <1>5

\* Only the start of a loop depends on what is outside, and on nothing inside.
LEMMA RegionEntered ==
  ASSUME ScopesChecked, Gathers = {}, NEW x \in LoopEnds, NEW e \in Edges,
         e.dst \in Region[x]
  PROVE  e.dst = RegionStart[x] <=> e.src \notin Region[x]
<1> DEFINE s == RegionStart[x]
<1>1. e.src \in Refs /\ e.dst \in Refs
  BY EdgeEnds
<1>2. ASSUME e.dst = s, e.src \in Region[x] PROVE FALSE
  <2>1. e.src \in Upstream[s]
    BY <1>2, EdgeUpstream
  <2>2. s = e.src \/ s \in Upstream[e.src]
    BY <1>2, RegionUpstream
  <2>3. s \in Upstream[s]
    BY <2>1, <2>2, RegionMembers, UpstreamTransitive
  <2> QED BY <2>3, RegionMembers, NotOwnUpstream DEF ScopesChecked
<1>3. ASSUME e.dst # s PROVE InScope(e.src, s)
  <2>1. CASE e.dst \in LoopEnds /\ e.dst = x
    <3>1. ScopeChain[e.src] # << >> /\ Last(ScopeChain[e.src]) = s
      BY <2>1, EdgeScopes
    <3>2. ScopeChain[e.src] \in Seq(Refs)
      BY EdgeScopes
    <3> QED BY <3>1, <3>2 DEF InScope, Last
  <2>2. CASE e.dst # x
    <3>1. InScope(e.dst, s)
      BY <2>2, RegionMembers
    <3>2. CASE ScopeChain[e.src] = ScopeChain[e.dst]
      BY <3>1, <3>2 DEF InScope
    <3>3. CASE ScopeChain[e.dst] = Append(ScopeChain[e.src], e.dst)
      BY <1>1, <1>3, <3>1, <3>3, EdgeScopes, AppendMembers DEF InScope
    <3>4. CASE ScopeChain[e.dst] = Front(ScopeChain[e.src])
      BY <3>1, <3>4, EdgeScopes, FrontMembers DEF InScope
    <3> QED BY <3>2, <3>3, <3>4, EdgeScopes
  <2> QED BY <2>1, <2>2
<1> QED BY <1>1, <1>2, <1>3, RegionMembers

\* Only what depends on the end of a loop is outside of it.
LEMMA RegionLeft ==
  ASSUME ScopesChecked, Gathers = {}, NEW x \in LoopEnds, NEW e \in Edges,
         e.src \in Region[x], e.src # x
  PROVE  e.dst \in Region[x]
<1> DEFINE s == RegionStart[x]
<1>1. e.src \in Refs /\ e.dst \in Refs
  BY EdgeEnds
<1>2. InScope(e.src, s)
  BY RegionMembers
<1>3. CASE ScopeChain[e.src] = ScopeChain[e.dst]
  BY <1>1, <1>2, <1>3, RegionMembers DEF InScope
<1>4. CASE ScopeChain[e.dst] = Append(ScopeChain[e.src], e.dst)
  <2>1. InScope(e.dst, s)
    BY <1>1, <1>2, <1>4, EdgeScopes, AppendMembers DEF InScope
  <2> QED BY <1>1, <2>1, RegionMembers
<1>5. CASE /\ e.dst \in LoopEnds
           /\ ScopeChain[e.dst] = Front(ScopeChain[e.src])
           /\ Last(ScopeChain[e.src]) = RegionStart[e.dst]
  <2>1. CASE RegionStart[e.dst] = s
    BY <1>5, <2>1, RegionMembers DEF ScopesChecked, ValidLoops
  <2>2. CASE RegionStart[e.dst] # s
    <3>1. InScope(e.dst, s)
      BY <1>2, <1>5, <2>2, EdgeScopes, FrontMembers DEF InScope
    <3> QED BY <1>1, <3>1, RegionMembers
  <2> QED BY <2>1, <2>2
<1> QED BY <1>3, <1>4, <1>5, EdgeScopes
=============================================================================

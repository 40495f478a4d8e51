--------------------------- MODULE DispatchProofs ---------------------------
(***************************************************************************)
(* Theorems about how DSLScheduler dispatches tasks, for every valid graph *)
(* of actions and nested do-while loops (Scatters = {}), whatever fails,   *)
(* is skipped, delayed by the cap, or cancelled.                           *)
(*                                                                         *)
(* The argument is about edge markers.  A task is fed when every edge into *)
(* it is marked; an edge is marked only when its source was fed; a task    *)
(* that waits or runs is fed and has marked none of its own edges.         *)
(***************************************************************************)
EXTENDS DSLSchedulerProofs, DSLGraphProofs

At(r) == <<r, Root>>
Marked(e) == edges[<<e, Root>>] # "PENDING"
Fed(r) == \A e \in InEdges(r) : Marked(e)

\* The edges into d that markers f leave to be processed.
PendingIn(f, d) == {e \in InEdges(d) : f[<<e, Root>>] = "PENDING"}

\* An edge is processed only after all the edges into its source.
MarkedInOrder == \A e \in Edges : Marked(e) => Fed(e.src)

\* The part of the invariant that is inductive on its own.
CoreInv == IndegreeAccounting /\ SingleDispatch /\ MarkedInOrder

\* Without scatters there are no gathers, and every task is in the root stream.
LEMMA PlainGraph ==
  ASSUME Scatters = {}
  PROVE  /\ Gathers = {}
         /\ Streams = {Root}
         /\ \A t \in Tasks : t[1] \in Refs /\ t[2] = Root /\ t = At(t[1])
         /\ \A r \in Refs : /\ At(r) \in Tasks /\ At(r)[1] = r /\ At(r)[2] = Root
                            /\ Kind[r] \in {"action", "loop_start", "loop_end"}
<1>1. Cardinality(Scatters) = 0
  BY FS_EmptySet
<1>2. IsFiniteSet(Gathers)
  BY FS_Subset, GraphAssumption DEF Gathers
<1>3. Gathers = {}
  <2>1. Cardinality(Gathers) \in Nat
    BY <1>2, FS_CardinalityType
  <2>2. Cardinality(Gathers) = 0
    BY <1>1, <2>1, GraphIsValid DEF ValidGraph
  <2> QED BY <1>2, <2>2, FS_EmptySet
<1>4. \A s \in Streams : s = Root
  <2> SUFFICES ASSUME NEW s \in Streams PROVE s = Root
    OBVIOUS
  <2>1. s \in Seq({})
    BY SchedulerAssumption DEF StreamIds
  <2> QED BY <2>1 DEF Root
<1>5. Streams = {Root}
  BY <1>4, SchedulerAssumption
<1>6. \A r \in Refs : Kind[r] \in {"action", "loop_start", "loop_end"}
  BY <1>3, GraphAssumption DEF Scatters, Gathers, Kinds
<1> QED BY <1>3, <1>5, <1>6 DEF Tasks, At

\* The loops of such a graph passed the scope checks.
LEMMA PlainLoops ==
  ASSUME NEW x \in LoopEnds
  PROVE  ScopesChecked
  BY LoopScopes DEF ScopesChecked

\* The counter of a task and the edges into it.
LEMMA PendingFacts ==
  ASSUME NEW d \in Refs, NEW f
  PROVE  /\ IsFiniteSet(InEdges(d)) /\ IsFiniteSet(PendingIn(f, d))
         /\ Cardinality(PendingIn(f, d)) \in Nat
         /\ Cardinality(PendingIn(f, d)) = 0
              <=> \A e \in InEdges(d) : f[<<e, Root>>] # "PENDING"
<1>1. IsFiniteSet(InEdges(d)) /\ IsFiniteSet(PendingIn(f, d))
  BY FS_Subset, GraphAssumption DEF InEdges, PendingIn
<1>2. Cardinality(PendingIn(f, d)) = 0 <=> PendingIn(f, d) = {}
  BY <1>1, FS_EmptySet
<1> QED BY <1>1, <1>2, FS_CardinalityType DEF PendingIn

\* The counters, read as the number of edges left to be processed.
LEMMA Accounting ==
  ASSUME Scatters = {}
  PROVE  IndegreeAccounting
           <=> \A r \in Refs : indegrees[At(r)] = Cardinality(PendingIn(edges, r))
<1> DEFINE Count(t) == {e \in InEdges(t[1]) : edges[<<e, t[2]>>] = "PENDING"}
<1>1. \A r \in Refs : PendingIn(edges, r) = Count(At(r))
  BY PlainGraph DEF PendingIn
<1>2. IndegreeAccounting <=> \A t \in Tasks : indegrees[t] = Cardinality(Count(t))
  BY DEF IndegreeAccounting
<1> HIDE DEF Count
<1> QED BY <1>1, <1>2, PlainGraph

\* The same after a step.
LEMMA AccountingNext ==
  ASSUME Scatters = {},
         \A r \in Refs : indegrees'[At(r)] = Cardinality(PendingIn(edges', r))
  PROVE  IndegreeAccounting'
<1> DEFINE Count(t) == {e \in InEdges(t[1]) : edges'[<<e, t[2]>>] = "PENDING"}
<1>1. \A r \in Refs : PendingIn(edges', r) = Count(At(r))
  BY PlainGraph DEF PendingIn
<1>2. IndegreeAccounting' <=> \A t \in Tasks : indegrees'[t] = Cardinality(Count(t))
  BY DEF IndegreeAccounting
<1> HIDE DEF Count
<1> QED BY <1>1, <1>2, PlainGraph

\* What is upstream of a fed task is fed, and has marked an edge.
LEMMA FedUpstream ==
  ASSUME MarkedInOrder, NEW x \in Refs, Fed(x), NEW a \in Upstream[x]
  PROVE  Fed(a) /\ \E e \in OutEdges(a) : Marked(e)
<1> DEFINE C == {r \in Refs : Fed(r) /\ \E e \in OutEdges(r) : Marked(e)}
<1>1. ASSUME NEW e \in Edges, e.dst \in C \cup {x}
      PROVE  e.src \in C
  <2>1. Fed(e.dst)
    BY <1>1
  <2>2. Marked(e)
    BY <2>1 DEF Fed, InEdges
  <2>3. Fed(e.src)
    BY <2>2 DEF MarkedInOrder
  <2> QED BY <2>2, <2>3, EdgeEnds DEF OutEdges
<1>2. ClosedFor(C, x)
  BY <1>1 DEF ClosedFor
<1> HIDE DEF C
<1>3. C \in SUBSET Refs
  BY DEF C
<1>4. a \in C
  BY <1>2, <1>3, UpstreamLeast
<1> QED BY <1>4 DEF C

\* A task that waits or runs is fed and has marked nothing.
LEMMA ActiveFacts ==
  ASSUME Scatters = {}, SingleDispatch, NEW r \in Refs, Active(At(r))
  PROVE  /\ queued[At(r)] = (IF Running(At(r)) THEN 0 ELSE 1)
         /\ Fed(r)
         /\ \A e \in OutEdges(r) : ~Marked(e)
<1>1. At(r) \in Tasks /\ At(r)[1] = r /\ At(r)[2] = Root
      /\ Kind[r] \in {"action", "loop_start", "loop_end"}
  BY PlainGraph
<1> QED BY <1>1 DEF SingleDispatch, Fed, Marked

\* So what is upstream of a fed task neither waits nor runs.
LEMMA UpstreamQuiet ==
  ASSUME Scatters = {}, SingleDispatch, MarkedInOrder,
         NEW x \in Refs, Fed(x), NEW a \in Upstream[x]
  PROVE  a \in Refs /\ Fed(a) /\ ~Active(At(a))
<1>1. a \in Refs
  BY UpstreamLeast
<1> QED BY <1>1, FedUpstream, ActiveFacts

-----------------------------------------------------------------------------
(* The four things a coroutine's step can do.                              *)

PastCheck == {"delay", "execute", "scatter", "gather_item", "loop_start",
              "loop_cond", "loop_continue", "loop_stop"}

\* What every step but a loop's next iteration leaves alone.
Steady == /\ UNCHANGED <<main, taskStreams>>
          /\ taskExc \subseteq taskExc'
          /\ \A u \in Tasks : loopIndices'[u] \in {0, loopIndices[u]}

\* The task completes and its outcome goes to the edges out of it.
Published(t) == /\ \E skip : QueueTasks(t[1], Root, skip)
                /\ Finish(t)
                /\ Steady

\* The task ends and its edges stay as they are: the workflow stops.
Ended(t) == /\ UNCHANGED graphVars
            /\ pc' = [pc EXCEPT ![t] = "done"]
            /\ completed' \in {completed, completed \cup {t}}
            /\ taskExc' # {} \/ main = "cancel"
            /\ Steady

\* The task goes on to its next await; past the reachability check only when
\* it passed it.
Moved(t) == \E label \in Awaits :
              /\ Await(t, label)
              /\ label \in PastCheck => IsReachable(t) \/ pc[t] \in PastCheck
              /\ UNCHANGED graphVars
              /\ Steady

\* The task is a loop's end and starts the loop's next iteration.
Iterated(t) == /\ t[1] \in LoopEnds
               /\ \E next \in Nat : NextIteration(t, Region[t[1]], next)

Shape(t) == Published(t) \/ Ended(t) \/ Moved(t) \/ Iterated(t)

\* Leaving the loop and stream variables alone is steady.
LEMMA SteadyUnchanged ==
  ASSUME UNCHANGED <<main, taskExc, taskStreams, loopIndices>>
  PROVE  Steady
  BY DEF Steady

\* A failing task is published, along its error edges, or ends the workflow.
LEMMA FailShape ==
  ASSUME Scatters = {}, NEW t \in Tasks, NEW platform,
         ErrorPath(t, platform, {}),
         UNCHANGED <<main, streamVars, gatherVars, loopVars>>
  PROVE  Shape(t)
<1>1. t[2] = Root
  BY PlainGraph
<1>2. Steady
  BY DEF Steady, ErrorPath, streamVars, loopVars
<1>3. CASE ErrorEdges(t[1]) # {} /\ ~platform
  BY <1>1, <1>2, <1>3 DEF ErrorPath, Shape, Published
<1>4. CASE ~(ErrorEdges(t[1]) # {} /\ ~platform)
  BY <1>1, <1>2, <1>4 DEF ErrorPath, Shape, Ended, Finish
<1> QED BY <1>3, <1>4

\* A skipped task publishes, unless its loop is over the platform cap.
LEMMA SkipShape ==
  ASSUME Scatters = {}, TypeOK, NEW t \in Tasks, SkipPath(t)
  PROVE  Shape(t)
<1>1. t[2] = Root /\ Kind[t[1]] \in {"action", "loop_start", "loop_end"}
  BY PlainGraph
<1>2. CASE LoopStartSkipped(t)
  BY <1>1, <1>2, SteadyUnchanged DEF LoopStartSkipped, Shape, Published, excVars, streamVars
<1>3. CASE Kind[t[1]] = "loop_end" /\ LoopEndSkipped(t)
  <2>1. CASE Fail(t)
    BY <2>1, FailShape DEF Fail
  <2>2. CASE ~Fail(t)
    <3>1. Steady
      BY <1>3, <2>2 DEF LoopEndSkipped, Steady, excVars, streamVars, TypeOK
    <3>2. Finish(t) /\ \E skip : QueueTasks(t[1], Root, skip)
      BY <1>1, <1>3, <2>2 DEF LoopEndSkipped, SuccessPath
    <3> QED BY <3>1, <3>2 DEF Shape, Published
  <2> QED BY <2>1, <2>2
<1>4. CASE /\ QueueTasks(t[1], t[2], OutEdges(t[1]))
           /\ Finish(t)
           /\ UNCHANGED <<main, excVars, streamVars, gatherVars, loopVars>>
  BY <1>1, <1>4, SteadyUnchanged DEF Shape, Published, excVars, streamVars, loopVars
<1> QED BY <1>1, <1>2, <1>3, <1>4 DEF SkipPath

\* A task that only goes on to an await is moved.
LEMMA AwaitShape ==
  ASSUME NEW t \in Tasks, NEW label \in Awaits, AwaitOnly(t, label),
         label \in PastCheck => IsReachable(t) \/ pc[t] \in PastCheck
  PROVE  Shape(t)
<1>1. Steady
  BY SteadyUnchanged DEF AwaitOnly, excVars, streamVars, loopVars
<1> QED BY <1>1 DEF AwaitOnly, Shape, Moved

\* A handler called past the reachability check has one of the shapes.
LEMMA DispatchShape ==
  ASSUME Scatters = {}, NEW t \in Tasks, Dispatch(t),
         IsReachable(t) \/ pc[t] \in PastCheck
  PROVE  Shape(t)
<1>1. Kind[t[1]] \in {"action", "loop_start", "loop_end"}
  BY PlainGraph
<1>2. {"loop_start", "loop_cond", "execute"} \subseteq Awaits
  BY DEF Awaits
<1>3. CASE LoopStartReached(t)
  <2>1. Steady
    BY <1>3, SteadyUnchanged DEF LoopStartReached, excVars, streamVars
  <2> QED BY <1>2, <1>3, <2>1 DEF LoopStartReached, Shape, Moved
<1>4. CASE LoopEndReached(t)
  <2>1. CASE Fail(t)
    BY <2>1, FailShape DEF Fail
  <2>2. CASE ~Fail(t)
    <3>1. Steady
      BY <1>4, <2>2, SteadyUnchanged DEF LoopEndReached, excVars, streamVars
    <3> QED BY <1>2, <1>4, <2>2, <3>1 DEF LoopEndReached, Shape, Moved
  <2> QED BY <2>1, <2>2
<1>5. CASE AwaitOnly(t, "execute")
  BY <1>2, <1>5, AwaitShape
<1> QED BY <1>1, <1>3, <1>4, <1>5 DEF Dispatch

\* So has the check itself.
LEMMA CheckShape ==
  ASSUME Scatters = {}, NEW t \in Tasks, CheckReachable(t)
  PROVE  Shape(t)
<1>1. "delay" \in Awaits
  BY DEF Awaits
<1>2. CASE Fail(t)
  BY <1>2, FailShape DEF Fail
<1> QED BY <1>1, <1>2, AwaitShape, DispatchShape DEF CheckReachable

\* Every step of a coroutine has one of the four shapes.
LEMMA StepShape ==
  ASSUME Scatters = {}, TypeOK, PcFits, NEW t \in Tasks, Step(t)
  PROVE  Shape(t)
<1>1. /\ t[2] = Root /\ t[1] \in Refs
      /\ pc[t] \notin {"scatter", "gather_item", "gather_finalize", "gather_exec",
                       "gather_empty"}
  BY PlainGraph DEF PcFits, Fits
<1>2. CASE Fail(t)
  BY <1>2, FailShape DEF Fail
<1>3. CASE Cancelled(t)
  <2>1. Steady
    BY <1>3, SteadyUnchanged DEF Cancelled, excVars, streamVars, loopVars
  <2> QED BY <1>3, <2>1 DEF Cancelled, Shape, Ended
<1>4. CASE Schedule(t)
  <2>1. "run_if" \in Awaits /\ "run_if" \notin PastCheck
    BY DEF Awaits, PastCheck
  <2> QED BY <1>4, <2>1, SkipShape, AwaitShape, CheckShape DEF Schedule
<1>5. CASE RunIfHolds(t) \/ RunIfSkips(t)
  BY <1>5, SkipShape, CheckShape DEF RunIfHolds, RunIfSkips
<1>6. CASE Delay(t)
  BY <1>6, DispatchShape DEF Delay, PastCheck
<1>7. CASE Execute(t)
  BY <1>1, <1>7, SteadyUnchanged
     DEF Execute, SuccessPath, Shape, Published, excVars, streamVars, loopVars
<1>8. CASE ExecuteFailsPlatform(t)
  BY <1>8, FailShape DEF ExecuteFailsPlatform
<1>9. CASE LoopCondition(t)
  <2>1. {"loop_continue", "loop_stop"} \subseteq Awaits /\ pc[t] \in PastCheck
    BY <1>9 DEF LoopCondition, Awaits, PastCheck
  <2> QED BY <1>9, <2>1, AwaitShape DEF LoopCondition, AwaitOnly
<1>10. CASE LoopContinue(t)
  <2>1. t[1] \in LoopEnds /\ NextIndex(currentIndex[t]) \in Nat
    BY <1>10 DEF LoopContinue, PcFits, Fits, NextIndex, TypeOK
  <2> QED BY <1>2, <1>10, <2>1 DEF LoopContinue, Shape, Iterated
<1>11. CASE LoopStop(t)
  <2>1. Steady
    BY <1>11 DEF LoopStop, Steady, excVars, streamVars, TypeOK
  <2> QED BY <1>1, <1>11, <2>1 DEF LoopStop, SuccessPath, Shape, Published
<1> QED BY <1>1, <1>2, <1>3, <1>4, <1>5, <1>6, <1>7, <1>8, <1>9, <1>10, <1>11
        DEF Step, Resume, RunIfFails, ExecuteFails, LoopFails, CancelledAsError,
            Scatter, ScatterFails, GatherItem, GatherItemFails, GatherFinalize,
            GatherFinalizeFails, GatherExec, GatherEmpty

-----------------------------------------------------------------------------
(* A task completes and publishes its outcome.                             *)

\* The edges out of it are marked, and only they; the coroutine is done.
LEMMA PublishedMarks ==
  ASSUME Scatters = {}, TypeOK, NEW t \in Tasks, Published(t)
  PROVE  /\ \A e \in Edges : edges'[<<e, Root>>] # edges[<<e, Root>>] => e \in OutEdges(t[1])
         /\ \A e \in Edges : Marked(e)' <=> Marked(e) \/ e \in OutEdges(t[1])
         /\ \A u \in Tasks : Running(u)' <=> Running(u) /\ u # t
         /\ \A u \in Tasks : queued'[u] = queued[u] + (IF u \in Ready(t[1], {Root}) THEN 1 ELSE 0)
         /\ \A r \in Refs : indegrees'[At(r)] = indegrees[At(r)] - Links[<<t[1], r>>]
<1>1. PICK skip : QueueTasksIn(t[1], {Root}, skip, {})
  BY DEF Published, QueueTasks
<1>2. Root \in Streams
  BY SchedulerAssumption
<1>3. ASSUME NEW e \in Edges
      PROVE  edges'[<<e, Root>>] = IF e \in OutEdges(t[1])
               THEN IF e \in skip THEN "SKIPPED" ELSE "VISITED"
               ELSE edges[<<e, Root>>]
  BY <1>1, <1>2 DEF QueueTasksIn
<1>4. \A u \in Tasks : Running(u)' <=> Running(u) /\ u # t
  BY DEF Published, Finish, Running, TypeOK
<1>5. \A u \in Tasks : queued'[u] = queued[u] + (IF u \in Ready(t[1], {Root}) THEN 1 ELSE 0)
  BY <1>1 DEF QueueTasksIn, TypeOK
<1>6. \A r \in Refs : indegrees'[At(r)] = indegrees[At(r)] - Links[<<t[1], r>>]
  BY <1>1, PlainGraph DEF QueueTasksIn
<1> QED BY <1>3, <1>4, <1>5, <1>6 DEF Marked

\* The tasks that become ready are the ones the last edges of feed, and the
\* counters follow the markers.
LEMMA PublishedFeeds ==
  ASSUME Scatters = {}, TypeOK, CoreInv, NEW t \in Tasks, Running(t), Published(t),
         NEW d \in Refs
  PROVE  /\ indegrees'[At(d)] = Cardinality(PendingIn(edges', d))
         /\ At(d) \in Ready(t[1], {Root}) <=> ~Fed(d) /\ Fed(d)'
<1> DEFINE L == OutEdges(t[1]) \cap InEdges(d)
           P == PendingIn(edges, d)
           Q == PendingIn(edges', d)
<1>1. t[1] \in Refs /\ t = At(t[1]) /\ At(d) \in Tasks /\ At(d)[1] = d /\ At(d)[2] = Root
  BY PlainGraph
<1>2. \A e \in OutEdges(t[1]) : ~Marked(e)
  BY <1>1, ActiveFacts DEF CoreInv, Active
<1>3. L \subseteq P /\ Q = P \ L
  BY <1>2, PublishedMarks DEF PendingIn, Marked, InEdges
<1>4. /\ IsFiniteSet(P) /\ Cardinality(P) \in Nat /\ Cardinality(Q) \in Nat
      /\ Cardinality(P) = 0 <=> Fed(d)
      /\ Cardinality(Q) = 0 <=> Fed(d)'
  BY PendingFacts DEF Fed, Marked
<1>5. P \cap L = L
  BY <1>3
<1>6. Cardinality(Q) = Cardinality(P) - Cardinality(L)
  <2> HIDE DEF P, Q, L
  <2>1. Cardinality(P \ L) = Cardinality(P) - Cardinality(P \cap L)
    BY <1>4, FS_Difference
  <2> QED BY <1>3, <1>5, <2>1
<1>7. Links[<<t[1], d>>] = Cardinality(L) /\ Cardinality(L) \in Nat
  <2>1. IsFiniteSet(L)
    BY <1>3, <1>4, FS_Subset
  <2> QED BY <1>1, <2>1, FS_CardinalityType DEF Links
<1>8. indegrees[At(d)] = Cardinality(P)
  BY Accounting DEF CoreInv
<1> HIDE DEF L, P, Q
<1>9. At(d) \in Ready(t[1], {Root}) <=> Cardinality(P) \in 1..Cardinality(L)
  BY <1>1, <1>7, <1>8 DEF Ready
<1>10. indegrees'[At(d)] = Cardinality(Q)
  BY <1>6, <1>7, <1>8, PublishedMarks
<1> QED BY <1>4, <1>6, <1>7, <1>9, <1>10 DEF Q

\* What the completed task's children find: the fed ones stay fed, a new fed
\* one neither waits nor runs and is queued, the task itself is quiet.
LEMMA PublishedCore ==
  ASSUME Scatters = {}, TypeOK, CoreInv, NEW t \in Tasks, Running(t), Published(t)
  PROVE  /\ CoreInv'
         /\ \A r \in Refs : Fed(r) => Fed(r)'
         /\ \A r \in Refs : Active(At(r))'
              <=> (Active(At(r)) /\ r # t[1]) \/ (~Fed(r) /\ Fed(r)')
         /\ \A e \in Edges : Marked(e)' <=> Marked(e) \/ e.src = t[1]
<1>1. t[1] \in Refs /\ t = At(t[1]) /\ \A r \in Refs : At(r) = t <=> r = t[1]
  BY PlainGraph DEF At
<1>2. Active(t) /\ queued[t] = 0 /\ Fed(t[1])
  BY <1>1, ActiveFacts DEF CoreInv, Active
<1>3. \A e \in Edges : Marked(e)' <=> Marked(e) \/ e.src = t[1]
  BY PublishedMarks DEF OutEdges
<1>4. \A r \in Refs : Fed(r) => Fed(r)'
  BY <1>3 DEF Fed, InEdges
<1>5. \A r \in Refs : At(r) \in Ready(t[1], {Root}) <=> ~Fed(r) /\ Fed(r)'
  BY PublishedFeeds
<1>6. ASSUME NEW r \in Refs
      PROVE  /\ queued[At(r)] \in Nat
             /\ queued'[At(r)] = queued[At(r)] + (IF ~Fed(r) /\ Fed(r)' THEN 1 ELSE 0)
             /\ Running(At(r))' <=> Running(At(r)) /\ r # t[1]
  BY <1>1, <1>5, PlainGraph, PublishedMarks DEF TypeOK
<1>7. ASSUME NEW r \in Refs
      PROVE  Active(At(r)) =>
               /\ queued[At(r)] = (IF Running(At(r)) THEN 0 ELSE 1)
               /\ Fed(r) /\ \A e \in OutEdges(r) : ~Marked(e)
  BY ActiveFacts DEF CoreInv
<1>8. ASSUME NEW r \in Refs
      PROVE  Active(At(r))' <=> (Active(At(r)) /\ r # t[1]) \/ (~Fed(r) /\ Fed(r)')
  BY <1>1, <1>2, <1>6 DEF Active
<1>9. MarkedInOrder'
  <2> SUFFICES ASSUME NEW e \in Edges, Marked(e)' PROVE Fed(e.src)'
    BY DEF MarkedInOrder
  <2> QED BY <1>2, <1>3, <1>4, EdgeEnds DEF CoreInv, MarkedInOrder
<1>10. IndegreeAccounting'
  <2>1. \A r \in Refs : indegrees'[At(r)] = Cardinality(PendingIn(edges', r))
    BY PublishedFeeds
  <2> QED BY <2>1, AccountingNext
<1>11. ASSUME NEW r \in Refs, Active(At(r))'
       PROVE  /\ queued'[At(r)] = (IF Running(At(r))' THEN 0 ELSE 1)
              /\ Fed(r)' /\ \A e \in OutEdges(r) : ~Marked(e)'
  <2>1. CASE Active(At(r)) /\ r # t[1]
    BY <1>3, <1>4, <1>6, <1>7, <2>1 DEF OutEdges
  <2>2. CASE ~Fed(r) /\ Fed(r)'
    <3>1. r # t[1] /\ ~Active(At(r))
      BY <1>2, <1>7, <2>2
    <3>2. \A e \in OutEdges(r) : ~Marked(e)
      BY <2>2 DEF CoreInv, MarkedInOrder, OutEdges
    <3> QED BY <1>3, <1>6, <2>2, <3>1, <3>2 DEF OutEdges, Active
  <2> QED BY <1>8, <1>11, <2>1, <2>2
<1>12. SingleDispatch'
  <2> SUFFICES ASSUME NEW u \in Tasks, Active(u)'
               PROVE  /\ queued'[u] = (IF Running(u)' THEN 0 ELSE 1)
                      /\ \A e \in InEdges(u[1]) : edges'[<<e, u[2]>>] # "PENDING"
                      /\ \A e \in OutEdges(u[1]) : edges'[<<e, u[2]>>] = "PENDING"
    BY DEF SingleDispatch
  <2>1. u = At(u[1]) /\ u[1] \in Refs /\ u[2] = Root
    BY PlainGraph
  <2> QED BY <1>11, <2>1 DEF Fed, Marked
<1> QED BY <1>3, <1>4, <1>8, <1>9, <1>10, <1>12 DEF CoreInv

-----------------------------------------------------------------------------
(* A loop's end starts the next iteration.                                 *)

\* What _reset_loop_iteration_state does where there are no scatters.
LEMMA IteratedMarks ==
  ASSUME Scatters = {}, TypeOK, NEW t \in Tasks, Iterated(t)
  PROVE  /\ \A e \in Edges : edges'[<<e, Root>>]
              = IF LoopEdge(e, Region[t[1]]) THEN "PENDING" ELSE edges[<<e, Root>>]
         /\ \A r \in Refs : indegrees'[At(r)]
              = IF r \in Region[t[1]] THEN Cardinality(InternalDeps(r, Region[t[1]]))
                ELSE indegrees[At(r)]
         /\ \A r \in Refs : queued'[At(r)]
              = IF r = RegionStart[t[1]] THEN queued[At(r)] + 1 ELSE queued[At(r)]
         /\ \A r \in Refs : loopIndices'[At(r)] # 0
              => \/ r = RegionStart[t[1]]
                 \/ r \notin Region[t[1]] /\ loopIndices'[At(r)] = loopIndices[At(r)]
         /\ \A u \in Tasks : Running(u)' <=> Running(u) /\ u # t
         /\ \A u \in Tasks : taskStreams'[u] \in {0, taskStreams[u]}
         /\ completed' \subseteq completed \cup {t}
         /\ UNCHANGED <<main, taskExc>>
<1> DEFINE R == Region[t[1]]
           start == <<RegionStart[t[1]], t[2]>>
           Here(k) == k[2] \in LoopStreams(R, t[2]) \/ (k[2] = t[2] /\ k[1] \in R)
<1>1. PICK next \in Nat : NextIteration(t, R, next)
  BY DEF Iterated
<1>2. t[2] = Root /\ \A r \in Refs : At(r) \in Tasks /\ At(r)[1] = r /\ At(r)[2] = Root
  BY PlainGraph
<1>3. LoopStreams(R, t[2]) = {}
  <2>1. \A s \in Streams : 1..Len(s) = {}
    BY PlainGraph DEF Root
  <2> QED BY <2>1 DEF LoopStreams
<1>4. start = At(RegionStart[t[1]]) /\ RegionStart[t[1]] \in Refs
  BY <1>2, LoopScopes DEF At, Iterated
<1>5. \A r \in Refs : Here(At(r)) <=> r \in R
  BY <1>2, <1>3
<1>6. \A r \in Refs : At(r) = start <=> r = RegionStart[t[1]]
  BY <1>4 DEF At
<1>7. /\ edges' = [x \in Edges \X Streams |->
                     IF \/ x[2] \in LoopStreams(R, t[2])
                        \/ x[2] = t[2] /\ LoopEdge(x[1], R)
                       THEN "PENDING" ELSE edges[x]]
      /\ indegrees' = [k \in Tasks |->
                         IF k[2] \in LoopStreams(R, t[2]) THEN NDeps(k[1])
                         ELSE IF Here(k) THEN Cardinality(InternalDeps(k[1], R))
                         ELSE indegrees[k]]
      /\ loopIndices' = [k \in Tasks |->
                           IF k = start THEN next
                           ELSE IF k[1] \in R /\ IsPrefix(t[2], k[2]) THEN 0
                           ELSE loopIndices[k]]
      /\ queued' = [queued EXCEPT ![start] = @ + 1]
      /\ pc' = [pc EXCEPT ![t] = "done"]
      /\ taskStreams' = [k \in Tasks |-> IF Here(k) THEN 0 ELSE taskStreams[k]]
      /\ completed' = {k \in completed : ~Here(k)} \cup {t}
      /\ UNCHANGED <<main, taskExc>>
  BY <1>1 DEF NextIteration
<1> HIDE DEF R, start, Here
<1>8. \A e \in Edges : edges'[<<e, Root>>]
        = IF LoopEdge(e, R) THEN "PENDING" ELSE edges[<<e, Root>>]
  BY <1>2, <1>3, <1>7, SchedulerAssumption
<1>9. \A r \in Refs : indegrees'[At(r)]
        = IF r \in R THEN Cardinality(InternalDeps(r, R)) ELSE indegrees[At(r)]
  BY <1>2, <1>3, <1>5, <1>7
<1>10. \A r \in Refs : queued'[At(r)]
        = IF r = RegionStart[t[1]] THEN queued[At(r)] + 1 ELSE queued[At(r)]
  BY <1>2, <1>6, <1>7 DEF TypeOK
<1>11. IsPrefix(Root, Root)
  BY DEF IsPrefix, Root
<1>12. \A r \in Refs : loopIndices'[At(r)] # 0
         => \/ r = RegionStart[t[1]]
            \/ r \notin R /\ loopIndices'[At(r)] = loopIndices[At(r)]
  BY <1>2, <1>6, <1>7, <1>11
<1>13. \A u \in Tasks : Running(u)' <=> Running(u) /\ u # t
  BY <1>7 DEF Running, TypeOK
<1>14. /\ \A u \in Tasks : taskStreams'[u] \in {0, taskStreams[u]}
       /\ completed' \subseteq completed \cup {t}
       /\ UNCHANGED <<main, taskExc>>
  BY <1>7
<1> QED BY <1>8, <1>9, <1>10, <1>12, <1>13, <1>14 DEF R

\* Everything in the loop has run and is quiet; afterwards its start waits, all
\* else in it has edges to wait for, and nothing outside of it has changed.
LEMMA IteratedCore ==
  ASSUME Scatters = {}, TypeOK, CoreInv, NEW t \in Tasks, Running(t), Iterated(t)
  PROVE  /\ CoreInv'
         /\ \A r \in Refs \ Region[t[1]] : /\ Fed(r)' <=> Fed(r)
                                           /\ Active(At(r))' <=> Active(At(r))
                                           /\ \A e \in OutEdges(r) : Marked(e)' <=> Marked(e)
         /\ \A r \in Region[t[1]] : /\ Fed(r)' <=> r = RegionStart[t[1]]
                                    /\ Active(At(r))' <=> r = RegionStart[t[1]]
         /\ \A u \in Tasks : u # t => pc'[u] = pc[u]
<1> DEFINE x == t[1]
           R == Region[x]
           s == RegionStart[x]
<1>1. x \in Refs /\ x \in LoopEnds /\ t = At(x) /\ Gathers = {} /\ ScopesChecked
  BY PlainGraph, PlainLoops DEF Iterated
<1>2. s \in Refs /\ s \in R /\ x \in R /\ R \subseteq Refs /\ s # x
  BY <1>1, RegionMembers
<1>3. Active(t) /\ Fed(x) /\ queued[t] = 0 /\ \A e \in OutEdges(x) : ~Marked(e)
  BY <1>1, ActiveFacts DEF CoreInv, Active
<1>4. \A r \in R : Fed(r) /\ (r # x => ~Active(At(r)))
  BY <1>1, <1>3, RegionUpstream, UpstreamQuiet DEF CoreInv
<1>5. \A e \in Edges : e.dst \in R => (e.dst = s <=> e.src \notin R)
  BY <1>1, RegionEntered
<1>6. \A e \in Edges : e.src \in R /\ e.src # x => e.dst \in R
  BY <1>1, RegionLeft
<1>7. \A r \in R : r # s => InEdges(r) # {}
  BY <1>1, <1>2, RegionUpstream, UpstreamLastEdge
<1> HIDE DEF x, R, s
<1>8. /\ \A e \in Edges : edges'[<<e, Root>>]
              = IF LoopEdge(e, R) THEN "PENDING" ELSE edges[<<e, Root>>]
      /\ \A r \in Refs : indegrees'[At(r)]
              = IF r \in R THEN Cardinality(InternalDeps(r, R)) ELSE indegrees[At(r)]
      /\ \A r \in Refs : queued'[At(r)]
              = IF r = s THEN queued[At(r)] + 1 ELSE queued[At(r)]
      /\ \A u \in Tasks : Running(u)' <=> Running(u) /\ u # t
  BY IteratedMarks DEF x, R, s
<1>9. \A r \in Refs : /\ At(r) \in Tasks /\ queued[At(r)] \in Nat
                      /\ At(r) = t <=> r = x
  BY <1>1, PlainGraph DEF At, TypeOK
<1>10. \A e \in Edges : Marked(e)' <=> Marked(e) /\ ~(e.src \in R /\ e.dst \in R)
  BY <1>8 DEF Marked, LoopEdge
<1>11. ASSUME NEW r \in Refs \ R
       PROVE  /\ Fed(r)' <=> Fed(r)
              /\ Active(At(r))' <=> Active(At(r))
              /\ \A e \in OutEdges(r) : Marked(e)' <=> Marked(e)
  BY <1>2, <1>8, <1>9, <1>10 DEF Fed, InEdges, OutEdges, Active
<1>12. ASSUME NEW r \in R
       PROVE  /\ Fed(r)' <=> r = s
              /\ Active(At(r))' <=> r = s
              /\ \A e \in OutEdges(r) : ~Marked(e)'
  <2>1. Fed(r)' <=> r = s
    BY <1>4, <1>5, <1>7, <1>10 DEF Fed, InEdges
  <2>2. Active(At(r))' <=> r = s
    BY <1>1, <1>2, <1>3, <1>4, <1>8, <1>9 DEF Active
  <2>3. \A e \in OutEdges(r) : ~Marked(e)'
    BY <1>3, <1>6, <1>10 DEF OutEdges
  <2> QED BY <2>1, <2>2, <2>3
<1>13. IndegreeAccounting'
  <2>1. ASSUME NEW r \in Refs
        PROVE  indegrees'[At(r)] = Cardinality(PendingIn(edges', r))
    <3>1. CASE r \in R
      <4>1. PendingIn(edges', r) = InternalDeps(r, R)
        BY <1>4, <1>8, <3>1 DEF PendingIn, InternalDeps, LoopEdge, Fed, Marked, InEdges
      <4> QED BY <1>8, <3>1, <4>1
    <3>2. CASE r \notin R
      <4>1. PendingIn(edges', r) = PendingIn(edges, r)
        BY <1>8, <3>2 DEF PendingIn, LoopEdge, InEdges
      <4> QED BY <1>8, <3>2, <4>1, Accounting DEF CoreInv
    <3> QED BY <3>1, <3>2
  <2> QED BY <2>1, AccountingNext
<1>14. MarkedInOrder'
  <2> SUFFICES ASSUME NEW e \in Edges, Marked(e)' PROVE Fed(e.src)'
    BY DEF MarkedInOrder
  <2>1. Marked(e) /\ e.src \in Refs /\ Fed(e.src)
    BY <1>10, EdgeEnds DEF CoreInv, MarkedInOrder
  <2>2. e.src \notin R
    BY <1>12 DEF OutEdges
  <2> QED BY <1>11, <2>1, <2>2
<1>15. SingleDispatch'
  <2> SUFFICES ASSUME NEW u \in Tasks, Active(u)'
               PROVE  /\ queued'[u] = (IF Running(u)' THEN 0 ELSE 1)
                      /\ \A e \in InEdges(u[1]) : edges'[<<e, u[2]>>] # "PENDING"
                      /\ \A e \in OutEdges(u[1]) : edges'[<<e, u[2]>>] = "PENDING"
    BY DEF SingleDispatch
  <2> DEFINE r == u[1]
  <2>1. u = At(r) /\ r \in Refs /\ u[2] = Root
    BY PlainGraph
  <2> HIDE DEF r
  <2>2. queued'[At(r)] = (IF Running(At(r))' THEN 0 ELSE 1) /\ Fed(r)'
        /\ \A e \in OutEdges(r) : ~Marked(e)'
    <3>1. CASE r \in R
      <4>1. r = s
        BY <1>12, <2>1, <3>1
      <4>2. ~Active(At(s)) /\ queued[At(s)] \in Nat
        BY <1>2, <1>4, <1>9
      <4>3. queued'[At(s)] = 1 /\ ~Running(At(s))'
        BY <1>2, <1>8, <1>9, <4>2 DEF Active
      <4> QED BY <1>12, <3>1, <4>1, <4>3
    <3>2. CASE r \notin R
      <4>1. Active(At(r))
        BY <1>11, <2>1, <3>2
      <4>2. queued[At(r)] = (IF Running(At(r)) THEN 0 ELSE 1)
            /\ Fed(r) /\ \A e \in OutEdges(r) : ~Marked(e)
        BY <2>1, <4>1, ActiveFacts DEF CoreInv
      <4>3. r # s /\ r # x
        BY <1>2, <3>2
      <4> QED BY <1>8, <1>9, <1>11, <2>1, <3>2, <4>2, <4>3
    <3> QED BY <3>1, <3>2
  <2> QED BY <2>1, <2>2 DEF Fed, Marked, r
<1>16. \A u \in Tasks : u # t => pc'[u] = pc[u]
  BY DEF Iterated, NextIteration, TypeOK
<1> QED BY <1>11, <1>12, <1>13, <1>14, <1>15, <1>16 DEF CoreInv, R, s, x

-----------------------------------------------------------------------------
(* The inductive invariant.                                                *)

\* The parts that the properties need besides CoreInv: no scatter has streams;
\* only a fed loop start has an index; a completed task outside of every loop
\* is fed and quiet; a fed task whose edges are not marked waits or runs, unless
\* the workflow is failing; when the scheduler is done nothing waits or runs.
Outside(r) == \A x \in LoopEnds : r \notin Region[x]
NoStreamsOpen == \A u \in Tasks : taskStreams[u] = 0
IndexFed == \A r \in Refs : loopIndices[At(r)] # 0 => Fed(r)
CompletedQuiet ==
  \A r \in Refs : At(r) \in completed /\ Outside(r) => Fed(r) /\ ~Active(At(r))
Failing == taskExc # {} \/ main \in {"cancel", "failed"}
FedActs == \A r \in Refs : /\ Fed(r)
                           /\ \E e \in OutEdges(r) : ~Marked(e)
                           => Active(At(r)) \/ Failing
DoneQuiet == main = "done" => taskExc = {} /\ \A r \in Refs : ~Active(At(r))

DispatchInv == /\ CoreInv /\ StaysReachable /\ NoStreamsOpen /\ IndexFed
               /\ CompletedQuiet /\ FedActs /\ DoneQuiet

\* A task's reachability depends on the edges into it only.
LEMMA ReachableKept ==
  ASSUME NEW u \in Tasks, IsReachable(u),
         \A e \in InEdges(u[1]) : edges'[<<e, u[2]>>] = edges[<<e, u[2]>>]
  PROVE  IsReachable(u)'
<1>1. NVisited(u)' = NVisited(u)
  BY DEF NVisited
<1> QED BY <1>1 DEF IsReachable

\* A step that moves no marker keeps the core invariant if it starts only tasks
\* that wait.
LEMMA MarkersKept ==
  ASSUME Scatters = {}, CoreInv, UNCHANGED <<edges, indegrees>>,
         \A u \in Tasks : Active(u)' => /\ Active(u)
                                        /\ queued'[u] = (IF Running(u)' THEN 0 ELSE 1)
  PROVE  /\ CoreInv'
         /\ \A r \in Refs : Fed(r)' <=> Fed(r)
         /\ \A e \in Edges : Marked(e)' <=> Marked(e)
<1>1. IndegreeAccounting'
  BY DEF CoreInv, IndegreeAccounting
<1>2. /\ \A e \in Edges : Marked(e)' <=> Marked(e)
      /\ \A r \in Refs : Fed(r)' <=> Fed(r)
  BY DEF Marked, Fed, InEdges
<1>3. MarkedInOrder'
  BY <1>2, EdgeEnds DEF CoreInv, MarkedInOrder
<1>4. SingleDispatch'
  BY DEF CoreInv, SingleDispatch
<1> QED BY <1>1, <1>2, <1>3, <1>4 DEF CoreInv

\* A task's coroutine that moves or ends without publishing.
LEMMA QuietStep ==
  ASSUME Scatters = {}, TypeOK, CoreInv, NEW t \in Tasks, Running(t),
         UNCHANGED graphVars, NEW label \in Awaits \cup {"done"},
         pc' = [pc EXCEPT ![t] = label]
  PROVE  /\ CoreInv'
         /\ \A r \in Refs : Fed(r)' <=> Fed(r)
         /\ \A e \in Edges : Marked(e)' <=> Marked(e)
         /\ \A u \in Tasks : Active(u)' <=> Active(u) /\ (u = t => label # "done")
<1>1. t[1] \in Refs /\ t = At(t[1]) /\ queued[t] = 0
  BY PlainGraph, ActiveFacts DEF CoreInv, Active
<1>2. UNCHANGED <<queued, edges, indegrees>>
  BY DEF graphVars
<1>3. \A u \in Tasks : Running(u)' <=> Running(u) /\ (u = t => label # "done")
  BY DEF Running, Awaits, TypeOK
<1>4. \A u \in Tasks : Active(u)' <=> Active(u) /\ (u = t => label # "done")
  BY <1>1, <1>2, <1>3 DEF Active
<1>5. \A u \in Tasks : Active(u)' => /\ Active(u)
                                     /\ queued'[u] = (IF Running(u)' THEN 0 ELSE 1)
  BY <1>1, <1>2, <1>3, <1>4 DEF CoreInv, SingleDispatch, Active
<1> QED BY <1>2, <1>4, <1>5, MarkersKept

\* A coroutine's step keeps the invariant: it publishes, ...
LEMMA PublishedInv ==
  ASSUME Scatters = {}, TypeOK, DispatchInv, NEW t \in Tasks, Running(t), Published(t)
  PROVE  DispatchInv'
<1>1. /\ CoreInv'
      /\ \A r \in Refs : Fed(r) => Fed(r)'
      /\ \A r \in Refs : Active(At(r))'
           <=> (Active(At(r)) /\ r # t[1]) \/ (~Fed(r) /\ Fed(r)')
      /\ \A e \in Edges : Marked(e)' <=> Marked(e) \/ e.src = t[1]
  BY PublishedCore DEF DispatchInv
<1>2. t[1] \in Refs /\ t = At(t[1]) /\ Active(t) /\ Fed(t[1])
      /\ \A e \in OutEdges(t[1]) : ~Marked(e)
  BY PlainGraph, ActiveFacts DEF DispatchInv, CoreInv, Active
<1>3. pc' = [pc EXCEPT ![t] = "done"] /\ completed' = completed \cup {t} /\ Steady
  BY DEF Published, Finish
<1>4. StaysReachable'
  <2> SUFFICES ASSUME NEW u \in Tasks, pc'[u] \in PastCheck PROVE IsReachable(u)'
    BY DEF StaysReachable, PastCheck
  <2>1. u # t /\ pc[u] \in PastCheck
    BY <1>3 DEF PastCheck, TypeOK
  <2>2. IsReachable(u)
    BY <2>1 DEF DispatchInv, StaysReachable, PastCheck
  <2>3. u[1] \in Refs /\ u[2] = Root /\ u = At(u[1]) /\ Active(u)
    BY <2>1, PlainGraph DEF PastCheck, Active, Running
  <2>4. Fed(u[1])
    BY <2>3, ActiveFacts DEF DispatchInv, CoreInv
  <2>5. \A e \in InEdges(u[1]) : edges'[<<e, Root>>] = edges[<<e, Root>>]
    BY <1>2, <2>4, PublishedMarks DEF Fed, InEdges
  <2> QED BY <2>2, <2>3, <2>5, ReachableKept
<1>5. NoStreamsOpen'
  BY <1>3 DEF Steady, DispatchInv, NoStreamsOpen
<1>6. IndexFed'
  BY <1>1, <1>3, PlainGraph DEF Steady, DispatchInv, IndexFed
<1>7. CompletedQuiet'
  <2> SUFFICES ASSUME NEW r \in Refs, At(r) \in completed', Outside(r)
               PROVE  Fed(r)' /\ ~Active(At(r))'
    BY DEF CompletedQuiet, Outside
  <2>1. r = t[1] \/ At(r) \in completed
    BY <1>2, <1>3, PlainGraph
  <2>2. Fed(r) /\ (Active(At(r)) => r = t[1])
    BY <1>2, <2>1 DEF DispatchInv, CompletedQuiet
  <2> QED BY <1>1, <2>2
<1>8. FedActs'
  BY <1>1, <1>2, <1>3 DEF DispatchInv, FedActs, Failing, Steady, OutEdges
<1>9. DoneQuiet'
  BY <1>2, <1>3 DEF DispatchInv, DoneQuiet, Steady
<1> QED BY <1>1, <1>4, <1>5, <1>6, <1>7, <1>8, <1>9 DEF DispatchInv

\* ... or moves on or ends without publishing, ...
LEMMA QuietInv ==
  ASSUME Scatters = {}, TypeOK, DispatchInv, NEW t \in Tasks, Running(t),
         Moved(t) \/ Ended(t)
  PROVE  DispatchInv'
<1>1. PICK label \in Awaits \cup {"done"} :
        /\ pc' = [pc EXCEPT ![t] = label]
        /\ label \in PastCheck => IsReachable(t) \/ pc[t] \in PastCheck
        /\ label = "done" => taskExc' # {} \/ main = "cancel"
        /\ label # "done" => UNCHANGED completed
  BY DEF Moved, Ended, Await, PastCheck, Awaits
<1>2. Steady /\ UNCHANGED graphVars /\ UNCHANGED <<main, edges>>
      /\ completed' \in {completed, completed \cup {t}}
  BY DEF Moved, Ended, Await, Steady, graphVars
<1>3. /\ CoreInv'
      /\ \A r \in Refs : Fed(r)' <=> Fed(r)
      /\ \A e \in Edges : Marked(e)' <=> Marked(e)
      /\ \A u \in Tasks : Active(u)' <=> Active(u) /\ (u = t => label # "done")
  BY <1>1, <1>2, QuietStep DEF DispatchInv
<1>4. t[1] \in Refs /\ t = At(t[1]) /\ Active(t) /\ Fed(t[1])
  BY PlainGraph, ActiveFacts DEF DispatchInv, CoreInv, Active
<1>5. StaysReachable'
  <2> SUFFICES ASSUME NEW u \in Tasks, pc'[u] \in PastCheck PROVE IsReachable(u)'
    BY DEF StaysReachable, PastCheck
  <2>1. IsReachable(u)
    <3>1. CASE u = t
      BY <1>1, <3>1 DEF DispatchInv, StaysReachable, PastCheck, TypeOK
    <3>2. CASE u # t
      BY <1>1, <3>2 DEF DispatchInv, StaysReachable, PastCheck, TypeOK
    <3> QED BY <3>1, <3>2
  <2> QED BY <1>2, <2>1, ReachableKept
<1>6. NoStreamsOpen'
  BY <1>2 DEF Steady, DispatchInv, NoStreamsOpen
<1>7. IndexFed'
  BY <1>2, <1>3, PlainGraph DEF Steady, DispatchInv, IndexFed
<1>8. CompletedQuiet'
  <2> SUFFICES ASSUME NEW r \in Refs, At(r) \in completed', Outside(r)
               PROVE  Fed(r)' /\ ~Active(At(r))'
    BY DEF CompletedQuiet, Outside
  <2>1. At(r) \in Tasks
    BY PlainGraph
  <2>2. CASE At(r) \in completed
    BY <1>3, <2>1, <2>2 DEF DispatchInv, CompletedQuiet
  <2>3. CASE At(r) \notin completed
    <3>1. label = "done" /\ At(r) = t /\ r = t[1]
      BY <1>1, <1>2, <1>4, <2>3, PlainGraph
    <3> QED BY <1>3, <1>4, <2>1, <3>1
  <2> QED BY <2>2, <2>3
<1>9. FedActs'
  <2>1. CASE label = "done"
    BY <1>1, <1>2, <2>1 DEF FedActs, Failing
  <2>2. CASE label # "done"
    BY <1>2, <1>3, <2>2, PlainGraph DEF DispatchInv, FedActs, Failing, Steady, OutEdges
  <2> QED BY <2>1, <2>2
<1>10. DoneQuiet'
  BY <1>2, <1>4 DEF DispatchInv, DoneQuiet
<1> QED BY <1>3, <1>5, <1>6, <1>7, <1>8, <1>9, <1>10 DEF DispatchInv

\* ... or starts a loop's next iteration.
LEMMA IteratedInv ==
  ASSUME Scatters = {}, TypeOK, DispatchInv, NEW t \in Tasks, Running(t), Iterated(t)
  PROVE  DispatchInv'
<1> DEFINE R == Region[t[1]]
           s == RegionStart[t[1]]
<1>1. /\ CoreInv'
      /\ \A r \in Refs \ R : /\ Fed(r)' <=> Fed(r)
                             /\ Active(At(r))' <=> Active(At(r))
                             /\ \A e \in OutEdges(r) : Marked(e)' <=> Marked(e)
      /\ \A r \in R : /\ Fed(r)' <=> r = s
                      /\ Active(At(r))' <=> r = s
      /\ \A u \in Tasks : u # t => pc'[u] = pc[u]
  BY IteratedCore DEF DispatchInv
<1>2. /\ \A e \in Edges : edges'[<<e, Root>>]
              = IF LoopEdge(e, R) THEN "PENDING" ELSE edges[<<e, Root>>]
      /\ \A r \in Refs : loopIndices'[At(r)] # 0
              => r = s \/ (r \notin R /\ loopIndices'[At(r)] = loopIndices[At(r)])
      /\ \A u \in Tasks : taskStreams'[u] \in {0, taskStreams[u]}
      /\ completed' \subseteq completed \cup {t}
      /\ UNCHANGED <<main, taskExc>>
  BY IteratedMarks
<1>3. t[1] \in Refs /\ t[1] \in LoopEnds /\ t = At(t[1]) /\ Active(t) /\ Fed(t[1])
  BY PlainGraph, ActiveFacts DEF DispatchInv, CoreInv, Active, Iterated
<1>4. s \in R /\ t[1] \in R
  BY <1>3, PlainLoops, RegionMembers
<1>5. ASSUME NEW u \in Tasks, u # t, Active(u) PROVE u[1] \notin R
  <2>1. u = At(u[1]) /\ u[1] \in Refs /\ u[1] # t[1]
    BY <1>3, <1>5, PlainGraph
  <2> QED BY <1>3, <1>5, <2>1, PlainLoops, RegionUpstream, UpstreamQuiet
          DEF DispatchInv, CoreInv
<1> HIDE DEF R, s
<1>6. StaysReachable'
  <2> SUFFICES ASSUME NEW u \in Tasks, pc'[u] \in PastCheck PROVE IsReachable(u)'
    BY DEF StaysReachable, PastCheck
  <2>1. u # t
    BY DEF Iterated, NextIteration, PastCheck, TypeOK
  <2>2. pc[u] \in PastCheck /\ IsReachable(u)
    BY <1>1, <2>1 DEF DispatchInv, StaysReachable, PastCheck
  <2>3. u[1] \notin R /\ u[2] = Root
    BY <1>5, <2>1, <2>2, PlainGraph DEF PastCheck, Active, Running
  <2>4. \A e \in InEdges(u[1]) : edges'[<<e, Root>>] = edges[<<e, Root>>]
    BY <1>2, <2>3 DEF LoopEdge, InEdges
  <2> QED BY <2>2, <2>3, <2>4, ReachableKept
<1>7. NoStreamsOpen'
  BY <1>2 DEF DispatchInv, NoStreamsOpen
<1>8. IndexFed'
  BY <1>1, <1>2, <1>4 DEF DispatchInv, IndexFed
<1>9. CompletedQuiet'
  <2> SUFFICES ASSUME NEW r \in Refs, At(r) \in completed', Outside(r)
               PROVE  Fed(r)' /\ ~Active(At(r))'
    BY DEF CompletedQuiet, Outside
  <2>1. r \notin R
    BY <1>3 DEF Outside, R
  <2>2. At(r) \in completed
    BY <1>2, <1>3, <1>4, <2>1, PlainGraph
  <2> QED BY <1>1, <2>1, <2>2 DEF DispatchInv, CompletedQuiet
<1>10. FedActs'
  BY <1>1, <1>2 DEF DispatchInv, FedActs, Failing
<1>11. DoneQuiet'
  BY <1>2, <1>3 DEF DispatchInv, DoneQuiet
<1> QED BY <1>1, <1>6, <1>7, <1>8, <1>9, <1>10, <1>11 DEF DispatchInv

\* A step of a coroutine keeps the invariant.
LEMMA CoroutineInv ==
  ASSUME Scatters = {}, TypeOK, PcFits, DispatchInv, NEW t \in Tasks, Step(t)
  PROVE  DispatchInv'
<1>1. Running(t) /\ Shape(t)
  BY StepMovesOne, StepShape
<1> QED BY <1>1, PublishedInv, QuietInv, IteratedInv DEF Shape

\* The main coroutine moves no marker: what it does to the rest.
LEMMA MainMarkers ==
  ASSUME Scatters = {}, TypeOK, DispatchInv, Main,
         \A u \in Tasks : Active(u)' => /\ Active(u)
                                        /\ queued'[u] = (IF Running(u)' THEN 0 ELSE 1),
         \A u \in Tasks : pc'[u] \in {pc[u], "start", "idle"}
  PROVE  /\ CoreInv' /\ StaysReachable' /\ NoStreamsOpen' /\ IndexFed' /\ CompletedQuiet'
         /\ \A r \in Refs : Fed(r)' <=> Fed(r)
         /\ \A e \in Edges : Marked(e)' <=> Marked(e)
         /\ UNCHANGED taskExc
<1>1. UNCHANGED <<edges, indegrees, taskExc, taskStreams, loopIndices, completed>>
  BY DEF Main, Spawn, ReturnNone, CancelPending, ReturnExceptions, graphVars, excVars,
         streamVars, loopVars
<1>2. /\ CoreInv'
      /\ \A r \in Refs : Fed(r)' <=> Fed(r)
      /\ \A e \in Edges : Marked(e)' <=> Marked(e)
  BY <1>1, MarkersKept DEF DispatchInv
<1>3. StaysReachable'
  <2> SUFFICES ASSUME NEW u \in Tasks, pc'[u] \in PastCheck PROVE IsReachable(u)'
    BY DEF StaysReachable, PastCheck
  <2>1. pc[u] \in PastCheck
    BY DEF PastCheck
  <2> QED BY <1>1, <2>1, ReachableKept DEF DispatchInv, StaysReachable, PastCheck
<1>4. NoStreamsOpen' /\ IndexFed'
  BY <1>1, <1>2 DEF DispatchInv, NoStreamsOpen, IndexFed
<1>5. CompletedQuiet'
  <2> SUFFICES ASSUME NEW r \in Refs, At(r) \in completed', Outside(r)
               PROVE  Fed(r)' /\ ~Active(At(r))'
    BY DEF CompletedQuiet, Outside
  <2> QED BY <1>1, <1>2, PlainGraph DEF DispatchInv, CompletedQuiet
<1> QED BY <1>1, <1>2, <1>3, <1>4, <1>5

\* A step of the main coroutine keeps the invariant.
LEMMA MainInv ==
  ASSUME Scatters = {}, TypeOK, DispatchInv, Main
  PROVE  DispatchInv'
<1>1. \A u \in Tasks : /\ queued[u] \in Nat
                       /\ Active(u) => queued[u] = (IF Running(u) THEN 0 ELSE 1)
  BY DEF TypeOK, DispatchInv, CoreInv, SingleDispatch
<1>2. CASE Spawn
  <2>1. PICK S \in SUBSET Queued :
          /\ queued' = [t \in Tasks |-> IF t \in S THEN queued[t] - 1 ELSE queued[t]]
          /\ pc' = [t \in Tasks |-> IF t \in S THEN "start"
                                    ELSE IF pc[t] = "done" THEN "idle" ELSE pc[t]]
    BY <1>2 DEF Spawn
  <2>2. \A u \in S : u \in Tasks /\ queued[u] > 0
    BY DEF Queued
  <2>3. \A u \in Tasks : /\ Running(u)' <=> Running(u) \/ u \in S
                         /\ pc'[u] \in {pc[u], "start", "idle"}
    BY <2>1 DEF Running
  <2>4. \A u \in Tasks : /\ Active(u)' <=> Active(u)
                         /\ Active(u)' => queued'[u] = (IF Running(u)' THEN 0 ELSE 1)
    BY <1>1, <2>1, <2>2, <2>3 DEF Active
  <2>5. /\ CoreInv' /\ StaysReachable' /\ NoStreamsOpen' /\ IndexFed' /\ CompletedQuiet'
        /\ \A r \in Refs : Fed(r)' <=> Fed(r)
        /\ \A e \in Edges : Marked(e)' <=> Marked(e)
        /\ UNCHANGED taskExc
    BY <2>3, <2>4, MainMarkers, <1>2 DEF Main
  <2>6. main \in {"spawn", "wait"} /\ main' \in {"spawn", "wait"} /\ taskExc = {}
    BY <1>2 DEF Spawn, Awake
  <2>7. FedActs'
    BY <2>4, <2>5, <2>6, PlainGraph DEF DispatchInv, FedActs, Failing, OutEdges
  <2>8. DoneQuiet'
    BY <2>6 DEF DoneQuiet
  <2> QED BY <2>5, <2>7, <2>8 DEF DispatchInv
<1>3. CASE ReturnNone \/ ReturnExceptions
  <2>1. /\ pc' = [t \in Tasks |-> "idle"] /\ UNCHANGED queued
        /\ \A u \in Tasks : ~Running(u)
    BY <1>3 DEF ReturnNone, ReturnExceptions, graphVars, RunningTasks
  <2>2. \A u \in Tasks : /\ ~Running(u)' /\ pc'[u] \in {pc[u], "start", "idle"}
                         /\ Active(u)' <=> Active(u)
    BY <2>1 DEF Running, Active
  <2>3. \A u \in Tasks : Active(u)' => queued'[u] = (IF Running(u)' THEN 0 ELSE 1)
    BY <1>1, <2>1, <2>2
  <2>4. /\ CoreInv' /\ StaysReachable' /\ NoStreamsOpen' /\ IndexFed' /\ CompletedQuiet'
        /\ \A r \in Refs : Fed(r)' <=> Fed(r)
        /\ \A e \in Edges : Marked(e)' <=> Marked(e)
        /\ UNCHANGED taskExc
    BY <2>2, <2>3, MainMarkers, <1>3 DEF Main
  <2>5. CASE ReturnNone
    <3>1. main \in {"spawn", "wait"} /\ taskExc = {} /\ Queued = {}
      BY <2>5 DEF ReturnNone, Awake
    <3>2. \A u \in Tasks : ~Active(u)
      BY <1>1, <2>1, <3>1 DEF Active, Queued
    <3>3. FedActs'
      BY <2>4, <3>1, <3>2, PlainGraph DEF DispatchInv, FedActs, Failing, OutEdges
    <3>4. DoneQuiet'
      BY <2>2, <2>4, <3>1, <3>2, PlainGraph DEF DoneQuiet
    <3> QED BY <2>4, <3>3, <3>4 DEF DispatchInv
  <2>6. CASE ReturnExceptions
    BY <2>4, <2>6 DEF ReturnExceptions, DispatchInv, FedActs, Failing, DoneQuiet
  <2> QED BY <1>3, <2>5, <2>6
<1>4. CASE CancelPending
  <2>1. UNCHANGED <<pc, queued>> /\ main' = "cancel"
    BY <1>4 DEF CancelPending, graphVars
  <2>2. \A u \in Tasks : /\ Running(u)' <=> Running(u)
                         /\ Active(u)' <=> Active(u)
                         /\ pc'[u] \in {pc[u], "start", "idle"}
    BY <2>1 DEF Running, Active
  <2>3. \A u \in Tasks : Active(u)' => queued'[u] = (IF Running(u)' THEN 0 ELSE 1)
    BY <1>1, <2>1, <2>2
  <2>4. CoreInv' /\ StaysReachable' /\ NoStreamsOpen' /\ IndexFed' /\ CompletedQuiet'
    BY <2>2, <2>3, MainMarkers, <1>4 DEF Main
  <2> QED BY <2>1, <2>4 DEF DispatchInv, FedActs, Failing, DoneQuiet
<1> QED BY <1>2, <1>3, <1>4 DEF Main

\* At first only the tasks without dependencies are fed, and they are queued.
LEMMA InitInv ==
  ASSUME Scatters = {}, Init
  PROVE  DispatchInv
<1>1. \A e \in Edges : ~Marked(e)
  BY SchedulerAssumption DEF Init, Marked
<1>2. ASSUME NEW r \in Refs
      PROVE  /\ NDeps(r) = Cardinality(PendingIn(edges, r))
             /\ NDeps(r) \in Nat
             /\ Fed(r) <=> NDeps(r) = 0
  <2>1. PendingIn(edges, r) = InEdges(r)
    BY <1>1 DEF PendingIn, Marked, InEdges
  <2> QED BY <2>1, PendingFacts DEF NDeps, Fed, Marked
<1>3. ASSUME NEW r \in Refs
      PROVE  /\ indegrees[At(r)] = NDeps(r)
             /\ queued[At(r)] = (IF NDeps(r) = 0 THEN 1 ELSE 0)
             /\ ~Running(At(r)) /\ loopIndices[At(r)] = 0
             /\ Active(At(r)) <=> Fed(r)
  BY <1>2, PlainGraph DEF Init, Running, Active
<1>4. IndegreeAccounting
  BY <1>2, <1>3, Accounting
<1>5. SingleDispatch
  <2> SUFFICES ASSUME NEW u \in Tasks, Active(u)
               PROVE  /\ queued[u] = (IF Running(u) THEN 0 ELSE 1)
                      /\ \A e \in InEdges(u[1]) : edges[<<e, u[2]>>] # "PENDING"
                      /\ \A e \in OutEdges(u[1]) : edges[<<e, u[2]>>] = "PENDING"
    BY DEF SingleDispatch
  <2>1. u = At(u[1]) /\ u[1] \in Refs /\ u[2] = Root
    BY PlainGraph
  <2> QED BY <1>1, <1>2, <1>3, <2>1 DEF Fed, Marked, OutEdges
<1>6. MarkedInOrder
  BY <1>1 DEF MarkedInOrder
<1>7. StaysReachable /\ NoStreamsOpen
  BY DEF Init, StaysReachable, NoStreamsOpen
<1>8. IndexFed /\ FedActs
  BY <1>3 DEF IndexFed, FedActs
<1>9. CompletedQuiet /\ DoneQuiet
  BY DEF Init, CompletedQuiet, DoneQuiet
<1> QED BY <1>4, <1>5, <1>6, <1>7, <1>8, <1>9 DEF DispatchInv, CoreInv

\* Stuttering.
LEMMA StutterInv ==
  ASSUME DispatchInv, UNCHANGED vars
  PROVE  DispatchInv'
<1>1. UNCHANGED <<main, pc, completed, queued, indegrees, edges, taskExc, taskStreams,
                  loopIndices>>
  BY DEF vars, graphVars, excVars, streamVars, loopVars
<1>2. CoreInv'
  BY <1>1 DEF DispatchInv, CoreInv, IndegreeAccounting, SingleDispatch, MarkedInOrder,
              Marked, Fed, Active, Running
<1>3. StaysReachable'
  BY <1>1 DEF DispatchInv, StaysReachable, IsReachable, NVisited
<1> QED BY <1>1, <1>2, <1>3
        DEF DispatchInv, NoStreamsOpen, IndexFed, CompletedQuiet, FedActs, DoneQuiet,
            Failing, Fed, Marked, Active, Running

\* The inductive invariant of the scheduler on such a graph.
LEMMA NextInv ==
  ASSUME Scatters = {}, TypeOK, PcFits, DispatchInv, [Next]_vars
  PROVE  DispatchInv'
  BY CoroutineInv, MainInv, StutterInv DEF Next, Terminated

\* The invariant holds throughout.
LEMMA Invariant ==
  ASSUME Scatters = {}
  PROVE  Spec => [](TypeOK /\ PcFits /\ DispatchInv)
<1>1. Init => TypeOK /\ PcFits /\ DispatchInv
  BY InitType, InitInv
<1>2. TypeOK /\ PcFits /\ DispatchInv /\ [Next]_vars => (TypeOK /\ PcFits /\ DispatchInv)'
  BY NextType, NextInv
<1> QED BY <1>1, <1>2, PTL DEF Spec

-----------------------------------------------------------------------------
(* The theorems.                                                           *)

\* The counters of _queue_tasks and of the loop reset never drift from the edge
\* markers, on any graph of actions and nested loops.
THEOREM CountersExact ==
  ASSUME Scatters = {}
  PROVE  Spec => []IndegreeAccounting
<1>1. DispatchInv => IndegreeAccounting
  BY DEF DispatchInv, CoreInv
<1> QED BY <1>1, Invariant, PTL

\* _queue_tasks fires once per task and iteration: no task is queued twice, or
\* queued while it runs, or starts before its dependencies are processed.
THEOREM DispatchedOnce ==
  ASSUME Scatters = {}
  PROVE  Spec => []SingleDispatch
<1>1. DispatchInv => SingleDispatch
  BY DEF DispatchInv, CoreInv
<1> QED BY <1>1, Invariant, PTL

\* What _is_reachable answered at the check holds at every later await of the
\* task, whatever the other coroutines do in between.
THEOREM ReachabilityKept ==
  ASSUME Scatters = {}
  PROVE  Spec => []StaysReachable
<1>1. DispatchInv => StaysReachable
  BY DEF DispatchInv
<1> QED BY <1>1, Invariant, PTL

\* The edge into a member of a loop, other than its start, is marked only after
\* the start has marked one of its own.
LEMMA StartBeforeBody ==
  ASSUME Scatters = {}, CoreInv, NEW x \in LoopEnds, NEW r \in Region[x],
         r # RegionStart[x], Active(At(RegionStart[x]))
  PROVE  r \in Refs /\ ~Fed(r) /\ \A e \in InEdges(r) : ~Marked(e)
<1> DEFINE s == RegionStart[x]
<1>1. ScopesChecked /\ Gathers = {} /\ s \in Refs /\ r \in Refs
  BY PlainLoops, PlainGraph, RegionMembers
<1>2. ~Fed(r)
  BY <1>1, RegionUpstream, UpstreamQuiet DEF CoreInv
<1>3. ASSUME NEW e \in InEdges(r), Marked(e) PROVE FALSE
  <2>1. e \in Edges /\ e.dst = r /\ e.src \in Refs
    BY EdgeEnds DEF InEdges
  <2>2. e.src \in Region[x]
    BY <1>1, <2>1, RegionEntered
  <2>3. Fed(e.src)
    BY <1>3, <2>1 DEF CoreInv, MarkedInOrder
  <2>4. CASE e.src = s
    BY <1>1, <1>3, <2>1, <2>4, ActiveFacts DEF CoreInv, OutEdges
  <2>5. CASE e.src # s
    BY <1>1, <2>1, <2>2, <2>3, <2>5, RegionUpstream, UpstreamQuiet DEF CoreInv
  <2> QED BY <2>4, <2>5
<1> QED BY <1>1, <1>2, <1>3

\* The iterations of a loop do not interleave, with each other or with those of
\* the loops nested in it.
THEOREM IterationsApart ==
  ASSUME Scatters = {}
  PROVE  Spec => []LoopIterationsDisjoint
<1>1. ASSUME DispatchInv PROVE LoopIterationsDisjoint
  <2> SUFFICES ASSUME NEW x \in LoopEnds, NEW s \in Streams,
                      Active(<<RegionStart[x], s>>), NEW u \in Tasks,
                      u[1] \in Region[x] \ {RegionStart[x]}
               PROVE  ~Active(u)
    BY DEF LoopIterationsDisjoint
  <2>1. s = Root /\ u = At(u[1]) /\ u[1] \in Refs
    BY PlainGraph
  <2>2. ~Fed(u[1])
    BY <1>1, <2>1, StartBeforeBody DEF At, DispatchInv
  <2> QED BY <1>1, <2>1, <2>2, ActiveFacts DEF DispatchInv, CoreInv
<1> QED BY <1>1, Invariant, PTL

\* _reset_loop_iteration_state leaves nothing behind: an iteration begins with
\* no marked edge in the loop and no index of a loop nested in it.
THEOREM IterationsFresh ==
  ASSUME Scatters = {}
  PROVE  Spec => []LoopIterationFresh
<1>1. ASSUME DispatchInv PROVE LoopIterationFresh
  <2> SUFFICES ASSUME NEW x \in LoopEnds, NEW s \in Streams,
                      Active(<<RegionStart[x], s>>), NEW u \in Tasks,
                      u[1] \in Region[x] \ {RegionStart[x]}
               PROVE  /\ \A e \in InEdges(u[1]) : edges[<<e, u[2]>>] = "PENDING"
                      /\ taskStreams[u] = 0
                      /\ loopIndices[u] = 0
    BY DEF LoopIterationFresh
  <2>1. s = Root /\ u = At(u[1]) /\ u[1] \in Refs /\ u[2] = Root
    BY PlainGraph
  <2>2. ~Fed(u[1]) /\ \A e \in InEdges(u[1]) : ~Marked(e)
    BY <1>1, <2>1, StartBeforeBody DEF At, DispatchInv
  <2>3. loopIndices[u] = 0
    BY <1>1, <2>1, <2>2 DEF DispatchInv, IndexFed
  <2> QED BY <1>1, <2>1, <2>2, <2>3 DEF DispatchInv, NoStreamsOpen, Marked
<1> QED BY <1>1, Invariant, PTL

\* In an acyclic graph (a graph with a loop has to be one) a scheduler that
\* reports that all tasks completed has processed every edge: no join is left
\* waiting for a parent.
THEOREM NothingStranded ==
  ASSUME Scatters = {}, Acyclic
  PROVE  Spec => []NoStrandedTask
<1>1. ASSUME DispatchInv PROVE NoStrandedTask
  <2> SUFFICES ASSUME main = "done" PROVE \A r \in Refs : Fed(r)
    BY PlainGraph DEF NoStrandedTask, Fed, Marked
  <2>1. \A r \in Refs : Fed(r) => \A e \in OutEdges(r) : Marked(e)
    BY <1>1 DEF DispatchInv, FedActs, DoneQuiet, Failing
  <2> SUFFICES ASSUME NEW q \in Refs, ~Fed(q) PROVE FALSE
    OBVIOUS
  <2> DEFINE U == {r \in Refs : ~Fed(r)}
  <2>2. U \in SUBSET Refs /\ U # {}
    OBVIOUS
  <2>3. PICK r \in U : \A e \in InEdges(r) : e.src \notin U
    BY <2>2 DEF Acyclic
  <2>4. \A e \in InEdges(r) : Marked(e)
    BY <2>1, <2>3, EdgeEnds DEF InEdges, OutEdges
  <2> QED BY <2>3, <2>4 DEF Fed
<1> QED BY <1>1, Invariant, PTL
=============================================================================

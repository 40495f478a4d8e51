---------------------------- MODULE DSLScheduler ----------------------------
(***************************************************************************)
(* The workflow scheduler (tracecat/dsl/scheduler.py, class DSLScheduler). *)
(*                                                                         *)
(* A task is an action ref in an execution stream.  The main coroutine     *)
(* (`start`) takes ready tasks off a queue and runs each in a coroutine of *)
(* its own (`_schedule_task`); a coroutine gives way only where it awaits  *)
(* an activity or a timer, so one action below is one coroutine's code     *)
(* between two such awaits, and pc[t] names the await it stands at.        *)
(*                                                                         *)
(* A stream id is the sequence of <<scatter ref, item index>> pairs that   *)
(* lead to it, << >> for ROOT_STREAM; index Skip stands for ":skip".       *)
(***************************************************************************)
EXTENDS DSLGraph

CONSTANTS
  Streams,        \* the stream ids a run of this graph can create
  RunIf,          \* the refs that have a run_if condition
  CanFail,        \* the refs whose activities may fail
  CanFailPlatform,\* subflow refs whose preparation may fail on the platform
  Sizes,          \* Sizes[r]: the collection sizes scatter r may evaluate to
  Intervals,      \* the scatters that stagger their streams by an interval
  RaiseErrors,    \* the gathers whose error_strategy is RAISE
  KeepErrors,     \* the gathers whose error_strategy is INCLUDE
  DropNulls,      \* the gathers that drop null items
  MaxIterations,  \* MaxIterations[r]: max_iterations of loop_end r
  IterationCap,   \* MAX_DO_WHILE_ITERATIONS
  Externalize,    \* TRACECAT__RESULT_EXTERNALIZATION_ENABLED
  MaxPending,     \* max_pending_tasks
  SpawnYieldEvery \* _SCHEDULER_TASK_SPAWN_YIELD_EVERY

Skip == -1
Root == << >>
Tasks == Refs \X Streams
StreamIds == Seq(Scatters \X (Nat \cup {Skip}))
IsSkipStream(s) == s # Root /\ Last(s)[2] = Skip

\* The stream of item i of scatter r in stream s (StreamID.new).
ChildUnindexed(s, r, i) == Append(s, <<r>>) \* variant
Child(s, r, i) == Append(s, <<r, i>>)

ASSUME SchedulerAssumption ==
  /\ Root \in Streams
  /\ Streams \subseteq StreamIds
  /\ IsFiniteSet(Streams)
  /\ \A s \in Streams \ {Root} : Front(s) \in Streams
  /\ RunIf \subseteq Refs /\ CanFail \subseteq Refs
  /\ CanFailPlatform \subseteq Refs
  /\ Sizes \in [Scatters -> SUBSET Nat]
  /\ Intervals \subseteq Scatters
  /\ RaiseErrors \subseteq Gathers /\ KeepErrors \subseteq Gathers
  /\ DropNulls \subseteq Gathers
  /\ MaxIterations \in [LoopEnds -> Nat \ {0}]
  /\ IterationCap \in Nat
  /\ Externalize \in BOOLEAN
  /\ MaxPending \in Nat \ {0} /\ SpawnYieldEvery \in Nat \ {0}

\* The scheduler is handed a DSLInput that passed its validators.
ASSUME GraphIsValid == ValidGraph

VARIABLES
  main,           \* where `start` stands
  queued,         \* queue: how often each task is in it (its order is free)
  pc,             \* the await each task's coroutine stands at
  indegrees,      \* indegrees, absent entries read as len(depends_on)
  edges,          \* edges: the marker of each edge in each stream
  delayed,        \* the tasks queued with a positive delay
  completed,      \* completed_tasks
  taskExc,        \* the refs with an entry in task_exceptions
  streamExc,      \* the streams with an entry in stream_exceptions
  streams,        \* the keys of streams / stream_hierarchy
  taskStreams,    \* task_streams: how many streams a scatter opened
  openStreams,    \* open_streams: how many of them are not yet gathered
  gathered,       \* the result of a gather in the ACTIONS of its parent stream
  storedItems,    \* a gather's stored_items, read before its last activity
  loopIndices,    \* loop_indices, absent entries read as 0
  loopStartSkips, \* loop_start_skips
  currentIndex    \* a loop_end's current_index, read before its awaits

graphVars  == <<queued, indegrees, edges, delayed>>
excVars    == <<taskExc, streamExc>>
streamVars == <<streams, taskStreams, openStreams>>
gatherVars == <<gathered, storedItems>>
loopVars   == <<loopIndices, loopStartSkips, currentIndex>>
vars == <<main, pc, completed, graphVars, excVars, streamVars, gatherVars,
          loopVars>>

Awaits == {"run_if", "delay", "execute", "loop_start", "loop_cond",
           "loop_continue", "loop_stop", "scatter", "gather_item",
           "gather_finalize", "gather_exec", "gather_empty"}
Markers == {"PENDING", "VISITED", "SKIPPED"}
Slots   == {"unset", "item", "error", "raw"}

TypeOK ==
  /\ main \in {"spawn", "wait", "cancel", "done", "failed"}
  /\ queued \in [Tasks -> Nat]
  /\ pc \in [Tasks -> Awaits \cup {"idle", "start", "done"}]
  /\ indegrees \in [Tasks -> Int]
  /\ edges \in [Edges \X Streams -> Markers]
  /\ delayed \subseteq Tasks
  /\ completed \subseteq Tasks
  /\ taskExc \subseteq Refs
  /\ streamExc \subseteq Streams
  /\ streams \subseteq StreamIds
  /\ taskStreams \in [Tasks -> Nat]
  /\ DOMAIN openStreams \subseteq Tasks
  /\ \A t \in DOMAIN openStreams : openStreams[t] \in Int
  /\ DOMAIN gathered \subseteq Tasks
  /\ \A t \in DOMAIN gathered :
       gathered[t] \in [kind : {"inline", "collection"}, slots : Seq(Slots)]
  /\ storedItems \in [Tasks -> [items : Nat, errors : Nat]]
  /\ loopIndices \in [Tasks -> Nat]
  /\ loopStartSkips \subseteq Tasks
  /\ currentIndex \in [Tasks -> Nat]

Running(t) == pc[t] \notin {"idle", "done"}
Active(t)  == queued[t] > 0 \/ Running(t)

Init ==
  /\ main = "spawn"
  /\ indegrees = [t \in Tasks |-> NDeps(t[1])]
  /\ queued = [t \in Tasks |-> IF t[2] = Root /\ NDeps(t[1]) = 0 THEN 1 ELSE 0]
  /\ pc = [t \in Tasks |-> "idle"]
  /\ edges = [x \in Edges \X Streams |-> "PENDING"]
  /\ delayed = {} /\ completed = {}
  /\ taskExc = {} /\ streamExc = {}
  /\ streams = {Root}
  /\ taskStreams = [t \in Tasks |-> 0]
  /\ openStreams = << >> /\ gathered = << >>
  /\ storedItems = [t \in Tasks |-> [items |-> 0, errors |-> 0]]
  /\ loopIndices = [t \in Tasks |-> 0]
  /\ loopStartSkips = {}
  /\ currentIndex = [t \in Tasks |-> 0]

-----------------------------------------------------------------------------
(* Bookkeeping shared by the handlers.                                     *)

\* A dict update and a dict pop.
Put(f, k, v)  == [x \in DOMAIN f \cup {k} |-> IF x = k THEN v ELSE f[x]]
Without(f, K) == Restrict(f, DOMAIN f \ K)

Await(t, label) == /\ pc' = [pc EXCEPT ![t] = label]
                   /\ UNCHANGED completed

\* The `finally` of _schedule_task.
Finish(t) == /\ pc' = [pc EXCEPT ![t] = "done"]
             /\ completed' = completed \cup {t}

\* The number of edges from r to d: r's completion takes that many off d's indegree.
Links == [x \in Refs \X Refs |-> Cardinality(OutEdges(x[1]) \cap InEdges(x[2]))]

\* Variant: every child is queued, whatever its other dependencies.
ReadyOnAnyParent(r, S) == {t \in Tasks : t[2] \in S /\ Links[<<r, t[1]>>] > 0}

\* The tasks whose indegree _queue_tasks takes to zero.
Ready(r, S) == {t \in Tasks : t[2] \in S /\ indegrees[t] \in 1..Links[<<r, t[1]>>]}

\* Variant: a skipped edge is marked, but not counted as processed.
QueueVisitedOnly(r, S, skip, late) ==
  LET Counted(d) == Cardinality((OutEdges(r) \cap InEdges(d)) \ skip)
      ready == {t \in Tasks : t[2] \in S /\ indegrees[t] \in 1..Counted(t[1])}
  IN  /\ edges' = [x \in Edges \X Streams |->
                     IF x[1] \in OutEdges(r) /\ x[2] \in S
                       THEN IF x[1] \in skip THEN "SKIPPED" ELSE "VISITED"
                       ELSE edges[x]]
      /\ indegrees' = [t \in Tasks |-> IF t[2] \in S
                          THEN indegrees[t] - Counted(t[1]) ELSE indegrees[t]]
      /\ queued' = [t \in Tasks |->
                      IF t \in ready THEN queued[t] + 1 ELSE queued[t]]
      /\ delayed' = (delayed \ ready) \cup {t \in ready : t[2] \in late}

\* _queue_tasks for ref r in each of the streams S: mark every out-edge,
\* the ones in `skip` as SKIPPED, take them off the children's indegrees and
\* queue the children that have none left.  `late` are the streams whose
\* task carries a delay for its children to inherit.
QueueTasksIn(r, S, skip, late) ==
  /\ edges' = [x \in Edges \X Streams |->
                 IF x[1] \in OutEdges(r) /\ x[2] \in S
                   THEN IF x[1] \in skip THEN "SKIPPED" ELSE "VISITED"
                   ELSE edges[x]]
  /\ indegrees' = [t \in Tasks |->
                     IF t[2] \in S THEN indegrees[t] - Links[<<r, t[1]>>]
                                   ELSE indegrees[t]]
  /\ queued' = [t \in Tasks |-> IF t \in Ready(r, S) THEN queued[t] + 1
                                                     ELSE queued[t]]
  /\ delayed' = (delayed \ Ready(r, S))
                  \cup {t \in Ready(r, S) : t[2] \in late}

QueueTasks(r, s, skip) == QueueTasksIn(r, {s}, skip, {})

ErrorEdges(r)   == {e \in OutEdges(r) : e.type = "error"}
SuccessEdges(r) == {e \in OutEdges(r) : e.type = "success"}

\* _handle_success_path
SuccessPath(t) == QueueTasks(t[1], t[2], OutEdges(t[1]) \ SuccessEdges(t[1]))

\* _handle_error_path: an error edge takes over, else the error fails the
\* workflow (in the root stream, or a platform error) or ends the stream.
\* `raised` are task_exceptions entries the handler wrote before it raised.
ErrorPath(t, platform, raised) ==
  LET r == t[1]
      s == t[2]
      handled == ErrorEdges(r) # {} /\ ~platform
      fatal   == ~handled /\ (s = Root \/ platform)
  IN  /\ IF fatal THEN UNCHANGED graphVars
         ELSE QueueTasks(r, s, IF handled THEN OutEdges(r) \ ErrorEdges(r)
                                          ELSE OutEdges(r))
      /\ taskExc' = taskExc \cup raised \cup (IF fatal THEN {r} ELSE {})
      /\ streamExc' = streamExc \cup (IF handled \/ fatal THEN {} ELSE {s})
      /\ Finish(t)

\* The task fails and nothing but its error path changes.
Fail(t) == /\ ErrorPath(t, FALSE, {})
           /\ UNCHANGED <<main, streamVars, gatherVars, loopVars>>

NVisited(t) ==
  Cardinality({e \in InEdges(t[1]) : edges[<<e, t[2]>>] = "VISITED"})

\* _is_reachable
IsReachable(t) ==
  \/ NDeps(t[1]) = 0
  \/ NDeps(t[1]) = 1 /\ NVisited(t) = 1
  \/ NDeps(t[1]) > 1 /\ t[1] \in JoinAll /\ NVisited(t) = NDeps(t[1])
  \/ NDeps(t[1]) > 1 /\ t[1] \notin JoinAll /\ NVisited(t) > 0

\* _skip_should_propagate
SkipShouldPropagate(t) ==
  /\ InEdges(t[1]) # {}
  /\ \A e \in InEdges(t[1]) : edges[<<e, t[2]>>] = "SKIPPED"

-----------------------------------------------------------------------------
(* Scatter.                                                                *)

\* A new ExecutionContext for each stream of N: what an earlier stream of
\* that id gathered is gone.
OpenStreams(N) ==
  /\ streams' = streams \cup N
  /\ gathered' = Without(gathered, {t \in DOMAIN gathered : t[2] \in N})

\* _handle_scatter_skip_stream: everything below the scatter is skipped in
\* a stream of its own.
ScatterSkipStream(t) ==
  LET s == Child(t[2], t[1], Skip)
  IN  /\ OpenStreams({s})
      /\ QueueTasks(t[1], s, OutEdges(t[1]))
      /\ Finish(t)
      /\ UNCHANGED <<main, excVars, storedItems, loopVars>>

\* The streams a scatter opens, by item index.
NewStreams(t, n) == {Child(t[2], t[1], i) : i \in 0..(n-1)}

\* _handle_scatter once the collection is evaluated.  The checkpoints of
\* `cooperative` only let coroutines run that are ready in the same workflow
\* activation: none of the new streams' activities can have completed.
Scatter(t) ==
  /\ pc[t] = "scatter"
  /\ \E n \in Sizes[t[1]] :
       /\ taskStreams' = [taskStreams EXCEPT ![t] = n]
       /\ openStreams' = Put(openStreams, t, n)
       /\ \/ n = 0 /\ ScatterSkipStream(t)
          \/ /\ n > 0
             /\ LET new == NewStreams(t, n)
                IN  /\ OpenStreams(new)
                    /\ QueueTasksIn(t[1], new, {},
                          IF t[1] \in Intervals
                            THEN new \ {Child(t[2], t[1], 0)} ELSE {})
             /\ Finish(t)
             /\ UNCHANGED <<main, excVars, storedItems, loopVars>>

ScatterFails(t) == /\ pc[t] = "scatter" /\ t[1] \in CanFail
                   /\ Fail(t)

-----------------------------------------------------------------------------
(* Gather.                                                                 *)

ParentScatter(t) == <<Last(t[2])[1], Front(t[2])>>
ParentGather(t)  == <<t[1], Front(t[2])>>
NSlots(q, v)     == Cardinality({i \in DOMAIN q : q[i] = v})

\* _handle_gather_result up to its activity, when the last stream closes:
\* g is the context the caller wrote its slot to.  An earlier result that
\* was stored as a collection, or raw items of an earlier result, raise.
GatherResult(t, g) ==
  LET key == ParentGather(t)
      cur == IF key \in DOMAIN g THEN g[key]
             ELSE [kind |-> "inline", slots |-> << >>]
  IN  /\ gathered' = Put(g, key, cur)
      /\ IF cur.kind = "collection" \/ NSlots(cur.slots, "raw") > 0
           THEN ErrorPath(t, FALSE, {}) /\ UNCHANGED storedItems
           ELSE /\ storedItems' = [storedItems EXCEPT ![t] =
                                     [items  |-> NSlots(cur.slots, "item"),
                                      errors |-> NSlots(cur.slots, "error")]]
                /\ Await(t, "gather_finalize")
                /\ UNCHANGED <<graphVars, excVars>>

\* The last stream has closed.
BarrierOffByOne(left) == left <= 1 \* variant
Barrier(left) == left = 0

WriteSlot(cur, idx, slot) ==
  [kind |-> cur.kind, slots |-> [cur.slots EXCEPT ![idx] = slot]]

\* Close the stream of t, writing `slot` ("none": nothing) at its index.
\* The result list is made by the first stream to close; a result that is
\* already there is written in place, which fails when it is no list or
\* too short.
CloseStream(t, slot) ==
  LET key   == ParentGather(t)
      size  == taskStreams[ParentScatter(t)]
      cur   == IF key \in DOMAIN gathered THEN gathered[key]
               ELSE [kind |-> "inline", slots |-> [i \in 1..size |-> "unset"]]
      idx   == Last(t[2])[2] + 1
      left  == openStreams[ParentScatter(t)] - 1
      wrote == IF slot = "none" THEN gathered
               ELSE Put(gathered, key, WriteSlot(cur, idx, slot))
      fails == slot # "none" /\ (cur.kind = "collection" \/ idx > Len(cur.slots))
  IN  /\ openStreams' = [openStreams EXCEPT ![ParentScatter(t)] = left]
      /\ \/ fails /\ ErrorPath(t, FALSE, {}) /\ UNCHANGED gatherVars
         \/ ~fails /\ Barrier(left) /\ GatherResult(t, wrote)
         \/ /\ ~fails /\ ~Barrier(left) /\ gathered' = wrote
            /\ Finish(t)
            /\ UNCHANGED <<graphVars, excVars, storedItems>>
      /\ UNCHANGED <<main, streams, taskStreams, loopVars>>

\* _handle_gather in a skip stream: the gather of an empty collection goes
\* on to write its result; the gather of a skipped scatter skips on, in the
\* skip stream.
GatherInSkipStream(t) ==
  \/ /\ ParentScatter(t) \in DOMAIN openStreams
     /\ Await(t, "gather_empty")
     /\ UNCHANGED <<main, graphVars, excVars, streamVars, gatherVars, loopVars>>
  \/ /\ ParentScatter(t) \notin DOMAIN openStreams
     /\ QueueTasks(t[1], t[2], OutEdges(t[1]))
     /\ Finish(t)
     /\ UNCHANGED <<main, excVars, streamVars, gatherVars, loopVars>>

\* What a stream that was skipped to its end leaves in the result.
NoSlot(s) == "none" \* variant
SkippedSlot(s) == IF s \in streamExc THEN "error" ELSE "none"

\* _handle_gather, entered with is_skipping = TRUE ...
GatherSkipped(t) ==
  \/ t[2] = Root /\ Fail(t)
  \/ IsSkipStream(t[2]) /\ GatherInSkipStream(t)
  \/ /\ t[2] # Root /\ ~IsSkipStream(t[2])
     /\ CloseStream(t, SkippedSlot(t[2]))

\* ... and with is_skipping = FALSE.
GatherReached(t) ==
  \/ t[2] = Root /\ Fail(t)
  \/ IsSkipStream(t[2]) /\ GatherInSkipStream(t)
  \/ /\ t[2] # Root /\ ~IsSkipStream(t[2])
     /\ Await(t, "gather_item")
     /\ UNCHANGED <<main, graphVars, excVars, streamVars, gatherVars, loopVars>>

\* The stream's item is evaluated.
GatherItem(t) == /\ pc[t] = "gather_item"
                 /\ CloseStream(t, "item")

GatherItemFails(t) == /\ pc[t] = "gather_item" /\ t[1] \in CanFail
                      /\ Fail(t)

\* finalize_gather_activity: what is left of the items and errors gathered
\* when `nulls` of the items are null.
FinalizeGather(r, got, nulls) ==
  LET kept == (IF r \in DropNulls THEN got.items - nulls ELSE got.items)
                + (IF r \in KeepErrors THEN got.errors ELSE 0)
  IN  [kind  |-> IF Externalize THEN "collection" ELSE "inline",
       slots |-> [i \in 1..kept |-> "raw"]]

\* The activity returned to _handle_gather_result.
GatherFinalize(t) ==
  /\ pc[t] = "gather_finalize"
  /\ LET got == storedItems[t]
     IN  \/ /\ t[1] \in RaiseErrors /\ got.errors > 0
            /\ ErrorPath(t, FALSE, {t[1]})
            /\ UNCHANGED gathered
         \/ /\ t[1] \notin RaiseErrors \/ got.errors = 0
            /\ \E nulls \in 0..got.items :
                 gathered' = Put(gathered, ParentGather(t),
                                 FinalizeGather(t[1], got, nulls))
            /\ Await(t, "gather_exec")
            /\ UNCHANGED <<graphVars, excVars>>
  /\ UNCHANGED <<main, streamVars, storedItems, loopVars>>

GatherFinalizeFails(t) ==
  /\ pc[t] \in {"gather_finalize", "gather_exec", "gather_empty"}
  /\ t[1] \in CanFail
  /\ Fail(t)

\* The gather goes back up to the parent stream: every out-edge is VISITED
\* there, the error edges too.
GatherExec(t) ==
  /\ pc[t] = "gather_exec"
  /\ QueueTasks(t[1], Front(t[2]), {})
  /\ Finish(t)
  /\ UNCHANGED <<main, excVars, streamVars, gatherVars, loopVars>>

GatherEmpty(t) ==
  /\ pc[t] = "gather_empty"
  /\ gathered' = Put(gathered, ParentGather(t),
                     [kind |-> IF Externalize THEN "collection" ELSE "inline",
                      slots |-> << >>])
  /\ QueueTasks(t[1], Front(t[2]), {})
  /\ Finish(t)
  /\ UNCHANGED <<main, excVars, streamVars, storedItems, loopVars>>

-----------------------------------------------------------------------------
(* Do-while loops.                                                         *)

\* Variant: nothing is cleaned up.
NoStreamsCleaned(region, s) == {}

\* The streams _cleanup_loop_descendant_streams removes: the ones scatters
\* of the region opened at or below s, and the ones nested in those.  Skip
\* streams are in no task_streams list.
LoopStreams(region, s) ==
  {x \in Streams :
     \E k \in 1..Len(x) :
       LET base == SubSeq(x, 1, k - 1)
       IN  /\ IsPrefix(s, base)
           /\ x[k][1] \in region
           /\ x[k][2] # Skip
           /\ x[k][2] < taskStreams[<<x[k][1], base>>]}

\* The dependencies of r that lie in the loop, and are counted again for the
\* next iteration.
InternalDeps(r, region) == {e \in InEdges(r) : e.src \in region}

\* The edges that are marked anew in each iteration.
LoopEdgeNotFromStart(e, region) == \* variant
  e.src \in region /\ e.dst \in region /\ Kind[e.src] # "loop_start"
LoopEdge(e, region) == e.src \in region /\ e.dst \in region

\* The index the next iteration is stored under.
SameIndex(i) == i \* variant
NextIndex(i) == i + 1

\* _reset_loop_iteration_state, the new loop index and the next iteration.
NextIteration(t, region, next) ==
  LET s     == t[2]
      start == <<RegionStart[t[1]], s>>
      gone  == LoopStreams(region, s)
      Here(k)  == k[2] \in gone \/ (k[2] = s /\ k[1] \in region)
  IN  /\ streams' = streams \ gone
      /\ streamExc' = streamExc \ gone
      /\ taskStreams' = [k \in Tasks |-> IF Here(k) THEN 0 ELSE taskStreams[k]]
      /\ openStreams' = Without(openStreams, {k \in DOMAIN openStreams : Here(k)})
      /\ gathered' = Without(gathered, {k \in DOMAIN gathered : k[2] \in gone})
      /\ edges' = [x \in Edges \X Streams |->
                     IF \/ x[2] \in gone
                        \/ x[2] = s /\ LoopEdge(x[1], region)
                       THEN "PENDING" ELSE edges[x]]
      /\ indegrees' = [k \in Tasks |->
                         IF k[2] \in gone THEN NDeps(k[1])
                         ELSE IF Here(k) THEN Cardinality(InternalDeps(k[1], region))
                         ELSE indegrees[k]]
      /\ loopIndices' = [k \in Tasks |->
                           IF k = start THEN next
                           ELSE IF k[1] \in region /\ IsPrefix(s, k[2]) THEN 0
                           ELSE loopIndices[k]]
      /\ queued' = [queued EXCEPT ![start] = @ + 1]
      /\ delayed' = delayed \ {start}
      /\ pc' = [pc EXCEPT ![t] = "done"]
      /\ completed' = {k \in completed : ~Here(k)} \cup {t}
      /\ UNCHANGED <<main, taskExc, storedItems, loopStartSkips, currentIndex>>

\* _handle_loop_start
LoopStartSkipped(t) ==
  /\ loopStartSkips' = loopStartSkips \cup {t}
  /\ QueueTasks(t[1], t[2], OutEdges(t[1]))
  /\ Finish(t)
  /\ UNCHANGED <<main, excVars, streamVars, gatherVars, loopIndices, currentIndex>>

LoopStartReached(t) ==
  /\ loopStartSkips' = loopStartSkips \ {t}
  /\ Await(t, "loop_start")
  /\ UNCHANGED <<main, graphVars, excVars, streamVars, gatherVars, loopIndices,
                 currentIndex>>

\* _handle_loop_end
LoopKey(t) == <<RegionStart[t[1]], t[2]>>

\* A skip that began at the loop start goes on past the loop's end, one that
\* began in the loop's body stops here.
LoopEndSkipped(t) ==
  \/ MaxIterations[t[1]] > IterationCap /\ Fail(t)
  \/ /\ MaxIterations[t[1]] <= IterationCap
     /\ loopStartSkips' = loopStartSkips \ {LoopKey(t)}
     /\ loopIndices' = [loopIndices EXCEPT ![LoopKey(t)] = 0]
     /\ IF LoopKey(t) \in loopStartSkips
          THEN QueueTasks(t[1], t[2], OutEdges(t[1]))
          ELSE SuccessPath(t)
     /\ Finish(t)
     /\ UNCHANGED <<main, excVars, streamVars, gatherVars, currentIndex>>

LoopEndReached(t) ==
  \/ MaxIterations[t[1]] > IterationCap /\ Fail(t)
  \/ /\ MaxIterations[t[1]] <= IterationCap
     /\ currentIndex' = [currentIndex EXCEPT ![t] = loopIndices[LoopKey(t)]]
     /\ Await(t, "loop_cond")
     /\ UNCHANGED <<main, graphVars, excVars, streamVars, gatherVars,
                    loopIndices, loopStartSkips>>

LoopCondition(t) ==
  /\ pc[t] = "loop_cond"
  /\ \E next \in {"loop_continue", "loop_stop"} : Await(t, next)
  /\ UNCHANGED <<main, graphVars, excVars, streamVars, gatherVars, loopVars>>

LoopFails(t) ==
  /\ pc[t] \in {"loop_start", "loop_cond", "loop_continue", "loop_stop"}
  /\ t[1] \in CanFail
  /\ Fail(t)

\* Variant: one iteration too many.
LoopContinueTooFar(t) ==
  LET next == NextIndex(currentIndex[t])
  IN  /\ pc[t] = "loop_continue"
      /\ \/ next > MaxIterations[t[1]] /\ Fail(t)
         \/ /\ next <= MaxIterations[t[1]]
            /\ NextIteration(t, Region[t[1]], next)

LoopContinue(t) ==
  LET next == NextIndex(currentIndex[t])
  IN  /\ pc[t] = "loop_continue"
      /\ \/ next >= MaxIterations[t[1]] /\ Fail(t)
         \/ /\ next < MaxIterations[t[1]]
            /\ NextIteration(t, Region[t[1]], next)

LoopStop(t) ==
  /\ pc[t] = "loop_stop"
  /\ loopIndices' = [loopIndices EXCEPT ![LoopKey(t)] = 0]
  /\ SuccessPath(t)
  /\ Finish(t)
  /\ UNCHANGED <<main, excVars, streamVars, gatherVars, loopStartSkips,
                 currentIndex>>

-----------------------------------------------------------------------------
(* The coroutine of a task: _schedule_task.                                *)

\* _handle_skip_path
SkipPath(t) ==
  \/ Kind[t[1]] = "loop_start" /\ LoopStartSkipped(t)
  \/ Kind[t[1]] = "loop_end" /\ LoopEndSkipped(t)
  \/ /\ Kind[t[1]] = "scatter" /\ ScatterSkipStream(t)
     /\ UNCHANGED <<taskStreams, openStreams>>
  \/ Kind[t[1]] = "gather" /\ GatherSkipped(t)
  \/ /\ Kind[t[1]] = "action"
     /\ QueueTasks(t[1], t[2], OutEdges(t[1]))
     /\ Finish(t)
     /\ UNCHANGED <<main, excVars, streamVars, gatherVars, loopVars>>

AwaitOnly(t, label) ==
  /\ Await(t, label)
  /\ UNCHANGED <<main, graphVars, excVars, streamVars, gatherVars, loopVars>>

\* Step 4: hand the task to the handler of its kind.
Dispatch(t) ==
  \/ Kind[t[1]] = "loop_start" /\ LoopStartReached(t)
  \/ Kind[t[1]] = "loop_end" /\ LoopEndReached(t)
  \/ Kind[t[1]] = "scatter" /\ AwaitOnly(t, "scatter")
  \/ Kind[t[1]] = "gather" /\ GatherReached(t)
  \/ Kind[t[1]] = "action" /\ AwaitOnly(t, "execute")

\* Variant: the task runs without the check.
DispatchUnchecked(t) ==
  \/ t \in delayed /\ AwaitOnly(t, "delay")
  \/ t \notin delayed /\ Dispatch(t)

\* Steps 3 and 4: an unreachable task fails, a delayed one sleeps first.
CheckReachable(t) ==
  \/ ~IsReachable(t) /\ Fail(t)
  \/ IsReachable(t) /\ t \in delayed /\ AwaitOnly(t, "delay")
  \/ IsReachable(t) /\ t \notin delayed /\ Dispatch(t)

\* Step 1, and step 2 up to the evaluation of run_if.
Schedule(t) ==
  /\ pc[t] = "start"
  /\ \/ SkipShouldPropagate(t) /\ SkipPath(t)
     \/ /\ ~SkipShouldPropagate(t) /\ t[1] \in RunIf
        /\ AwaitOnly(t, "run_if")
     \/ /\ ~SkipShouldPropagate(t) /\ t[1] \notin RunIf
        /\ CheckReachable(t)

RunIfHolds(t) == pc[t] = "run_if" /\ CheckReachable(t)

RunIfSkips(t) == pc[t] = "run_if" /\ SkipPath(t)

\* An error of run_if is deferred until after the reachability check, which
\* fails the task too.
RunIfFails(t) == pc[t] = "run_if" /\ t[1] \in CanFail /\ Fail(t)

Delay(t) == pc[t] = "delay" /\ Dispatch(t)

\* _execute returned: an action, or a loop start.
Execute(t) ==
  /\ pc[t] \in {"execute", "loop_start"}
  /\ SuccessPath(t)
  /\ Finish(t)
  /\ UNCHANGED <<main, excVars, streamVars, gatherVars, loopVars>>

ExecuteFails(t) == pc[t] = "execute" /\ t[1] \in CanFail /\ Fail(t)

\* PlatformExecutionError: the workflow fails whatever the stream and edges.
ExecuteFailsPlatform(t) ==
  /\ pc[t] = "execute" /\ t[1] \in CanFailPlatform
  /\ ErrorPath(t, TRUE, {})
  /\ UNCHANGED <<main, streamVars, gatherVars, loopVars>>

-----------------------------------------------------------------------------
(* The main coroutine: start.                                              *)

\* It runs at first, after a checkpoint while spawning, and when a pending
\* coroutine has completed.
Awake == main = "spawn" \/ (main = "wait" /\ \E t \in Tasks : pc[t] = "done")

Queued == {t \in Tasks : queued[t] > 0}
Minimum(a, b) == IF a <= b THEN a ELSE b

\* How many coroutines max_pending_tasks has room for.
RunningTasks == {t \in Tasks : Running(t)}
RoomForAll == MaxPending \* variant
Room == MaxPending - Cardinality(RunningTasks)

\* Discard the done coroutines, then spawn while there is room, giving way
\* after every SpawnYieldEvery spawns.
Spawn ==
  /\ Awake /\ taskExc = {}
  /\ LET n == Minimum(Minimum(Cardinality(Queued), Room), SpawnYieldEvery)
     IN  /\ Queued # {} \/ RunningTasks # {}
         /\ \E S \in SUBSET Queued :
              /\ Cardinality(S) = n
              /\ queued' = [t \in Tasks |-> IF t \in S THEN queued[t] - 1
                                                       ELSE queued[t]]
              /\ pc' = [t \in Tasks |-> IF t \in S THEN "start"
                                        ELSE IF pc[t] = "done" THEN "idle"
                                        ELSE pc[t]]
         /\ main' = IF n = SpawnYieldEvery THEN "spawn" ELSE "wait"
  /\ UNCHANGED <<completed, indegrees, edges, delayed, excVars, streamVars,
                 gatherVars, loopVars>>

\* Nothing queued and nothing pending: start returns None.
ReturnNone ==
  /\ Awake /\ taskExc = {}
  /\ Queued = {} /\ RunningTasks = {}
  /\ main' = "done"
  /\ pc' = [t \in Tasks |-> "idle"]
  /\ UNCHANGED <<completed, graphVars, excVars, streamVars, gatherVars, loopVars>>

\* Variant: the loop goes round again instead of stopping.
KeepGoing ==
  /\ Awake /\ taskExc # {}
  /\ main' = "spawn"
  /\ UNCHANGED <<pc, completed, graphVars, excVars, streamVars, gatherVars,
                 loopVars>>

\* A task exception: every pending coroutine is cancelled ...
CancelPending ==
  /\ Awake /\ taskExc # {}
  /\ main' = "cancel"
  /\ UNCHANGED <<pc, completed, graphVars, excVars, streamVars, gatherVars,
                 loopVars>>

\* ... which ends it where it stands (before its first line if it has not
\* started), unless its activity turned the cancellation into an error, which
\* takes the error path ...
Cancelled(t) ==
  /\ main = "cancel" /\ Running(t)
  /\ pc' = [pc EXCEPT ![t] = "done"]
  /\ completed' = IF pc[t] = "start" THEN completed ELSE completed \cup {t}
  /\ UNCHANGED <<main, graphVars, excVars, streamVars, gatherVars, loopVars>>

CancelledAsError(t) ==
  /\ main = "cancel" /\ pc[t] \in Awaits \ {"delay"}
  /\ Fail(t)

\* ... and start returns the exceptions when all of them ended.
ReturnExceptions ==
  /\ main = "cancel"
  /\ RunningTasks = {}
  /\ main' = "failed"
  /\ pc' = [t \in Tasks |-> "idle"]
  /\ UNCHANGED <<completed, graphVars, excVars, streamVars, gatherVars, loopVars>>

Terminated == main \in {"done", "failed"} /\ UNCHANGED vars

Main == Spawn \/ ReturnNone \/ CancelPending \/ ReturnExceptions

Resume(t) ==
  \/ Schedule(t) \/ RunIfHolds(t) \/ RunIfSkips(t) \/ RunIfFails(t) \/ Delay(t)
  \/ Execute(t) \/ ExecuteFails(t) \/ ExecuteFailsPlatform(t)
  \/ Scatter(t) \/ ScatterFails(t)
  \/ GatherItem(t) \/ GatherItemFails(t) \/ GatherFinalize(t)
  \/ GatherFinalizeFails(t) \/ GatherExec(t) \/ GatherEmpty(t)
  \/ LoopCondition(t) \/ LoopContinue(t) \/ LoopStop(t) \/ LoopFails(t)

Step(t) == \/ main # "cancel" /\ Resume(t)
           \/ Cancelled(t) \/ CancelledAsError(t)

Next == Main \/ (\E t \in Tasks : Step(t)) \/ Terminated

Spec == Init /\ [][Next]_vars

(* Activities and timers have timeouts, so every awaited one completes or  *)
(* fails, and Temporal runs a coroutine that is ready.                     *)
FairSpec == /\ Spec
            /\ WF_vars(Main)
            /\ \A t \in Tasks : WF_vars(Step(t))

-----------------------------------------------------------------------------
(* Properties.                                                             *)

\* The indegree counter of every task in every stream is the number of its
\* dependencies that have not been processed: _queue_tasks' counting and the
\* loop reset's recounting never drift from the edge markers.
IndegreeAccounting ==
  \A t \in Tasks :
    indegrees[t] =
      Cardinality({e \in InEdges(t[1]) : edges[<<e, t[2]>>] = "PENDING"})

\* No task is waiting or running twice, and one that is has every dependency
\* processed and none of its own outcomes published: _queue_tasks fires once
\* per task and iteration.
SingleDispatch ==
  \A t \in Tasks :
    Active(t) =>
      /\ queued[t] = (IF Running(t) THEN 0 ELSE 1)
      /\ \A e \in InEdges(t[1]) : edges[<<e, t[2]>>] # "PENDING"
      /\ Kind[t[1]] \notin {"scatter", "gather"} =>
           \A e \in OutEdges(t[1]) : edges[<<e, t[2]>>] = "PENDING"

\* At most max_pending_tasks coroutines run at any time, through every order
\* of spawning, yielding and completing.
PendingCapped == Cardinality(RunningTasks) <= MaxPending

\* The stream tree stays whole while loops drop streams and scatters open new
\* ones: every stream has its parent stream, and every execution stream its
\* place in task_streams (what a gather's _get_parent_stream_id_safe and its
\* slot index rely on).
StreamTreeWhole ==
  \A s \in streams \ {Root} :
    /\ Front(s) \in streams
    /\ IsSkipStream(s) \/ Last(s)[2] < taskStreams[<<Last(s)[1], Front(s)>>]

\* A task past the reachability check of _schedule_task is reachable at every
\* later await too: no other coroutine takes the answer back.
StaysReachable ==
  \A t \in Tasks :
    pc[t] \in {"delay", "execute", "scatter", "gather_item", "loop_start",
               "loop_cond", "loop_continue", "loop_stop"} => IsReachable(t)

StreamsOf(sc) == {Child(sc[2], sc[1], i) : i \in 0..(taskStreams[sc] - 1)}

\* When a gather puts its result together, no stream of its scatter has the
\* gather, or anything the gather waits for, still to run (_handle_gather is
\* a synchronisation barrier), and no other coroutine is doing the same.
GatherBarrier ==
  \A t \in Tasks :
    pc[t] \in {"gather_finalize", "gather_exec"} =>
      \A u \in Tasks \ {t} :
        /\ \E s \in StreamsOf(ParentScatter(t)) : IsPrefix(s, u[2])
        /\ u[1] \in Upstream[t[1]] \cup {t[1]}
        => ~Active(u)

\* What a gather reports: one error for each stream that ended in an error,
\* as the error strategies partition, include, drop and raise promise.
StreamErrorsReported ==
  \A t \in Tasks :
    pc[t] = "gather_finalize" =>
      storedItems[t].errors = Cardinality(StreamsOf(ParentScatter(t)) \cap streamExc)

\* When the scheduler reports that all tasks completed, no task is left with
\* one parent done and another it still waits for.
NoStrandedTask ==
  main = "done" =>
    \A t \in Tasks :
      (\E e \in InEdges(t[1]) : edges[<<e, t[2]>>] = "VISITED") =>
        \A e \in InEdges(t[1]) : edges[<<e, t[2]>>] # "PENDING"

\* When the scheduler reports that all tasks completed, every scatter that
\* ran was gathered, and the workflow went on behind its gather.
ScattersResume ==
  main = "done" =>
    \A sc \in DOMAIN openStreams :
      \A g \in {r \in Gathers : ClosedScope(r) = sc[1]} :
        \A e \in OutEdges(g) : edges[<<e, sc[2]>>] # "PENDING"

\* The iterations of a do-while loop do not interleave: while its start is
\* waiting or running, nothing else of the loop is, in its stream or below.
LoopIterationsDisjoint ==
  \A x \in LoopEnds : \A s \in Streams :
    Active(<<RegionStart[x], s>>) =>
      \A u \in Tasks : /\ u[1] \in Region[x] \ {RegionStart[x]}
                       /\ IsPrefix(s, u[2])
                       => ~Active(u)

\* A new iteration finds nothing of the earlier ones (_reset_loop_iteration_state):
\* while the loop's start is waiting or running, no edge in the loop is marked,
\* no scatter in it has streams and no loop in it has an index.
LoopIterationFresh ==
  \A x \in LoopEnds : \A s \in Streams :
    Active(<<RegionStart[x], s>>) =>
      \A u \in Tasks : /\ u[1] \in Region[x] \ {RegionStart[x]}
                       /\ IsPrefix(s, u[2])
                       => /\ \A e \in InEdges(u[1]) : edges[<<e, u[2]>>] = "PENDING"
                          /\ taskStreams[u] = 0
                          /\ loopIndices[u] = 0

\* A do-while loop runs at most max_iterations times.
LoopBounded ==
  \A x \in LoopEnds : \A s \in Streams :
    loopIndices[<<RegionStart[x], s>>] < MaxIterations[x]

\* A task outside every loop never starts again once it completed.
RunsOnce ==
  [][\A t \in Tasks :
       t \in completed /\ (\A x \in LoopEnds : t[1] \notin Region[x])
         => pc'[t] # "start"]_vars

\* Every run of the scheduler ends, whatever fails, skips or is throttled.
Termination == <>(main \in {"done", "failed"})
=============================================================================

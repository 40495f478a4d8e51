-------------------------- MODULE DSLSchedulerProofs --------------------------
(***************************************************************************)
(* Theorems about DSLScheduler, for every valid graph and every value of   *)
(* the other constants.                                                    *)
(***************************************************************************)
EXTENDS DSLScheduler, FiniteSetTheorems, TLAPS

-----------------------------------------------------------------------------
(* Type correctness.  TypeOK is split along the groups of variables that   *)
(* the handlers' helpers change together.                                  *)

\* A coroutine stands only at awaits of its own kind of task: what the code
\* after an await does with the task is well defined.
Fits(t, label) ==
  /\ label = "scatter" => t[1] \in Scatters
  /\ label = "gather_item" => t[2] # Root /\ ~IsSkipStream(t[2])
  /\ label \in {"gather_finalize", "gather_exec", "gather_empty"} => t[2] # Root
  /\ label \in {"loop_cond", "loop_continue", "loop_stop"} => t[1] \in LoopEnds
PcFits == \A t \in Tasks : Fits(t, pc[t])

CoroutineType == /\ pc \in [Tasks -> Awaits \cup {"idle", "start", "done"}]
                 /\ completed \subseteq Tasks
                 /\ PcFits
GraphType == /\ queued \in [Tasks -> Nat]
             /\ indegrees \in [Tasks -> Int]
             /\ edges \in [Edges \X Streams -> Markers]
             /\ delayed \subseteq Tasks
ExcType == taskExc \subseteq Refs /\ streamExc \subseteq Streams
StreamType == /\ streams \subseteq StreamIds
              /\ taskStreams \in [Tasks -> Nat]
              /\ DOMAIN openStreams \subseteq Tasks
              /\ \A t \in DOMAIN openStreams : openStreams[t] \in Int
GatherValue == [kind : {"inline", "collection"}, slots : Seq(Slots)]
GatherType == /\ DOMAIN gathered \subseteq Tasks
              /\ \A t \in DOMAIN gathered : gathered[t] \in GatherValue
              /\ storedItems \in [Tasks -> [items : Nat, errors : Nat]]
LoopType == /\ loopIndices \in [Tasks -> Nat]
            /\ loopStartSkips \subseteq Tasks
            /\ currentIndex \in [Tasks -> Nat]

\* The inductive strengthening of TypeOK is the conjunction of the groups.
LEMMA TypeGroups ==
  TypeOK /\ PcFits
         <=> /\ main \in {"spawn", "wait", "cancel", "done", "failed"}
             /\ CoroutineType /\ GraphType /\ ExcType /\ StreamType
             /\ GatherType /\ LoopType
  BY DEF TypeOK, CoroutineType, GraphType, ExcType, StreamType, GatherType,
         GatherValue, LoopType

\* Dependencies are finite, so the counts of them are natural numbers.
LEMMA CountsAreNat ==
  /\ \A r \in Refs : NDeps(r) \in Nat
  /\ \A r \in Refs : \A region : Cardinality(InternalDeps(r, region)) \in Nat
  /\ Links \in [Refs \X Refs -> Nat]
<1>1. \A r : IsFiniteSet(InEdges(r))
  BY FS_Subset, GraphAssumption DEF InEdges
<1>2. \A r, region : IsFiniteSet(InternalDeps(r, region))
  BY <1>1, FS_Subset DEF InternalDeps
<1>3. \A r, d : IsFiniteSet(OutEdges(r) \cap InEdges(d))
  BY <1>1, FS_Subset
<1> QED BY <1>1, <1>2, <1>3, FS_CardinalityType DEF NDeps, Links

\* A stream below the root has a parent stream and comes from a scatter.
LEMMA ParentStream ==
  ASSUME NEW t \in Tasks, t[2] # Root
  PROVE  /\ ParentGather(t) \in Tasks
         /\ ParentScatter(t) \in Tasks
         /\ Last(t[2])[2] \in Nat \cup {Skip}
<1>1. t[1] \in Refs /\ t[2] \in Streams /\ t[2] \in StreamIds
  BY SchedulerAssumption DEF Tasks
<1>2. Front(t[2]) \in Streams
  BY <1>1, SchedulerAssumption
<1>3. Last(t[2]) \in Scatters \X (Nat \cup {Skip})
  BY <1>1 DEF StreamIds, Last, Root
<1> QED BY <1>1, <1>2, <1>3 DEF ParentGather, ParentScatter, Tasks, Scatters

\* _queue_tasks keeps markers, counters and the queue in their types.
LEMMA QueueTasksType ==
  ASSUME GraphType, NEW r \in Refs, NEW S, NEW skip, NEW late,
         QueueTasksIn(r, S, skip, late)
  PROVE  GraphType'
<1>1. \A t \in Tasks : Links[<<r, t[1]>>] \in Nat
  BY CountsAreNat DEF Tasks
<1>2. edges' \in [Edges \X Streams -> Markers]
  <2>1. \A x \in Edges \X Streams : edges[x] \in Markers
    BY DEF GraphType
  <2> QED BY <2>1 DEF QueueTasksIn, Markers
<1>3. indegrees' \in [Tasks -> Int]
  <2>1. \A t \in Tasks : indegrees[t] \in Int
    BY DEF GraphType
  <2>2. \A t \in Tasks : indegrees[t] - Links[<<r, t[1]>>] \in Int
    BY <1>1, <2>1
  <2> QED BY <2>1, <2>2 DEF QueueTasksIn
<1>4. queued' \in [Tasks -> Nat]
  <2>1. \A t \in Tasks : queued[t] \in Nat
    BY DEF GraphType
  <2> QED BY <2>1 DEF QueueTasksIn
<1>5. delayed' \subseteq Tasks
  BY DEF QueueTasksIn, GraphType, Ready
<1> QED BY <1>2, <1>3, <1>4, <1>5 DEF GraphType

\* Moving one coroutine to an await of its kind, or to its end, keeps pc typed
\* and fitting.
LEMMA MovePc ==
  ASSUME CoroutineType, NEW t \in Tasks,
         NEW label \in Awaits \cup {"idle", "start", "done"}, Fits(t, label),
         pc' = [pc EXCEPT ![t] = label], completed' \subseteq Tasks
  PROVE  CoroutineType'
<1>1. pc' \in [Tasks -> Awaits \cup {"idle", "start", "done"}]
  BY DEF CoroutineType
<1>2. \A u \in Tasks : pc'[u] = IF u = t THEN label ELSE pc[u]
  BY DEF CoroutineType
<1>3. PcFits'
  BY <1>2 DEF CoroutineType, PcFits, Fits
<1> QED BY <1>1, <1>3 DEF CoroutineType

\* Ending a coroutine keeps the coroutine variables typed.
LEMMA FinishType ==
  ASSUME CoroutineType, NEW t \in Tasks, Finish(t)
  PROVE  CoroutineType'
<1>1. Fits(t, "done")
  BY DEF Fits
<1>2. completed' \subseteq Tasks
  BY DEF Finish, CoroutineType
<1> QED BY <1>1, <1>2, MovePc DEF Finish

\* So does reaching an await of the coroutine's kind.
LEMMA AwaitType ==
  ASSUME CoroutineType, NEW t \in Tasks, NEW label \in Awaits, Fits(t, label),
         Await(t, label)
  PROVE  CoroutineType'
<1>1. completed' \subseteq Tasks
  BY DEF Await, CoroutineType
<1> QED BY <1>1, MovePc DEF Await

\* _handle_error_path keeps the types, whichever of its three ways it takes.
LEMMA ErrorPathType ==
  ASSUME CoroutineType, GraphType, ExcType, NEW t \in Tasks,
         NEW platform \in BOOLEAN, NEW raised \in SUBSET Refs,
         ErrorPath(t, platform, raised)
  PROVE  CoroutineType' /\ GraphType' /\ ExcType'
<1>1. t[1] \in Refs /\ t[2] \in Streams
  BY DEF Tasks
<1>2. CoroutineType'
  BY FinishType DEF ErrorPath
<1>3. GraphType'
  <2>1. ASSUME NEW skip, QueueTasks(t[1], t[2], skip) PROVE GraphType'
    BY <1>1, <2>1, QueueTasksType DEF QueueTasks
  <2>2. ASSUME UNCHANGED graphVars PROVE GraphType'
    BY <2>2 DEF GraphType, graphVars
  <2> QED BY <2>1, <2>2 DEF ErrorPath
<1>4. ExcType'
  BY <1>1 DEF ErrorPath, ExcType
<1> QED BY <1>2, <1>3, <1>4

\* A dict update keeps keys and values in their sets, and so does a pop.
LEMMA PutType ==
  ASSUME NEW D, NEW V, NEW f, DOMAIN f \subseteq D, \A x \in DOMAIN f : f[x] \in V,
         NEW k \in D, NEW v \in V
  PROVE  /\ DOMAIN Put(f, k, v) \subseteq D
         /\ \A x \in DOMAIN Put(f, k, v) : Put(f, k, v)[x] \in V
  BY DEF Put

\* A dict pop keeps keys and values in their sets.
LEMMA WithoutType ==
  ASSUME NEW D, NEW V, NEW f, DOMAIN f \subseteq D, \A x \in DOMAIN f : f[x] \in V,
         NEW K
  PROVE  /\ DOMAIN Without(f, K) \subseteq D
         /\ \A x \in DOMAIN Without(f, K) : Without(f, K)[x] \in V
  BY DEF Without, Restrict

\* The stream of an item, or a skip stream, has a well-formed id.
LEMMA ChildType ==
  ASSUME NEW s \in StreamIds, NEW r \in Scatters, NEW i \in Nat \cup {Skip}
  PROVE  Child(s, r, i) \in StreamIds
  BY DEF Child, StreamIds

\* The number of slots of one kind is a natural number.
LEMMA NSlotsType ==
  ASSUME NEW q \in Seq(Slots), NEW v
  PROVE  NSlots(q, v) \in Nat
<1>1. DOMAIN q = 1..Len(q) /\ Len(q) \in Nat
  OBVIOUS
<1>2. IsFiniteSet(DOMAIN q)
  BY <1>1, FS_Interval
<1>3. IsFiniteSet({i \in DOMAIN q : q[i] = v})
  BY <1>2, FS_Subset
<1> QED BY <1>3, FS_CardinalityType DEF NSlots

\* New streams start with an empty context, the rest keeps its type.
LEMMA OpenStreamsType ==
  ASSUME StreamType, GatherType, NEW N \in SUBSET StreamIds, OpenStreams(N)
  PROVE  /\ streams' \subseteq StreamIds
         /\ DOMAIN gathered' \subseteq Tasks
         /\ \A t \in DOMAIN gathered' : gathered'[t] \in GatherValue
<1>1. streams' \subseteq StreamIds
  BY DEF OpenStreams, StreamType
<1> DEFINE K == {t \in DOMAIN gathered : t[2] \in N}
<1>2. gathered' = Without(gathered, K)
  BY DEF OpenStreams
<1> HIDE DEF K
<1>3. QED BY <1>1, <1>2, WithoutType DEF GatherType

\* Everything but main.
BodyType == /\ CoroutineType /\ GraphType /\ ExcType /\ StreamType
            /\ GatherType /\ LoopType

\* What a step leaves alone keeps its type.
LEMMA Unchanged ==
  ASSUME BodyType
  PROVE  /\ UNCHANGED <<pc, completed>> => CoroutineType'
         /\ UNCHANGED graphVars => GraphType'
         /\ UNCHANGED excVars => ExcType'
         /\ UNCHANGED streamVars => StreamType'
         /\ UNCHANGED gatherVars => GatherType'
         /\ UNCHANGED loopVars => LoopType'
<1>1. UNCHANGED <<pc, completed>> => CoroutineType'
  BY DEF BodyType, CoroutineType, PcFits
<1>2. UNCHANGED graphVars => GraphType'
  BY DEF BodyType, GraphType, graphVars
<1>3. UNCHANGED excVars => ExcType'
  BY DEF BodyType, ExcType, excVars
<1>4. UNCHANGED streamVars => StreamType'
  BY DEF BodyType, StreamType, streamVars
<1>5. UNCHANGED gatherVars => GatherType'
  BY DEF BodyType, GatherType, gatherVars
<1>6. UNCHANGED loopVars => LoopType'
  BY DEF BodyType, LoopType, loopVars
<1> QED BY <1>1, <1>2, <1>3, <1>4, <1>5, <1>6

\* A failing task changes nothing but what its error path does.
LEMMA FailType ==
  ASSUME BodyType, NEW t \in Tasks, Fail(t)
  PROVE  BodyType'
<1>1. CoroutineType' /\ GraphType' /\ ExcType'
  BY ErrorPathType DEF Fail, BodyType
<1> QED BY <1>1, Unchanged DEF Fail, BodyType

\* A scatter that opens its skip stream keeps the types.
LEMMA ScatterSkipType ==
  ASSUME BodyType, NEW t \in Tasks, Kind[t[1]] = "scatter", ScatterSkipStream(t)
  PROVE  /\ CoroutineType' /\ GraphType' /\ ExcType' /\ GatherType' /\ LoopType'
         /\ streams' \subseteq StreamIds
<1>1. t[1] \in Scatters /\ t[1] \in Refs /\ t[2] \in StreamIds
  BY SchedulerAssumption DEF Tasks, Scatters
<1>2. Child(t[2], t[1], Skip) \in StreamIds
  BY <1>1, ChildType
<1>3. GraphType'
  BY <1>1, QueueTasksType DEF ScatterSkipStream, QueueTasks, BodyType
<1>4. CoroutineType'
  BY FinishType DEF ScatterSkipStream, BodyType
<1>5. /\ streams' \subseteq StreamIds
      /\ DOMAIN gathered' \subseteq Tasks
      /\ \A x \in DOMAIN gathered' : gathered'[x] \in GatherValue
  BY <1>2, OpenStreamsType DEF ScatterSkipStream, BodyType
<1>6. GatherType'
  BY <1>5 DEF GatherType, BodyType, ScatterSkipStream
<1>7. ExcType' /\ LoopType'
  BY Unchanged DEF ScatterSkipStream
<1> QED BY <1>3, <1>4, <1>5, <1>6, <1>7

\* A scatter opens streams with well-formed ids, and counts them.
LEMMA ScatterType ==
  ASSUME BodyType, NEW t \in Tasks, Kind[t[1]] = "scatter", Scatter(t)
  PROVE  BodyType'
<1>1. t[1] \in Scatters /\ t[1] \in Refs /\ t[2] \in StreamIds
  BY SchedulerAssumption DEF Tasks, Scatters
<1>2. PICK n \in Sizes[t[1]] :
        /\ taskStreams' = [taskStreams EXCEPT ![t] = n]
        /\ openStreams' = Put(openStreams, t, n)
        /\ \/ n = 0 /\ ScatterSkipStream(t)
           \/ /\ n > 0
              /\ LET new == NewStreams(t, n)
                 IN  /\ OpenStreams(new)
                     /\ QueueTasksIn(t[1], new, {},
                           IF t[1] \in Intervals
                             THEN new \ {Child(t[2], t[1], 0)} ELSE {})
              /\ Finish(t)
              /\ UNCHANGED <<main, excVars, storedItems, loopVars>>
  BY DEF Scatter
<1>3. n \in Nat
  BY <1>1, SchedulerAssumption
<1>4. taskStreams' \in [Tasks -> Nat]
  BY <1>2, <1>3 DEF BodyType, StreamType
<1>5. /\ DOMAIN openStreams' \subseteq Tasks
      /\ \A x \in DOMAIN openStreams' : openStreams'[x] \in Int
  <2>1. n \in Int
    BY <1>3
  <2> QED BY <1>2, <2>1, PutType DEF BodyType, StreamType
<1>6. CASE ScatterSkipStream(t)
  BY <1>4, <1>5, <1>6, ScatterSkipType DEF BodyType, StreamType
<1>7. ASSUME NEW late, OpenStreams(NewStreams(t, n)),
             QueueTasksIn(t[1], NewStreams(t, n), {}, late), Finish(t),
             UNCHANGED <<main, excVars, storedItems, loopVars>>
      PROVE  BodyType'
  <2>1. NewStreams(t, n) \in SUBSET StreamIds
    <3>1. \A i \in 0..(n-1) : Child(t[2], t[1], i) \in StreamIds
      BY <1>1, <1>3, ChildType
    <3> QED BY <3>1 DEF NewStreams
  <2>2. /\ streams' \subseteq StreamIds
        /\ DOMAIN gathered' \subseteq Tasks
        /\ \A x \in DOMAIN gathered' : gathered'[x] \in GatherValue
    BY <1>7, <2>1, OpenStreamsType DEF BodyType
  <2>3. GraphType'
    BY <1>1, <1>7, QueueTasksType DEF BodyType
  <2>4. CoroutineType'
    BY <1>7, FinishType DEF BodyType
  <2>5. GatherType'
    BY <1>7, <2>2 DEF GatherType, BodyType
  <2>6. ExcType' /\ LoopType'
    BY <1>7, Unchanged
  <2> QED BY <1>4, <1>5, <2>2, <2>3, <2>4, <2>5, <2>6 DEF BodyType, StreamType
<1> QED BY <1>2, <1>6, <1>7

\* What is read of a gather's result before its last activity is typed.
LEMMA GatherResultType ==
  ASSUME BodyType, NEW t \in Tasks, t[2] # Root, NEW g, DOMAIN g \subseteq Tasks,
         \A x \in DOMAIN g : g[x] \in GatherValue, GatherResult(t, g)
  PROVE  CoroutineType' /\ GraphType' /\ ExcType' /\ GatherType'
<1> DEFINE key == ParentGather(t)
           cur == IF key \in DOMAIN g THEN g[key]
                  ELSE [kind |-> "inline", slots |-> << >>]
<1>1. cur \in GatherValue
  BY DEF GatherValue
<1>2. key \in Tasks
  BY ParentStream
<1>3. gathered' = Put(g, key, cur)
  BY DEF GatherResult
<1>4. \/ ErrorPath(t, FALSE, {}) /\ UNCHANGED storedItems
      \/ /\ storedItems' = [storedItems EXCEPT ![t] =
                             [items  |-> NSlots(cur.slots, "item"),
                              errors |-> NSlots(cur.slots, "error")]]
         /\ Await(t, "gather_finalize")
         /\ UNCHANGED <<graphVars, excVars>>
  BY DEF GatherResult
<1> HIDE DEF key, cur
<1>5. /\ DOMAIN gathered' \subseteq Tasks
      /\ \A x \in DOMAIN gathered' : gathered'[x] \in GatherValue
  BY <1>1, <1>2, <1>3, PutType
<1>6. CASE ErrorPath(t, FALSE, {}) /\ UNCHANGED storedItems
  <2>1. CoroutineType' /\ GraphType' /\ ExcType'
    BY <1>6, ErrorPathType DEF BodyType
  <2> QED BY <1>5, <1>6, <2>1 DEF BodyType, GatherType
<1>7. CASE /\ storedItems' = [storedItems EXCEPT ![t] =
                             [items  |-> NSlots(cur.slots, "item"),
                              errors |-> NSlots(cur.slots, "error")]]
           /\ Await(t, "gather_finalize")
           /\ UNCHANGED <<graphVars, excVars>>
  <2>1. cur.slots \in Seq(Slots)
    BY <1>1 DEF GatherValue
  <2>2. NSlots(cur.slots, "item") \in Nat /\ NSlots(cur.slots, "error") \in Nat
    BY <2>1, NSlotsType
  <2>3. storedItems' \in [Tasks -> [items : Nat, errors : Nat]]
    BY <1>7, <2>2 DEF BodyType, GatherType
  <2>4. CoroutineType'
    BY <1>7, AwaitType DEF BodyType, Awaits, Fits
  <2>5. GraphType' /\ ExcType'
    BY <1>7, Unchanged
  <2> QED BY <1>5, <2>3, <2>4, <2>5 DEF GatherType
<1> QED BY <1>4, <1>6, <1>7

\* Writing a slot in range keeps the result a list of slots.
LEMMA WriteSlotType ==
  ASSUME NEW cur \in GatherValue, NEW idx, NEW slot \in Slots
  PROVE  WriteSlot(cur, idx, slot) \in GatherValue
<1>1. cur.slots \in Seq(Slots) /\ cur.kind \in {"inline", "collection"}
  BY DEF GatherValue
<1>2. PICK n \in Nat : cur.slots \in [1..n -> Slots]
  BY <1>1
<1>3. [cur.slots EXCEPT ![idx] = slot] \in [1..n -> Slots]
  BY <1>2
<1>4. [cur.slots EXCEPT ![idx] = slot] \in Seq(Slots)
  <2> DEFINE q == [cur.slots EXCEPT ![idx] = slot]
  <2>1. q \in [1..n -> Slots]
    BY <1>3
  <2> HIDE DEF q
  <2>2. q \in Seq(Slots)
    BY <2>1
  <2> QED BY <2>2 DEF q
<1> QED BY <1>1, <1>4 DEF WriteSlot, GatherValue

\* Closing a stream writes a slot of the result in place.
LEMMA CloseStreamType ==
  ASSUME BodyType, NEW t \in Tasks, t[2] # Root, ~IsSkipStream(t[2]),
         NEW slot \in Slots \cup {"none"}, CloseStream(t, slot)
  PROVE  BodyType'
<1> DEFINE key   == ParentGather(t)
           size  == taskStreams[ParentScatter(t)]
           cur   == IF key \in DOMAIN gathered THEN gathered[key]
                    ELSE [kind |-> "inline", slots |-> [i \in 1..size |-> "unset"]]
           idx   == Last(t[2])[2] + 1
           left  == openStreams[ParentScatter(t)] - 1
           wrote == IF slot = "none" THEN gathered
                    ELSE Put(gathered, key, WriteSlot(cur, idx, slot))
<1>1. key \in Tasks /\ ParentScatter(t) \in Tasks
  BY ParentStream
<1>2. cur \in GatherValue
  <2>1. size \in Nat
    BY <1>1 DEF BodyType, StreamType
  <2>2. [i \in 1..size |-> "unset"] \in Seq(Slots)
    BY <2>1 DEF Slots
  <2> QED BY <2>2 DEF BodyType, GatherType, GatherValue
<1>3. /\ DOMAIN wrote \subseteq Tasks
      /\ \A x \in DOMAIN wrote : wrote[x] \in GatherValue
  <2>1. CASE slot = "none"
    BY <2>1 DEF BodyType, GatherType
  <2>2. CASE slot # "none"
    <3>1. slot \in Slots
      BY <2>2
    <3> HIDE DEF key, cur, idx
    <3>2. WriteSlot(cur, idx, slot) \in GatherValue
      BY <1>2, <3>1, WriteSlotType
    <3> QED BY <1>1, <2>2, <3>2, PutType DEF BodyType, GatherType
  <2> QED BY <2>1, <2>2
<1>4. /\ openStreams' = [openStreams EXCEPT ![ParentScatter(t)] = left]
      /\ \/ ErrorPath(t, FALSE, {}) /\ UNCHANGED gatherVars
         \/ GatherResult(t, wrote)
         \/ /\ gathered' = wrote
            /\ Finish(t)
            /\ UNCHANGED <<graphVars, excVars, storedItems>>
      /\ UNCHANGED <<main, streams, taskStreams, loopVars>>
  BY DEF CloseStream
<1> HIDE DEF key, size, cur, idx, wrote
<1>5. StreamType'
  BY <1>4 DEF BodyType, StreamType
<1>6. LoopType'
  BY <1>4, Unchanged
<1>7. CASE ErrorPath(t, FALSE, {}) /\ UNCHANGED gatherVars
  <2>1. CoroutineType' /\ GraphType' /\ ExcType'
    BY <1>7, ErrorPathType DEF BodyType
  <2> QED BY <1>5, <1>6, <1>7, <2>1, Unchanged DEF BodyType
<1>8. CASE GatherResult(t, wrote)
  BY <1>3, <1>5, <1>6, <1>8, GatherResultType DEF BodyType
<1>9. CASE gathered' = wrote /\ Finish(t) /\ UNCHANGED <<graphVars, excVars, storedItems>>
  <2>1. GatherType'
    BY <1>3, <1>9 DEF BodyType, GatherType
  <2>2. CoroutineType'
    BY <1>9, FinishType DEF BodyType
  <2> QED BY <1>5, <1>6, <1>9, <2>1, <2>2, Unchanged DEF BodyType
<1> QED BY <1>4, <1>7, <1>8, <1>9

\* A step that only queues the children of a ref and ends the coroutine.
LEMMA QueueAndFinishType ==
  ASSUME BodyType, NEW t \in Tasks, NEW stream, NEW skip,
         QueueTasks(t[1], stream, skip), Finish(t)
  PROVE  CoroutineType' /\ GraphType'
<1>1. t[1] \in Refs
  BY DEF Tasks
<1>2. GraphType'
  BY <1>1, QueueTasksType DEF QueueTasks, BodyType
<1> QED BY <1>2, FinishType DEF BodyType

\* A step that only moves the coroutine on to an await.
LEMMA AwaitOnlyType ==
  ASSUME BodyType, NEW t \in Tasks, NEW label \in Awaits, Fits(t, label),
         Await(t, label),
         UNCHANGED <<graphVars, excVars, streamVars, gatherVars, loopVars>>
  PROVE  BodyType'
<1>1. CoroutineType'
  BY AwaitType DEF BodyType
<1> QED BY <1>1, Unchanged DEF BodyType

\* A gather in a skip stream awaits its empty result or skips on.
LEMMA GatherInSkipStreamType ==
  ASSUME BodyType, NEW t \in Tasks, t[2] # Root, GatherInSkipStream(t)
  PROVE  BodyType'
<1>1. CASE Await(t, "gather_empty")
           /\ UNCHANGED <<main, graphVars, excVars, streamVars, gatherVars, loopVars>>
  <2>1. "gather_empty" \in Awaits /\ Fits(t, "gather_empty")
    BY DEF Awaits, Fits
  <2> QED BY <1>1, <2>1, AwaitOnlyType
<1>2. CASE QueueTasks(t[1], t[2], OutEdges(t[1])) /\ Finish(t)
           /\ UNCHANGED <<main, excVars, streamVars, gatherVars, loopVars>>
  <2>1. CoroutineType' /\ GraphType'
    BY <1>2, QueueAndFinishType
  <2> QED BY <1>2, <2>1, Unchanged DEF BodyType
<1> QED BY <1>1, <1>2 DEF GatherInSkipStream

\* Entering _handle_gather, skipping or not, keeps the types in every stream.
LEMMA GatherEnteredType ==
  ASSUME BodyType, NEW t \in Tasks, GatherSkipped(t) \/ GatherReached(t)
  PROVE  BodyType'
<1>1. CASE Fail(t)
  BY <1>1, FailType
<1>2. CASE IsSkipStream(t[2]) /\ GatherInSkipStream(t)
  BY <1>2, GatherInSkipStreamType DEF IsSkipStream
<1>3. CASE t[2] # Root /\ ~IsSkipStream(t[2]) /\ CloseStream(t, SkippedSlot(t[2]))
  <2>1. SkippedSlot(t[2]) \in Slots \cup {"none"}
    BY DEF SkippedSlot, Slots
  <2> QED BY <1>3, <2>1, CloseStreamType
<1>4. CASE /\ t[2] # Root /\ ~IsSkipStream(t[2])
           /\ Await(t, "gather_item")
           /\ UNCHANGED <<main, graphVars, excVars, streamVars, gatherVars, loopVars>>
  <2>1. "gather_item" \in Awaits /\ Fits(t, "gather_item")
    BY <1>4 DEF Awaits, Fits
  <2> QED BY <1>4, <2>1, AwaitOnlyType
<1> QED BY <1>1, <1>2, <1>3, <1>4 DEF GatherSkipped, GatherReached

\* What finalize_gather_activity returns is a gather result: dropping nulls never
\* takes away more than was gathered.
LEMMA FinalizeGatherType ==
  ASSUME NEW r, NEW got \in [items : Nat, errors : Nat], NEW nulls \in 0..got.items
  PROVE  FinalizeGather(r, got, nulls) \in GatherValue
<1> DEFINE kept == (IF r \in DropNulls THEN got.items - nulls ELSE got.items)
                     + (IF r \in KeepErrors THEN got.errors ELSE 0)
<1>1. kept \in Nat
  OBVIOUS
<1> HIDE DEF kept
<1>2. [i \in 1..kept |-> "raw"] \in Seq(Slots)
  BY <1>1 DEF Slots
<1> USE DEF kept
<1> QED BY <1>2 DEF FinalizeGather, GatherValue

\* Putting the result in the parent stream, or raising, keeps the types.
LEMMA GatherFinalizeType ==
  ASSUME BodyType, NEW t \in Tasks, GatherFinalize(t)
  PROVE  BodyType'
<1>1. t[2] # Root /\ t[1] \in Refs
  BY DEF GatherFinalize, BodyType, CoroutineType, PcFits, Fits, Tasks
<1>2. CASE /\ ErrorPath(t, FALSE, {t[1]})
           /\ UNCHANGED <<gathered, streamVars, storedItems, loopVars>>
  <2>1. CoroutineType' /\ GraphType' /\ ExcType'
    BY <1>1, <1>2, ErrorPathType DEF BodyType
  <2> QED BY <1>2, <2>1, Unchanged DEF BodyType, gatherVars
<1>3. ASSUME NEW result \in GatherValue,
             gathered' = Put(gathered, ParentGather(t), result),
             Await(t, "gather_exec"),
             UNCHANGED <<graphVars, excVars, streamVars, storedItems, loopVars>>
      PROVE  BodyType'
  <2>1. ParentGather(t) \in Tasks
    BY <1>1, ParentStream
  <2>2. GatherType'
    BY <1>3, <2>1, PutType DEF BodyType, GatherType
  <2>3. "gather_exec" \in Awaits /\ Fits(t, "gather_exec")
    BY <1>1 DEF Awaits, Fits
  <2>4. CoroutineType'
    BY <1>3, <2>3, AwaitType DEF BodyType
  <2> QED BY <1>3, <2>2, <2>4, Unchanged DEF BodyType
<1>4. \A nulls \in 0..storedItems[t].items :
        FinalizeGather(t[1], storedItems[t], nulls) \in GatherValue
  <2>1. storedItems[t] \in [items : Nat, errors : Nat]
    BY DEF BodyType, GatherType
  <2> QED BY <2>1, FinalizeGatherType
<1>5. \/ ErrorPath(t, FALSE, {t[1]}) /\ UNCHANGED gathered
      \/ /\ \E nulls \in 0..storedItems[t].items :
              gathered' = Put(gathered, ParentGather(t),
                              FinalizeGather(t[1], storedItems[t], nulls))
         /\ Await(t, "gather_exec")
         /\ UNCHANGED <<graphVars, excVars>>
  BY DEF GatherFinalize
<1>6. UNCHANGED <<streamVars, storedItems, loopVars>>
  BY DEF GatherFinalize
<1> QED BY <1>2, <1>3, <1>4, <1>5, <1>6

\* So does the result of a gather over an empty collection.
LEMMA GatherEmptyType ==
  ASSUME BodyType, NEW t \in Tasks, GatherEmpty(t)
  PROVE  BodyType'
<1>1. t[2] # Root
  BY DEF GatherEmpty, BodyType, CoroutineType, PcFits, Fits
<1> DEFINE result == [kind |-> IF Externalize THEN "collection" ELSE "inline",
                      slots |-> << >>]
<1>2. result \in GatherValue
  BY DEF GatherValue
<1>3. gathered' = Put(gathered, ParentGather(t), result)
  BY DEF GatherEmpty
<1> HIDE DEF result
<1>4. ParentGather(t) \in Tasks
  BY <1>1, ParentStream
<1>5. GatherType'
  <2>1. /\ DOMAIN gathered' \subseteq Tasks
        /\ \A x \in DOMAIN gathered' : gathered'[x] \in GatherValue
    BY <1>2, <1>3, <1>4, PutType DEF BodyType, GatherType
  <2> QED BY <2>1 DEF GatherEmpty, BodyType, GatherType
<1>6. CoroutineType' /\ GraphType'
  BY QueueAndFinishType DEF GatherEmpty
<1> QED BY <1>5, <1>6, Unchanged DEF GatherEmpty, BodyType

\* A loop end closes a loop, and a graph with a loop passed the scope checks.
LEMMA LoopScopes ==
  ASSUME NEW x \in LoopEnds
  PROVE  /\ Acyclic /\ ValidScopes /\ ValidLoops
         /\ RegionStart[x] \in LoopStarts
         /\ RegionStart[x] \in Refs
<1>1. IsFiniteSet(LoopEnds)
  BY FS_Subset, GraphAssumption DEF LoopEnds
<1>2. Cardinality(LoopEnds) # 0
  BY <1>1, FS_EmptySet
<1>3. LoopStarts # {}
  BY <1>2, FS_EmptySet, GraphIsValid DEF ValidGraph
<1>4. Acyclic /\ ValidScopes /\ ValidLoops
  BY <1>3, GraphIsValid DEF ValidGraph
<1> QED BY <1>4 DEF ValidLoops, LoopStarts

\* The key of a loop end's loop is a task: the loop's start in its stream.
LEMMA LoopKeyType ==
  ASSUME NEW t \in Tasks, t[1] \in LoopEnds
  PROVE  LoopKey(t) \in Tasks
<1>1. RegionStart[t[1]] \in Refs
  BY LoopScopes
<1> QED BY <1>1 DEF LoopKey, Tasks

\* _reset_loop_iteration_state and the next index keep the types.
LEMMA NextIterationType ==
  ASSUME BodyType, NEW t \in Tasks, t[1] \in LoopEnds, NEW region,
         NEW next \in Nat, NextIteration(t, region, next)
  PROVE  BodyType'
<1> DEFINE s == t[2]
           start == <<RegionStart[t[1]], s>>
           gone == LoopStreams(region, s)
           Here(k) == k[2] \in gone \/ (k[2] = s /\ k[1] \in region)
<1>1. start \in Tasks
  BY LoopKeyType DEF LoopKey
<1>2. CoroutineType'
  <2>1. completed' \subseteq Tasks
    BY DEF NextIteration, BodyType, CoroutineType
  <2>2. pc' = [pc EXCEPT ![t] = "done"]
    BY DEF NextIteration
  <2>3. Fits(t, "done")
    BY DEF Fits
  <2> QED BY <2>1, <2>2, <2>3, MovePc DEF BodyType
<1>3. GraphType'
  <2>1. queued' \in [Tasks -> Nat]
    BY <1>1 DEF NextIteration, BodyType, GraphType
  <2>2. indegrees' \in [Tasks -> Int]
    <3>1. \A k \in Tasks : /\ indegrees[k] \in Int /\ NDeps(k[1]) \in Int
                           /\ Cardinality(InternalDeps(k[1], region)) \in Int
      BY CountsAreNat DEF BodyType, GraphType, Tasks
    <3>2. indegrees' = [k \in Tasks |->
                         IF k[2] \in gone THEN NDeps(k[1])
                         ELSE IF Here(k) THEN Cardinality(InternalDeps(k[1], region))
                         ELSE indegrees[k]]
      BY DEF NextIteration
    <3> HIDE DEF Here, gone
    <3> QED BY <3>1, <3>2
  <2>3. edges' \in [Edges \X Streams -> Markers]
    <3>1. \A x \in Edges \X Streams : edges[x] \in Markers
      BY DEF BodyType, GraphType
    <3> QED BY <3>1 DEF NextIteration, Markers
  <2>4. delayed' \subseteq Tasks
    BY DEF NextIteration, BodyType, GraphType
  <2> QED BY <2>1, <2>2, <2>3, <2>4 DEF GraphType
<1>4. ExcType'
  BY DEF NextIteration, BodyType, ExcType
<1>5. StreamType'
  <2>1. streams' \subseteq StreamIds
    BY DEF NextIteration, BodyType, StreamType
  <2>2. taskStreams' \in [Tasks -> Nat]
    <3>1. \A k \in Tasks : taskStreams[k] \in Nat
      BY DEF BodyType, StreamType
    <3>2. taskStreams' = [k \in Tasks |-> IF Here(k) THEN 0 ELSE taskStreams[k]]
      BY DEF NextIteration
    <3> HIDE DEF Here
    <3> QED BY <3>1, <3>2
  <2>3. openStreams' = Without(openStreams, {k \in DOMAIN openStreams : Here(k)})
    BY DEF NextIteration
  <2> HIDE DEF Here
  <2>4. /\ DOMAIN openStreams' \subseteq Tasks
        /\ \A x \in DOMAIN openStreams' : openStreams'[x] \in Int
    BY <2>3, WithoutType DEF BodyType, StreamType
  <2> QED BY <2>1, <2>2, <2>4 DEF StreamType
<1>6. GatherType'
  <2>1. gathered' = Without(gathered, {k \in DOMAIN gathered : k[2] \in gone})
    BY DEF NextIteration
  <2> HIDE DEF gone
  <2>2. /\ DOMAIN gathered' \subseteq Tasks
        /\ \A x \in DOMAIN gathered' : gathered'[x] \in GatherValue
    BY <2>1, WithoutType DEF BodyType, GatherType
  <2> QED BY <2>2 DEF NextIteration, BodyType, GatherType
<1>7. LoopType'
  <2>1. \A k \in Tasks : loopIndices[k] \in Nat
    BY DEF BodyType, LoopType
  <2>2. loopIndices' \in [Tasks -> Nat]
    BY <2>1 DEF NextIteration
  <2> QED BY <2>2 DEF NextIteration, BodyType, LoopType
<1> QED BY <1>2, <1>3, <1>4, <1>5, <1>6, <1>7 DEF BodyType

\* _handle_loop_start keeps the types.
LEMMA LoopStartType ==
  ASSUME BodyType, NEW t \in Tasks, LoopStartSkipped(t) \/ LoopStartReached(t)
  PROVE  BodyType'
<1>1. CASE LoopStartSkipped(t)
  <2>1. CoroutineType' /\ GraphType'
    BY <1>1, QueueAndFinishType DEF LoopStartSkipped
  <2>2. LoopType'
    BY <1>1 DEF LoopStartSkipped, BodyType, LoopType
  <2> QED BY <1>1, <2>1, <2>2, Unchanged DEF LoopStartSkipped, BodyType
<1>2. CASE LoopStartReached(t)
  <2>1. "loop_start" \in Awaits /\ Fits(t, "loop_start")
    BY DEF Awaits, Fits
  <2>2. CoroutineType'
    BY <1>2, <2>1, AwaitType DEF LoopStartReached, BodyType
  <2>3. LoopType'
    BY <1>2 DEF LoopStartReached, BodyType, LoopType
  <2> QED BY <1>2, <2>2, <2>3, Unchanged DEF LoopStartReached, BodyType
<1> QED BY <1>1, <1>2

\* _handle_loop_end keeps the types up to its first await.
LEMMA LoopEndType ==
  ASSUME BodyType, NEW t \in Tasks, t[1] \in LoopEnds,
         LoopEndSkipped(t) \/ LoopEndReached(t) \/ LoopStop(t)
  PROVE  BodyType'
<1>1. CASE Fail(t)
  BY <1>1, FailType
<1>2. loopIndices[LoopKey(t)] \in Nat
  BY LoopKeyType DEF BodyType, LoopType
<1>3. ASSUME NEW skip, QueueTasks(t[1], t[2], skip), Finish(t),
             loopStartSkips' \subseteq loopStartSkips,
             loopIndices' = [loopIndices EXCEPT ![LoopKey(t)] = 0],
             UNCHANGED <<excVars, streamVars, gatherVars, currentIndex>>
      PROVE  BodyType'
  <2>1. CoroutineType' /\ GraphType'
    BY <1>3, QueueAndFinishType
  <2>2. LoopType'
    BY <1>3 DEF BodyType, LoopType
  <2> QED BY <1>3, <2>1, <2>2, Unchanged DEF BodyType
<1>4. CASE LoopEndSkipped(t)
  BY <1>1, <1>3, <1>4 DEF LoopEndSkipped, SuccessPath
<1>5. CASE LoopStop(t)
  BY <1>3, <1>5 DEF LoopStop, SuccessPath
<1>6. CASE /\ currentIndex' = [currentIndex EXCEPT ![t] = loopIndices[LoopKey(t)]]
           /\ Await(t, "loop_cond")
           /\ UNCHANGED <<main, graphVars, excVars, streamVars, gatherVars,
                          loopIndices, loopStartSkips>>
  <2>1. "loop_cond" \in Awaits /\ Fits(t, "loop_cond")
    BY DEF Awaits, Fits
  <2>2. CoroutineType'
    BY <1>6, <2>1, AwaitType DEF BodyType
  <2>3. LoopType'
    BY <1>2, <1>6 DEF BodyType, LoopType
  <2> QED BY <1>6, <2>2, <2>3, Unchanged DEF BodyType
<1> QED BY <1>1, <1>4, <1>5, <1>6 DEF LoopEndReached

\* _handle_skip_path keeps the types, kind by kind.
LEMMA SkipPathType ==
  ASSUME BodyType, NEW t \in Tasks, SkipPath(t)
  PROVE  BodyType'
<1>1. CASE LoopStartSkipped(t)
  BY <1>1, LoopStartType
<1>2. CASE Kind[t[1]] = "loop_end" /\ LoopEndSkipped(t)
  BY <1>2, LoopEndType DEF LoopEnds, Tasks
<1>3. CASE /\ Kind[t[1]] = "scatter" /\ ScatterSkipStream(t)
           /\ UNCHANGED <<taskStreams, openStreams>>
  BY <1>3, ScatterSkipType DEF BodyType, StreamType
<1>4. CASE GatherSkipped(t)
  BY <1>4, GatherEnteredType
<1>5. CASE /\ QueueTasks(t[1], t[2], OutEdges(t[1])) /\ Finish(t)
           /\ UNCHANGED <<main, excVars, streamVars, gatherVars, loopVars>>
  <2>1. CoroutineType' /\ GraphType'
    BY <1>5, QueueAndFinishType
  <2> QED BY <1>5, <2>1, Unchanged DEF BodyType
<1> QED BY <1>1, <1>2, <1>3, <1>4, <1>5 DEF SkipPath

\* So does handing the task to the handler of its kind.
LEMMA DispatchType ==
  ASSUME BodyType, NEW t \in Tasks, Dispatch(t)
  PROVE  BodyType'
<1>1. CASE LoopStartReached(t)
  BY <1>1, LoopStartType
<1>2. CASE Kind[t[1]] = "loop_end" /\ LoopEndReached(t)
  BY <1>2, LoopEndType DEF LoopEnds, Tasks
<1>3. CASE Kind[t[1]] = "scatter" /\ AwaitOnly(t, "scatter")
  <2>1. "scatter" \in Awaits /\ Fits(t, "scatter")
    BY <1>3 DEF Awaits, Fits, Scatters, Tasks
  <2> QED BY <1>3, <2>1, AwaitOnlyType DEF AwaitOnly
<1>4. CASE GatherReached(t)
  BY <1>4, GatherEnteredType
<1>5. CASE AwaitOnly(t, "execute")
  <2>1. "execute" \in Awaits /\ Fits(t, "execute")
    BY DEF Awaits, Fits
  <2> QED BY <1>5, <2>1, AwaitOnlyType DEF AwaitOnly
<1> QED BY <1>1, <1>2, <1>3, <1>4, <1>5 DEF Dispatch

\* And the reachability check in front of it.
LEMMA CheckReachableType ==
  ASSUME BodyType, NEW t \in Tasks, CheckReachable(t)
  PROVE  BodyType'
<1>1. CASE AwaitOnly(t, "delay")
  <2>1. "delay" \in Awaits /\ Fits(t, "delay")
    BY DEF Awaits, Fits
  <2> QED BY <1>1, <2>1, AwaitOnlyType DEF AwaitOnly
<1> QED BY <1>1, FailType, DispatchType DEF CheckReachable

\* One step of a coroutine, action by action.
LEMMA ResumeType ==
  ASSUME BodyType, NEW t \in Tasks, Resume(t)
  PROVE  BodyType'
<1>1. CASE Schedule(t)
  <2>1. "run_if" \in Awaits /\ Fits(t, "run_if")
    BY DEF Awaits, Fits
  <2>2. CASE AwaitOnly(t, "run_if")
    BY <2>1, <2>2, AwaitOnlyType DEF AwaitOnly
  <2> QED BY <1>1, <2>2, SkipPathType, CheckReachableType DEF Schedule
<1>2. CASE RunIfHolds(t) \/ RunIfSkips(t) \/ Delay(t)
  BY <1>2, SkipPathType, CheckReachableType, DispatchType
     DEF RunIfHolds, RunIfSkips, Delay
<1>3. CASE Fail(t)
  BY <1>3, FailType
<1>4. CASE Execute(t)
  <2>1. CoroutineType' /\ GraphType'
    BY <1>4, QueueAndFinishType DEF Execute, SuccessPath
  <2> QED BY <1>4, <2>1, Unchanged DEF Execute, BodyType
<1>5. CASE ExecuteFailsPlatform(t)
  <2>1. CoroutineType' /\ GraphType' /\ ExcType'
    BY <1>5, ErrorPathType DEF ExecuteFailsPlatform, BodyType
  <2> QED BY <1>5, <2>1, Unchanged DEF ExecuteFailsPlatform, BodyType
<1>6. CASE Scatter(t)
  <2>1. Kind[t[1]] = "scatter"
    BY <1>6 DEF Scatter, BodyType, CoroutineType, PcFits, Fits, Scatters
  <2> QED BY <1>6, <2>1, ScatterType
<1>7. CASE GatherItem(t)
  <2>1. t[2] # Root /\ ~IsSkipStream(t[2])
    BY <1>7 DEF GatherItem, BodyType, CoroutineType, PcFits, Fits
  <2>2. "item" \in Slots \cup {"none"}
    BY DEF Slots
  <2> QED BY <1>7, <2>1, <2>2, CloseStreamType DEF GatherItem
<1>8. CASE GatherFinalize(t)
  BY <1>8, GatherFinalizeType
<1>9. CASE GatherExec(t)
  <2>1. CoroutineType' /\ GraphType'
    BY <1>9, QueueAndFinishType DEF GatherExec
  <2> QED BY <1>9, <2>1, Unchanged DEF GatherExec, BodyType
<1>10. CASE GatherEmpty(t)
  BY <1>10, GatherEmptyType
<1>11. CASE LoopCondition(t)
  <2>1. t[1] \in LoopEnds
    BY <1>11 DEF LoopCondition, BodyType, CoroutineType, PcFits, Fits
  <2>2. \A next \in {"loop_continue", "loop_stop"} :
          next \in Awaits /\ Fits(t, next)
    BY <2>1 DEF Awaits, Fits
  <2> QED BY <1>11, <2>2, AwaitOnlyType DEF LoopCondition
<1>12. CASE LoopContinue(t)
  <2>1. t[1] \in LoopEnds
    BY <1>12 DEF LoopContinue, BodyType, CoroutineType, PcFits, Fits
  <2>2. NextIndex(currentIndex[t]) \in Nat
    BY DEF NextIndex, BodyType, LoopType
  <2> QED BY <1>12, <2>1, <2>2, FailType, NextIterationType DEF LoopContinue
<1>13. CASE LoopStop(t)
  <2>1. t[1] \in LoopEnds
    BY <1>13 DEF LoopStop, BodyType, CoroutineType, PcFits, Fits
  <2> QED BY <1>13, <2>1, LoopEndType
<1> QED BY <1>1, <1>2, <1>3, <1>4, <1>5, <1>6, <1>7, <1>8, <1>9, <1>10, <1>11,
           <1>12, <1>13
        DEF Resume, RunIfFails, ExecuteFails, ScatterFails, GatherItemFails,
            GatherFinalizeFails, LoopFails

\* A step of a coroutine, resumed or cancelled, keeps the types.
LEMMA StepType ==
  ASSUME BodyType, NEW t \in Tasks, Step(t)
  PROVE  BodyType'
<1>1. CASE Cancelled(t)
  <2>1. completed' \subseteq Tasks
    BY <1>1 DEF Cancelled, BodyType, CoroutineType
  <2>2. Fits(t, "done")
    BY DEF Fits
  <2>3. CoroutineType'
    BY <1>1, <2>1, <2>2, MovePc DEF Cancelled, BodyType
  <2> QED BY <1>1, <2>3, Unchanged DEF Cancelled, BodyType
<1> QED BY <1>1, ResumeType, FailType DEF Step, CancelledAsError

\* A step of the main coroutine keeps the types.
LEMMA MainStepType ==
  ASSUME BodyType, Main
  PROVE  BodyType'
<1>1. CASE Spawn
  <2>1. PICK S \in SUBSET Queued :
          /\ queued' = [t \in Tasks |-> IF t \in S THEN queued[t] - 1 ELSE queued[t]]
          /\ pc' = [t \in Tasks |-> IF t \in S THEN "start"
                                    ELSE IF pc[t] = "done" THEN "idle" ELSE pc[t]]
    BY <1>1 DEF Spawn
  <2>2. \A t \in Tasks : /\ queued[t] \in Nat
                         /\ t \in S => queued[t] > 0
    BY DEF BodyType, GraphType, Queued
  <2>3. GraphType'
    <3>1. queued' \in [Tasks -> Nat]
      BY <2>1, <2>2
    <3> QED BY <1>1, <3>1 DEF Spawn, BodyType, GraphType
  <2>4. \A t \in Tasks : pc[t] \in Awaits \cup {"idle", "start", "done"}
    BY DEF BodyType, CoroutineType
  <2>5. pc' \in [Tasks -> Awaits \cup {"idle", "start", "done"}]
    BY <2>1, <2>4
  <2>6. PcFits'
    BY <2>1 DEF BodyType, CoroutineType, PcFits, Fits
  <2>7. CoroutineType'
    BY <1>1, <2>5, <2>6 DEF Spawn, BodyType, CoroutineType
  <2> QED BY <1>1, <2>3, <2>7, Unchanged DEF Spawn, BodyType
<1>2. CASE ReturnNone \/ ReturnExceptions
  <2>1. pc' = [t \in Tasks |-> "idle"] /\ UNCHANGED completed
    BY <1>2 DEF ReturnNone, ReturnExceptions
  <2>2. CoroutineType'
    BY <2>1 DEF BodyType, CoroutineType, PcFits, Fits
  <2> QED BY <1>2, <2>2, Unchanged DEF ReturnNone, ReturnExceptions, BodyType
<1>3. CASE CancelPending
  BY <1>3, Unchanged DEF CancelPending, BodyType
<1> QED BY <1>1, <1>2, <1>3 DEF Main

\* Every step but the main coroutine's leaves `main` alone.
LEMMA StepKeepsMain ==
  ASSUME NEW t \in Tasks, Step(t)
  PROVE  UNCHANGED main
  BY DEF Step, Resume, Cancelled, CancelledAsError, Schedule, RunIfHolds, RunIfSkips,
         RunIfFails, Delay, Execute, ExecuteFails, ExecuteFailsPlatform, Scatter,
         ScatterFails, GatherItem, GatherItemFails, GatherFinalize,
         GatherFinalizeFails, GatherExec, GatherEmpty, LoopCondition, LoopContinue,
         LoopStop, LoopFails, Fail, SkipPath, CheckReachable, Dispatch, AwaitOnly,
         LoopStartSkipped, LoopStartReached, LoopEndSkipped, LoopEndReached,
         ScatterSkipStream, GatherSkipped, GatherReached, GatherInSkipStream,
         CloseStream, NextIteration

\* The initial state satisfies the inductive invariant.
LEMMA InitType == Init => TypeOK /\ PcFits
<1> SUFFICES ASSUME Init PROVE TypeOK /\ PcFits
  OBVIOUS
<1>1. CoroutineType
  BY DEF Init, CoroutineType, PcFits, Fits
<1>2. GraphType
  <2>1. \A t \in Tasks : NDeps(t[1]) \in Int
    BY CountsAreNat DEF Tasks
  <2> QED BY <2>1 DEF Init, GraphType, Markers
<1>3. ExcType /\ LoopType
  BY DEF Init, ExcType, LoopType
<1>4. StreamType
  BY SchedulerAssumption DEF Init, StreamType
<1>5. GatherType
  BY DEF Init, GatherType
<1> QED BY <1>1, <1>2, <1>3, <1>4, <1>5, TypeGroups DEF Init

\* Every step preserves the inductive invariant.
LEMMA NextType == TypeOK /\ PcFits /\ [Next]_vars => TypeOK' /\ PcFits'
<1> SUFFICES ASSUME TypeOK, PcFits, [Next]_vars PROVE TypeOK' /\ PcFits'
  OBVIOUS
<1>1. BodyType /\ main \in {"spawn", "wait", "cancel", "done", "failed"}
  BY TypeGroups DEF BodyType
<1>2. BodyType' /\ main' \in {"spawn", "wait", "cancel", "done", "failed"}
  <2>1. CASE Main
    <3>1. BodyType'
      BY <1>1, <2>1, MainStepType
    <3> QED BY <2>1, <3>1 DEF Main, Spawn, ReturnNone, CancelPending, ReturnExceptions
  <2>2. CASE \E t \in Tasks : Step(t)
    BY <1>1, <2>2, StepType, StepKeepsMain
  <2>3. CASE UNCHANGED vars
    BY <1>1, <2>3, Unchanged DEF vars, BodyType
  <2> QED BY <2>1, <2>2, <2>3 DEF Next, Terminated
<1> QED BY <1>2 DEF BodyType, TypeOK, CoroutineType, GraphType, ExcType, StreamType,
                  GatherType, GatherValue, LoopType

\* Type correctness of the scheduler's bookkeeping, whatever the graph: every
\* coroutine's continuation finds its task, parent stream and loop key well
\* formed, and counters stay in their ranges.
THEOREM TypeCorrect == Spec => []TypeOK
<1> DEFINE IInv == TypeOK /\ PcFits
<1>1. Init => IInv
  BY InitType
<1>2. IInv /\ [Next]_vars => IInv'
  BY NextType
<1>3. IInv => TypeOK
  OBVIOUS
<1> QED BY <1>1, <1>2, <1>3, PTL DEF Spec

-----------------------------------------------------------------------------
(* Do-while loops are bounded.                                             *)

\* The only steps that touch a loop index: a loop end closes its loop, or
\* starts its next iteration.
LEMMA LoopIndexSteps ==
  ASSUME TypeOK, PcFits, NEW t \in Tasks, Step(t)
  PROVE  \/ UNCHANGED loopIndices
         \/ /\ t[1] \in LoopEnds
            /\ loopIndices' = [loopIndices EXCEPT ![LoopKey(t)] = 0]
         \/ /\ t[1] \in LoopEnds
            /\ NextIndex(currentIndex[t]) < MaxIterations[t[1]]
            /\ NextIteration(t, Region[t[1]], NextIndex(currentIndex[t]))
<1>1. CASE LoopContinue(t)
  <2>1. t[1] \in LoopEnds
    BY <1>1 DEF LoopContinue, PcFits, Fits
  <2> QED BY <1>1, <2>1 DEF LoopContinue, Fail, loopVars
<1>2. CASE LoopStop(t)
  <2>1. t[1] \in LoopEnds
    BY <1>2 DEF LoopStop, PcFits, Fits
  <2> QED BY <1>2, <2>1 DEF LoopStop
<1>3. CASE SkipPath(t)
  <2>1. CASE Kind[t[1]] = "loop_end" /\ LoopEndSkipped(t)
    BY <2>1 DEF LoopEndSkipped, LoopEnds, Tasks, Fail, loopVars
  <2> QED BY <1>3, <2>1 DEF SkipPath, LoopStartSkipped, ScatterSkipStream, GatherSkipped,
                            GatherInSkipStream, CloseStream, Fail, loopVars
<1>4. CASE Dispatch(t)
  BY <1>4 DEF Dispatch, LoopStartReached, LoopEndReached, AwaitOnly, GatherReached,
              GatherInSkipStream, Fail, loopVars
<1>5. CASE CheckReachable(t)
  BY <1>4, <1>5 DEF CheckReachable, AwaitOnly, Fail, loopVars
<1>6. CASE Schedule(t) \/ RunIfHolds(t) \/ RunIfSkips(t) \/ Delay(t)
  BY <1>3, <1>4, <1>5, <1>6 DEF Schedule, RunIfHolds, RunIfSkips, Delay, AwaitOnly,
                                loopVars
<1>7. CASE \/ RunIfFails(t) \/ Execute(t) \/ ExecuteFails(t)
           \/ ExecuteFailsPlatform(t) \/ Scatter(t) \/ ScatterFails(t)
           \/ GatherItem(t) \/ GatherItemFails(t) \/ GatherFinalize(t)
           \/ GatherFinalizeFails(t) \/ GatherExec(t) \/ GatherEmpty(t)
           \/ LoopCondition(t) \/ LoopFails(t)
           \/ Cancelled(t) \/ CancelledAsError(t)
  BY <1>7 DEF RunIfFails, Execute, ExecuteFails, ExecuteFailsPlatform, Scatter,
              ScatterFails, ScatterSkipStream, GatherItem, GatherItemFails,
              CloseStream, GatherFinalize, GatherFinalizeFails, GatherExec,
              GatherEmpty, LoopCondition, LoopFails, Cancelled, CancelledAsError,
              Fail, loopVars
<1> QED BY <1>1, <1>2, <1>6, <1>7 DEF Step, Resume

\* Every step keeps every loop index below max_iterations: only the loop's own
\* end sets it, and the region starts of two loop ends differ.
LEMMA LoopBoundedStep ==
  ASSUME TypeOK, PcFits, LoopBounded, [Next]_vars
  PROVE  LoopBounded'
<1>1. ASSUME UNCHANGED loopIndices PROVE LoopBounded'
  BY <1>1 DEF LoopBounded
<1>2. \A x \in LoopEnds : MaxIterations[x] \in Nat /\ MaxIterations[x] > 0
  BY SchedulerAssumption
<1>3. \A x \in LoopEnds, s \in Streams : <<RegionStart[x], s>> \in Tasks
  BY LoopScopes DEF Tasks
<1>4. ASSUME NEW t \in Tasks, t[1] \in LoopEnds,
             loopIndices' = [loopIndices EXCEPT ![LoopKey(t)] = 0]
      PROVE  LoopBounded'
  BY <1>2, <1>3, <1>4 DEF LoopBounded, TypeOK
<1>5. ASSUME NEW t \in Tasks, t[1] \in LoopEnds,
             NextIndex(currentIndex[t]) < MaxIterations[t[1]],
             NextIteration(t, Region[t[1]], NextIndex(currentIndex[t]))
      PROVE  LoopBounded'
  <2> DEFINE next == NextIndex(currentIndex[t])
             start == <<RegionStart[t[1]], t[2]>>
             Inner(k) == k[1] \in Region[t[1]] /\ IsPrefix(t[2], k[2])
  <2>1. loopIndices' = [k \in Tasks |-> IF k = start THEN next
                                        ELSE IF Inner(k) THEN 0 ELSE loopIndices[k]]
    BY <1>5 DEF NextIteration
  <2> HIDE DEF Inner, next
  <2> SUFFICES ASSUME NEW x \in LoopEnds, NEW s \in Streams
               PROVE  loopIndices'[<<RegionStart[x], s>>] < MaxIterations[x]
    BY DEF LoopBounded
  <2>2. CASE <<RegionStart[x], s>> = start
    \* No two loop ends close the same loop.
    <3>1. x = t[1]
      BY <1>5, <2>2, LoopScopes DEF ValidLoops
    <3> QED BY <1>3, <1>5, <2>1, <2>2, <3>1 DEF next
  <2>3. CASE <<RegionStart[x], s>> # start
    <3>1. loopIndices[<<RegionStart[x], s>>] < MaxIterations[x]
      BY DEF LoopBounded
    <3> QED BY <1>2, <1>3, <2>1, <2>3, <3>1
  <2> QED BY <2>2, <2>3
<1>6. CASE Main
  BY <1>1, <1>6 DEF Main, Spawn, ReturnNone, CancelPending, ReturnExceptions, loopVars
<1>7. CASE \E t \in Tasks : Step(t)
  BY <1>1, <1>4, <1>5, <1>7, LoopIndexSteps
<1>8. CASE UNCHANGED vars
  BY <1>1, <1>8 DEF vars, loopVars
<1> QED BY <1>6, <1>7, <1>8 DEF Next, Terminated

\* A do-while loop never runs more than max_iterations times, in whatever
\* stream and however its body, nested loops and other branches interleave
\* with the awaits between _handle_loop_end's read of the index and its write.
THEOREM LoopsBounded == Spec => []LoopBounded
<1> DEFINE IInv == TypeOK /\ PcFits /\ LoopBounded
<1>1. Init => IInv
  <2>1. Init => LoopBounded
    <3> SUFFICES ASSUME Init, NEW x \in LoopEnds, NEW s \in Streams
                 PROVE  loopIndices[<<RegionStart[x], s>>] < MaxIterations[x]
      BY DEF LoopBounded
    <3>1. <<RegionStart[x], s>> \in Tasks
      BY LoopScopes DEF Tasks
    <3>2. MaxIterations[x] \in Nat /\ MaxIterations[x] > 0
      BY SchedulerAssumption
    <3> QED BY <3>1, <3>2 DEF Init
  <2> QED BY <2>1, InitType
<1>2. IInv /\ [Next]_vars => IInv'
  BY NextType, LoopBoundedStep
<1>3. IInv => LoopBounded
  OBVIOUS
<1> QED BY <1>1, <1>2, <1>3, PTL DEF Spec

-----------------------------------------------------------------------------
(* The cap on coroutines holds.                                            *)

\* A coroutine's step moves that coroutine, which was running, and no other.
LEMMA StepMovesOne ==
  ASSUME NEW t \in Tasks, Step(t)
  PROVE  Running(t) /\ \E label : pc' = [pc EXCEPT ![t] = label]
<1>1. Running(t)
  BY DEF Step, Resume, Cancelled, CancelledAsError, Schedule, RunIfHolds, RunIfSkips,
         RunIfFails, Delay, Execute, ExecuteFails, ExecuteFailsPlatform, Scatter,
         ScatterFails, GatherItem, GatherItemFails, GatherFinalize,
         GatherFinalizeFails, GatherExec, GatherEmpty, LoopCondition, LoopContinue,
         LoopStop, LoopFails, Running, Awaits
<1> DEFINE Moves == \E label : pc' = [pc EXCEPT ![t] = label]
<1>2. ASSUME NEW label, Await(t, label) PROVE Moves
  BY <1>2 DEF Await
<1>3. ASSUME Finish(t) PROVE Moves
  BY <1>3 DEF Finish
<1>4. ASSUME Fail(t) PROVE Moves
  BY <1>3, <1>4 DEF Fail, ErrorPath
<1>5. ASSUME NEW slot, CloseStream(t, slot) PROVE Moves
  BY <1>2, <1>3, <1>5 DEF CloseStream, GatherResult, ErrorPath
<1>6. ASSUME GatherSkipped(t) \/ GatherReached(t) PROVE Moves
  BY <1>2, <1>3, <1>4, <1>5, <1>6 DEF GatherSkipped, GatherReached, GatherInSkipStream
<1>7. ASSUME SkipPath(t) PROVE Moves
  BY <1>2, <1>3, <1>4, <1>6, <1>7 DEF SkipPath, LoopStartSkipped, LoopEndSkipped,
                                      ScatterSkipStream
<1>8. ASSUME Dispatch(t) PROVE Moves
  BY <1>2, <1>3, <1>4, <1>6, <1>8 DEF Dispatch, LoopStartReached, LoopEndReached,
                                      AwaitOnly
<1>9. ASSUME CheckReachable(t) PROVE Moves
  BY <1>2, <1>4, <1>8, <1>9 DEF CheckReachable, AwaitOnly
<1>10. CASE Schedule(t) \/ RunIfHolds(t) \/ RunIfSkips(t) \/ Delay(t)
  BY <1>1, <1>2, <1>7, <1>8, <1>9, <1>10 DEF Schedule, RunIfHolds, RunIfSkips, Delay, AwaitOnly
<1>11. CASE LoopContinue(t)
  BY <1>1, <1>4, <1>11 DEF LoopContinue, NextIteration
<1>12. CASE \/ RunIfFails(t) \/ ExecuteFails(t) \/ ScatterFails(t) \/ GatherItemFails(t)
            \/ GatherFinalizeFails(t) \/ LoopFails(t) \/ CancelledAsError(t)
  BY <1>1, <1>4, <1>12 DEF RunIfFails, ExecuteFails, ScatterFails, GatherItemFails,
                     GatherFinalizeFails, LoopFails, CancelledAsError
<1>13. CASE \/ Execute(t) \/ ExecuteFailsPlatform(t) \/ Scatter(t) \/ GatherItem(t)
            \/ GatherFinalize(t) \/ GatherExec(t) \/ GatherEmpty(t)
            \/ LoopCondition(t) \/ LoopStop(t) \/ Cancelled(t)
  BY <1>1, <1>2, <1>3, <1>5, <1>13
     DEF Execute, ExecuteFailsPlatform, ErrorPath, Scatter, ScatterSkipStream,
         GatherItem, GatherFinalize, GatherExec, GatherEmpty, LoopCondition, LoopStop,
         Cancelled
<1> QED BY <1>1, <1>10, <1>11, <1>12, <1>13 DEF Step, Resume

\* There are finitely many tasks.
LEMMA TasksFinite == IsFiniteSet(Tasks)
  BY FS_Product, GraphAssumption, SchedulerAssumption DEF Tasks

\* Every step keeps the number of running coroutines within the cap: only the
\* main coroutine adds some, and no more than there is room for.
LEMMA PendingCappedStep ==
  ASSUME TypeOK, PendingCapped, [Next]_vars
  PROVE  PendingCapped'
<1>1. IsFiniteSet(RunningTasks) /\ Cardinality(RunningTasks) \in Nat
  BY TasksFinite, FS_Subset, FS_CardinalityType DEF RunningTasks
<1>2. IsFiniteSet(RunningTasks') /\ Cardinality(RunningTasks') \in Nat
  BY TasksFinite, FS_Subset, FS_CardinalityType DEF RunningTasks
<1>3. MaxPending \in Nat
  BY SchedulerAssumption
<1>4. ASSUME RunningTasks' \subseteq RunningTasks PROVE PendingCapped'
  <2>1. Cardinality(RunningTasks') <= Cardinality(RunningTasks)
    BY <1>1, <1>4, FS_Subset
  <2> QED BY <1>1, <1>2, <1>3, <2>1 DEF PendingCapped
<1>5. CASE Spawn
  <2>1. PICK S \in SUBSET Queued :
          /\ Cardinality(S) =
               Minimum(Minimum(Cardinality(Queued), Room), SpawnYieldEvery)
          /\ pc' = [t \in Tasks |-> IF t \in S THEN "start"
                                    ELSE IF pc[t] = "done" THEN "idle" ELSE pc[t]]
    BY <1>5 DEF Spawn
  <2>2. IsFiniteSet(S) /\ IsFiniteSet(Queued)
    BY TasksFinite, FS_Subset DEF Queued
  <2>3. /\ Cardinality(S) \in Nat /\ Cardinality(Queued) \in Nat
        /\ SpawnYieldEvery \in Nat /\ Room \in Int
    BY <1>1, <1>3, <2>2, FS_CardinalityType, SchedulerAssumption DEF Room
  <2>4. Cardinality(S) <= Room
    BY <2>1, <2>3 DEF Minimum
  <2>5. RunningTasks' \subseteq RunningTasks \cup S
    BY <2>1 DEF RunningTasks, Running
  <2>6. /\ IsFiniteSet(RunningTasks \cup S)
        /\ Cardinality(RunningTasks \cup S)
             = Cardinality(RunningTasks) + Cardinality(S)
                 - Cardinality(RunningTasks \cap S)
    BY <1>1, <2>2, FS_Union
  <2>7. Cardinality(RunningTasks \cap S) \in Nat
    BY <1>1, FS_Subset, FS_CardinalityType
  <2>8. Cardinality(RunningTasks') <= Cardinality(RunningTasks \cup S)
    BY <2>5, <2>6, FS_Subset
  <2> QED BY <1>1, <1>2, <1>3, <2>3, <2>4, <2>6, <2>7, <2>8 DEF PendingCapped, Room
<1>6. CASE ReturnNone \/ ReturnExceptions
  BY <1>4, <1>6 DEF ReturnNone, ReturnExceptions, RunningTasks, Running
<1>7. CASE CancelPending \/ UNCHANGED vars
  BY <1>4, <1>7 DEF CancelPending, vars, RunningTasks, Running
<1>8. CASE \E t \in Tasks : Step(t)
  <2>1. PICK t \in Tasks : Step(t)
    BY <1>8
  <2>2. PICK label : pc' = [pc EXCEPT ![t] = label]
    BY <2>1, StepMovesOne
  <2>3. Running(t)
    BY <2>1, StepMovesOne
  <2>4. RunningTasks' \subseteq RunningTasks
    BY <2>2, <2>3 DEF RunningTasks, Running, TypeOK
  <2> QED BY <1>4, <2>4
<1> QED BY <1>5, <1>6, <1>7, <1>8 DEF Next, Main, Terminated

\* `start` never has more than max_pending_tasks coroutines running, however
\* many tasks a scatter queues at once and in whatever order they end.
THEOREM SchedulerThrottles == Spec => []PendingCapped
<1> DEFINE IInv == TypeOK /\ PcFits /\ PendingCapped
<1>1. Init => IInv
  <2>1. ASSUME Init PROVE PendingCapped
    <3>1. RunningTasks = {}
      BY <2>1 DEF Init, RunningTasks, Running
    <3> QED BY <3>1, FS_EmptySet, SchedulerAssumption DEF PendingCapped
  <2> QED BY <2>1, InitType
<1>2. IInv /\ [Next]_vars => IInv'
  BY NextType, PendingCappedStep
<1>3. IInv => PendingCapped
  OBVIOUS
<1> QED BY <1>1, <1>2, <1>3, PTL DEF Spec
=============================================================================

---------------------------- MODULE ScatterProofs ----------------------------
(***************************************************************************)
(* Theorems about how DSLScheduler runs scatters and gathers: nested, of   *)
(* every size, skipped and failing, in every interleaving of their streams.*)
(***************************************************************************)
EXTENDS DispatchProofs, WellFoundedInduction

-----------------------------------------------------------------------------
(* The stream tree, and tasks that run once, in every graph whose loops    *)
(* contain no scatter.                                                     *)

NoScatterLooped == \A x \in LoopEnds : Region[x] \cap Scatters = {}

\* The scatter, in its stream, that opened stream s.
Opener(s) == <<Last(s)[1], Front(s)>>

\* A task outside of every loop is used up once its counter is down: _queue_tasks
\* queues a task only when it takes the counter to zero.
Spent(t) == indegrees[t] <= 0 /\ ~Active(t)

TreeInv ==
  /\ Root \in streams
  /\ \A s \in streams \ {Root} : Opener(s) \in Tasks
  /\ StreamTreeWhole
  /\ \A t \in Tasks : Active(t) => t[2] \in streams
  /\ \A t \in Tasks : Outside(t[1]) =>
       /\ Active(t) => /\ indegrees[t] <= 0
                       /\ queued[t] = (IF Running(t) THEN 0 ELSE 1)
       /\ t \in completed => Spent(t)
       /\ taskStreams[t] # 0 => Spent(t)

\* What a coroutine's step does to the tree and the counters: it leaves both
\* alone, ...
Rests(t) == \E label \in Awaits \cup {"done"} :
              /\ pc' = [pc EXCEPT ![t] = label]
              /\ completed' \subseteq completed \cup (IF label = "done" THEN {t} ELSE {})
              /\ UNCHANGED <<queued, indegrees, streams, taskStreams>>

\* ... or feeds its children, in its own or its parent stream, ...
Feeds(t) == /\ Finish(t)
            /\ \E s, skip, late :
                 /\ s = t[2] \/ (t[2] # Root /\ s = Front(t[2]))
                 /\ QueueTasksIn(t[1], {s}, skip, late)
            /\ UNCHANGED <<streams, taskStreams>>

\* ... or, a scatter, opens streams and feeds its children there.
Splits(t) == /\ t[1] \in Scatters
             /\ Finish(t)
             /\ \E N, skip, late :
                  /\ streams' = streams \cup N
                  /\ QueueTasksIn(t[1], N, skip, late)
                  /\ \A c \in N : /\ c # Root /\ Opener(c) = t
                                  /\ IsSkipStream(c) \/ Last(c)[2] < taskStreams'[t]
             /\ \E n \in Nat : taskStreams' = [taskStreams EXCEPT ![t] = n]

TreeShape(t) == Rests(t) \/ Feeds(t) \/ Splits(t) \/ Iterated(t)

\* Adding an element, and taking it off.
LEMMA AppendParts ==
  ASSUME NEW S, NEW q \in Seq(S), NEW x \in S
  PROVE  /\ Append(q, x) \in Seq(S) /\ Append(q, x) # << >>
         /\ Front(Append(q, x)) = q /\ Last(Append(q, x)) = x
         /\ Len(Append(q, x)) = Len(q) + 1
<1>1. Append(q, x) \in Seq(S) /\ Len(Append(q, x)) = Len(q) + 1 /\ Len(q) \in Nat
  OBVIOUS
<1>2. Last(Append(q, x)) = x
  BY <1>1 DEF Last
<1>3. Front(Append(q, x)) = q
  BY DEF Front
<1> QED BY <1>1, <1>2, <1>3

\* The id of a child stream gives its opener back.
LEMMA ChildParts ==
  ASSUME NEW t \in Tasks, t[1] \in Scatters, NEW i \in Nat \cup {Skip}
  PROVE  LET c == Child(t[2], t[1], i)
         IN  /\ c # Root /\ c \in StreamIds /\ Front(c) = t[2]
             /\ Last(c) = <<t[1], i>> /\ Opener(c) = t
             /\ IsSkipStream(c) <=> i = Skip
<1>1. t[2] \in StreamIds /\ t = <<t[1], t[2]>>
  BY SchedulerAssumption DEF Tasks
<1> DEFINE c == Child(t[2], t[1], i)
<1>2. c = Append(t[2], <<t[1], i>>) /\ t[2] \in Seq(Scatters \X (Nat \cup {Skip}))
      /\ <<t[1], i>> \in Scatters \X (Nat \cup {Skip})
  BY <1>1 DEF Child, StreamIds
<1>3. c \in StreamIds
  BY <1>2 DEF StreamIds
<1>4. c # Root /\ Front(c) = t[2] /\ Last(c) = <<t[1], i>>
  BY <1>2, AppendParts DEF Root
<1> HIDE DEF c
<1>5. Opener(c) = t /\ (IsSkipStream(c) <=> i = Skip)
  BY <1>1, <1>4 DEF Opener, IsSkipStream
<1> QED BY <1>3, <1>4, <1>5 DEF c

\* The error path feeds the children, or ends the workflow.
LEMMA ErrorTree ==
  ASSUME NEW t \in Tasks, NEW platform, NEW raised, ErrorPath(t, platform, raised),
         UNCHANGED <<streams, taskStreams>>
  PROVE  TreeShape(t)
<1>1. CASE UNCHANGED graphVars
  BY <1>1 DEF ErrorPath, Finish, TreeShape, Rests, graphVars
<1>2. CASE ~UNCHANGED graphVars
  BY <1>2 DEF ErrorPath, TreeShape, Feeds, QueueTasks
<1> QED BY <1>1, <1>2

\* A task that fails has one of the shapes.
LEMMA FailTree ==
  ASSUME NEW t \in Tasks, Fail(t)
  PROVE  TreeShape(t)
  BY ErrorTree DEF Fail, streamVars

\* So has one that goes on to an await.
LEMMA AwaitTree ==
  ASSUME NEW t \in Tasks, NEW label \in Awaits, Await(t, label),
         UNCHANGED <<graphVars, streams, taskStreams>>
  PROVE  TreeShape(t)
<1>1. label # "done"
  BY DEF Awaits
<1> QED BY <1>1 DEF Await, TreeShape, Rests, graphVars

\* One that publishes in its own or its parent stream.
LEMMA FeedTree ==
  ASSUME NEW t \in Tasks, NEW s, NEW skip, QueueTasks(t[1], s, skip), Finish(t),
         s = t[2] \/ (t[2] # Root /\ s = Front(t[2])),
         UNCHANGED <<streams, taskStreams>>
  PROVE  TreeShape(t)
  BY DEF TreeShape, Feeds, QueueTasks

\* A scatter that is skipped, or empty.
LEMMA SkipStreamTree ==
  ASSUME NEW t \in Tasks, t[1] \in Scatters, ScatterSkipStream(t),
         NEW n \in Nat, taskStreams' = [taskStreams EXCEPT ![t] = n]
  PROVE  TreeShape(t)
<1> DEFINE c == Child(t[2], t[1], Skip)
<1>1. c # Root /\ Opener(c) = t /\ IsSkipStream(c)
  BY ChildParts
<1>2. streams' = streams \cup {c} /\ QueueTasksIn(t[1], {c}, OutEdges(t[1]), {}) /\ Finish(t)
  BY DEF ScatterSkipStream, OpenStreams, QueueTasks
<1> HIDE DEF c
<1>3. \A d \in {c} : d # Root /\ Opener(d) = t /\ (IsSkipStream(d) \/ Last(d)[2] < taskStreams'[t])
  BY <1>1
<1>4. \E m \in Nat : taskStreams' = [taskStreams EXCEPT ![t] = m]
  OBVIOUS
<1>5. \E N, skip, late :
        /\ streams' = streams \cup N
        /\ QueueTasksIn(t[1], N, skip, late)
        /\ \A d \in N : /\ d # Root /\ Opener(d) = t
                        /\ IsSkipStream(d) \/ Last(d)[2] < taskStreams'[t]
  BY <1>2, <1>3
<1> QED BY <1>2, <1>4, <1>5 DEF TreeShape, Splits

\* A scatter over a collection.
LEMMA ScatterTree ==
  ASSUME TypeOK, PcFits, NEW t \in Tasks, Scatter(t)
  PROVE  TreeShape(t)
<1>1. t[1] \in Scatters
  BY DEF Scatter, PcFits, Fits
<1>2. PICK n \in Sizes[t[1]] :
        /\ taskStreams' = [taskStreams EXCEPT ![t] = n]
        /\ \/ n = 0 /\ ScatterSkipStream(t)
           \/ /\ n > 0
              /\ OpenStreams(NewStreams(t, n))
              /\ \E late : QueueTasksIn(t[1], NewStreams(t, n), {}, late)
              /\ Finish(t)
  BY DEF Scatter
<1>3. n \in Nat
  BY <1>1, SchedulerAssumption
<1>4. CASE ScatterSkipStream(t)
  BY <1>1, <1>2, <1>3, <1>4, SkipStreamTree
<1>5. CASE ~ScatterSkipStream(t)
  <2>1. taskStreams'[t] = n
    BY <1>2 DEF TypeOK
  <2>2. ASSUME NEW c \in NewStreams(t, n)
        PROVE  c # Root /\ Opener(c) = t /\ Last(c)[2] < taskStreams'[t]
    <3>1. PICK i \in 0..(n-1) : c = Child(t[2], t[1], i)
      BY DEF NewStreams
    <3>2. i \in Nat /\ i < n
      BY <1>3
    <3>3. c # Root /\ Opener(c) = t /\ Last(c) = <<t[1], i>>
      BY <1>1, <3>1, <3>2, ChildParts
    <3> QED BY <2>1, <3>2, <3>3
  <2>3. streams' = streams \cup NewStreams(t, n)
    BY <1>2, <1>5 DEF OpenStreams
  <2> QED BY <1>1, <1>2, <1>3, <1>5, <2>2, <2>3 DEF TreeShape, Splits
<1> QED BY <1>4, <1>5

\* Closing a stream.
LEMMA CloseTree ==
  ASSUME NEW t \in Tasks, NEW slot, CloseStream(t, slot)
  PROVE  TreeShape(t)
<1>1. UNCHANGED <<streams, taskStreams>>
  BY DEF CloseStream
<1>2. CASE ErrorPath(t, FALSE, {})
  BY <1>1, <1>2, ErrorTree
<1>3. CASE Await(t, "gather_finalize") /\ UNCHANGED graphVars
  BY <1>1, <1>3, AwaitTree DEF Awaits
<1>4. CASE Finish(t) /\ UNCHANGED graphVars
  BY <1>1, <1>4 DEF Finish, TreeShape, Rests, graphVars
<1> QED BY <1>2, <1>3, <1>4 DEF CloseStream, GatherResult

\* A gather that is entered, skipping or not.
LEMMA GatherTree ==
  ASSUME NEW t \in Tasks, GatherSkipped(t) \/ GatherReached(t)
  PROVE  TreeShape(t)
<1>1. CASE GatherInSkipStream(t)
  <2>1. UNCHANGED <<streams, taskStreams>>
    BY <1>1 DEF GatherInSkipStream, streamVars
  <2> QED BY <1>1, <2>1, AwaitTree, FeedTree DEF GatherInSkipStream, Awaits
<1>2. CASE Await(t, "gather_item") /\ UNCHANGED <<graphVars, streamVars>>
  BY <1>2, AwaitTree DEF Awaits, streamVars
<1> QED BY <1>1, <1>2, FailTree, CloseTree DEF GatherSkipped, GatherReached

\* A skipped task.
LEMMA SkipTree ==
  ASSUME TypeOK, NEW t \in Tasks, SkipPath(t)
  PROVE  TreeShape(t)
<1>1. CASE Fail(t)
  BY <1>1, FailTree
<1>2. CASE ~Fail(t) /\ (LoopStartSkipped(t) \/ LoopEndSkipped(t))
  BY <1>2, FeedTree DEF LoopStartSkipped, LoopEndSkipped, SuccessPath, streamVars
<1>3. CASE /\ Kind[t[1]] = "scatter" /\ ScatterSkipStream(t)
           /\ UNCHANGED <<taskStreams, openStreams>>
  <2>1. taskStreams' = [taskStreams EXCEPT ![t] = taskStreams[t]] /\ taskStreams[t] \in Nat
    BY <1>3 DEF TypeOK
  <2>2. t[1] \in Scatters
    BY <1>3 DEF Scatters, Tasks
  <2> QED BY <1>3, <2>1, <2>2, SkipStreamTree
<1>4. CASE GatherSkipped(t)
  BY <1>4, GatherTree
<1>5. CASE /\ QueueTasks(t[1], t[2], OutEdges(t[1])) /\ Finish(t)
           /\ UNCHANGED streamVars
  BY <1>5, FeedTree DEF streamVars
<1> QED BY <1>1, <1>2, <1>3, <1>4, <1>5 DEF SkipPath

\* A task handed to its handler.
LEMMA DispatchTree ==
  ASSUME NEW t \in Tasks, Dispatch(t)
  PROVE  TreeShape(t)
<1>1. CASE Fail(t)
  BY <1>1, FailTree
<1>2. {"loop_start", "loop_cond", "scatter", "execute"} \subseteq Awaits
  BY DEF Awaits
<1>3. CASE ~Fail(t) /\ (LoopStartReached(t) \/ LoopEndReached(t))
  BY <1>2, <1>3, AwaitTree DEF LoopStartReached, LoopEndReached, streamVars
<1>4. CASE AwaitOnly(t, "scatter") \/ AwaitOnly(t, "execute")
  BY <1>2, <1>4, AwaitTree DEF AwaitOnly, streamVars
<1> QED BY <1>1, <1>3, <1>4, GatherTree DEF Dispatch

\* Every step of a coroutine has one of the shapes.
LEMMA StepTree ==
  ASSUME TypeOK, PcFits, NEW t \in Tasks, Step(t)
  PROVE  TreeShape(t)
<1>1. CASE Fail(t)
  BY <1>1, FailTree
<1>2. CASE Cancelled(t)
  BY <1>2 DEF Cancelled, TreeShape, Rests, graphVars, streamVars
<1>3. CASE CheckReachable(t)
  BY <1>1, <1>3, AwaitTree, DispatchTree DEF CheckReachable, AwaitOnly, Awaits, streamVars
<1>4. CASE Schedule(t) \/ RunIfHolds(t) \/ RunIfSkips(t) \/ Delay(t)
  <2>1. CASE AwaitOnly(t, "run_if")
    BY <2>1, AwaitTree DEF AwaitOnly, Awaits, streamVars
  <2> QED BY <1>3, <1>4, <2>1, SkipTree, DispatchTree
          DEF Schedule, RunIfHolds, RunIfSkips, Delay
<1>5. CASE Execute(t) \/ LoopStop(t)
  BY <1>5, FeedTree DEF Execute, LoopStop, SuccessPath, streamVars
<1>6. CASE ExecuteFailsPlatform(t)
  BY <1>6, ErrorTree DEF ExecuteFailsPlatform, streamVars
<1>7. CASE Scatter(t)
  BY <1>7, ScatterTree
<1>8. CASE GatherItem(t)
  BY <1>8, CloseTree DEF GatherItem
<1>9. CASE GatherFinalize(t)
  <2>1. UNCHANGED <<streams, taskStreams>>
    BY <1>9 DEF GatherFinalize, streamVars
  <2> QED BY <1>9, <2>1, ErrorTree, AwaitTree DEF GatherFinalize, Awaits
<1>10. CASE GatherExec(t) \/ GatherEmpty(t)
  <2>1. t[2] # Root
    BY <1>10 DEF GatherExec, GatherEmpty, PcFits, Fits
  <2> QED BY <1>10, <2>1, FeedTree DEF GatherExec, GatherEmpty, streamVars
<1>11. CASE LoopCondition(t)
  BY <1>11, AwaitTree DEF LoopCondition, Awaits, streamVars
<1>12. CASE LoopContinue(t)
  <2>1. t[1] \in LoopEnds /\ NextIndex(currentIndex[t]) \in Nat
    BY <1>12 DEF LoopContinue, PcFits, Fits, NextIndex, TypeOK
  <2> QED BY <1>1, <1>12, <2>1 DEF LoopContinue, TreeShape, Iterated
<1> QED BY <1>1, <1>2, <1>4, <1>5, <1>6, <1>7, <1>8, <1>9, <1>10, <1>11, <1>12
        DEF Step, Resume, RunIfFails, ExecuteFails, LoopFails, CancelledAsError,
            ScatterFails, GatherItemFails, GatherFinalizeFails

\* What _queue_tasks does to counters and queue: it takes counters down, and
\* queues a task when its counter comes down to zero.
LEMMA FeedFacts ==
  ASSUME TypeOK, NEW r \in Refs, NEW S, NEW skip, NEW late, QueueTasksIn(r, S, skip, late)
  PROVE  \A u \in Tasks :
           /\ indegrees[u] \in Int /\ indegrees'[u] \in Int /\ queued[u] \in Nat
           /\ indegrees'[u] <= indegrees[u]
           /\ queued'[u] \in {queued[u], queued[u] + 1}
           /\ queued'[u] # queued[u] =>
                indegrees[u] > 0 /\ indegrees'[u] <= 0 /\ u[2] \in S
<1> SUFFICES ASSUME NEW u \in Tasks
             PROVE  /\ indegrees[u] \in Int /\ indegrees'[u] \in Int /\ queued[u] \in Nat
                    /\ indegrees'[u] <= indegrees[u]
                    /\ queued'[u] \in {queued[u], queued[u] + 1}
                    /\ queued'[u] # queued[u] =>
                         indegrees[u] > 0 /\ indegrees'[u] <= 0 /\ u[2] \in S
  OBVIOUS
<1>1. indegrees[u] \in Int /\ queued[u] \in Nat /\ Links[<<r, u[1]>>] \in Nat
  BY CountsAreNat DEF TypeOK, Tasks
<1>2. indegrees'[u] = IF u[2] \in S THEN indegrees[u] - Links[<<r, u[1]>>] ELSE indegrees[u]
  BY DEF QueueTasksIn
<1>3. queued'[u] = IF u \in Ready(r, S) THEN queued[u] + 1 ELSE queued[u]
  BY DEF QueueTasksIn
<1>4. u \in Ready(r, S) <=> u[2] \in S /\ indegrees[u] \in 1..Links[<<r, u[1]>>]
  BY DEF Ready
<1> HIDE DEF Links
<1> QED BY <1>1, <1>2, <1>3, <1>4

\* A task that ends and feeds its children keeps the used-up tasks used up.
LEMMA FeedOnce ==
  ASSUME TypeOK, TreeInv, NEW t \in Tasks, Running(t), Finish(t),
         NEW S, NEW skip, NEW late, QueueTasksIn(t[1], S, skip, late),
         \A u \in Tasks : taskStreams'[u] # taskStreams[u] => u = t /\ Outside(t[1])
  PROVE  /\ \A u \in Tasks : Active(u)' => Active(u) \/ u[2] \in S
         /\ \A u \in Tasks : Outside(u[1]) =>
              /\ Active(u)' => /\ indegrees'[u] <= 0
                               /\ queued'[u] = (IF Running(u)' THEN 0 ELSE 1)
              /\ u \in completed' => Spent(u)'
              /\ taskStreams'[u] # 0 => Spent(u)'
<1>1. \A u \in Tasks :
        /\ indegrees[u] \in Int /\ indegrees'[u] \in Int /\ queued[u] \in Nat
        /\ indegrees'[u] <= indegrees[u]
        /\ queued'[u] \in {queued[u], queued[u] + 1}
        /\ queued'[u] # queued[u] => indegrees[u] > 0 /\ indegrees'[u] <= 0 /\ u[2] \in S
  BY FeedFacts DEF Tasks
<1>2. \A u \in Tasks : Running(u)' <=> Running(u) /\ u # t
  BY DEF Finish, Running, TypeOK
<1>3. \A u \in Tasks : Outside(u[1]) =>
       /\ Active(u) => /\ indegrees[u] <= 0
                       /\ queued[u] = (IF Running(u) THEN 0 ELSE 1)
       /\ u \in completed => Spent(u)
       /\ taskStreams[u] # 0 => Spent(u)
  BY DEF TreeInv
<1>4. ASSUME NEW u \in Tasks, Outside(u[1])
      PROVE  Active(u)' => /\ indegrees'[u] <= 0
                           /\ queued'[u] = (IF Running(u)' THEN 0 ELSE 1)
  BY <1>1, <1>2, <1>3, <1>4 DEF Active
<1>5. ASSUME NEW u \in Tasks, Spent(u) PROVE Spent(u)'
  BY <1>1, <1>2, <1>5 DEF Spent, Active
<1>6. Outside(t[1]) => Spent(t)'
  BY <1>1, <1>2, <1>3 DEF Spent, Active
<1>7. ASSUME NEW u \in Tasks, Outside(u[1])
      PROVE  /\ u \in completed' => Spent(u)'
             /\ taskStreams'[u] # 0 => Spent(u)'
  BY <1>3, <1>5, <1>6, <1>7 DEF Finish
<1>8. \A u \in Tasks : Active(u)' => Active(u) \/ u[2] \in S
  BY <1>1, <1>2 DEF Active
<1> QED BY <1>4, <1>7, <1>8

\* A step that leaves tree and counters alone keeps the invariant.
LEMMA RestsInv ==
  ASSUME TypeOK, TreeInv, NEW t \in Tasks, Running(t), Rests(t)
  PROVE  TreeInv'
<1>1. PICK label \in Awaits \cup {"done"} :
        /\ pc' = [pc EXCEPT ![t] = label]
        /\ completed' \subseteq completed \cup (IF label = "done" THEN {t} ELSE {})
  BY DEF Rests
<1>2. UNCHANGED <<queued, indegrees, streams, taskStreams>>
  BY DEF Rests
<1>3. \A u \in Tasks : Running(u)' <=> Running(u) /\ (u = t => label # "done")
  BY <1>1 DEF Running, Awaits, TypeOK
<1>4. \A u \in Tasks : Active(u)' => Active(u)
  BY <1>2, <1>3 DEF Active
<1>5. StreamTreeWhole'
  BY <1>2 DEF TreeInv, StreamTreeWhole
<1>6. ASSUME NEW u \in Tasks, Outside(u[1])
      PROVE  /\ Active(u)' => /\ indegrees'[u] <= 0
                              /\ queued'[u] = (IF Running(u)' THEN 0 ELSE 1)
             /\ u \in completed' => Spent(u)'
             /\ taskStreams'[u] # 0 => Spent(u)'
  <2>1. /\ Active(u) => /\ indegrees[u] <= 0
                        /\ queued[u] = (IF Running(u) THEN 0 ELSE 1)
        /\ u \in completed => Spent(u)
        /\ taskStreams[u] # 0 => Spent(u)
    BY <1>6 DEF TreeInv
  <2>2. queued[u] \in Nat
    BY DEF TypeOK
  <2> QED BY <1>1, <1>2, <1>3, <2>1, <2>2 DEF Active, Spent
<1> QED BY <1>2, <1>4, <1>5, <1>6 DEF TreeInv

\* So does feeding the children, in a stream of the tree.
LEMMA FeedsInv ==
  ASSUME TypeOK, TreeInv, NEW t \in Tasks, Running(t), Feeds(t)
  PROVE  TreeInv'
<1>1. PICK s, skip, late : /\ s = t[2] \/ (t[2] # Root /\ s = Front(t[2]))
                           /\ QueueTasksIn(t[1], {s}, skip, late)
  BY DEF Feeds
<1>2. Finish(t) /\ UNCHANGED <<streams, taskStreams>>
  BY DEF Feeds
<1>3. s \in streams
  BY <1>1 DEF TreeInv, StreamTreeWhole, Active
<1>4. StreamTreeWhole'
  BY <1>2 DEF TreeInv, StreamTreeWhole
<1>5. /\ \A u \in Tasks : Active(u)' => Active(u) \/ u[2] \in {s}
      /\ \A u \in Tasks : Outside(u[1]) =>
           /\ Active(u)' => /\ indegrees'[u] <= 0
                            /\ queued'[u] = (IF Running(u)' THEN 0 ELSE 1)
           /\ u \in completed' => Spent(u)'
           /\ taskStreams'[u] # 0 => Spent(u)'
  BY <1>1, <1>2, FeedOnce
<1> QED BY <1>2, <1>3, <1>4, <1>5 DEF TreeInv, Outside

\* And a scatter's new streams: it had opened none before.
LEMMA SplitsInv ==
  ASSUME NoScatterLooped, TypeOK, TreeInv, NEW t \in Tasks, Running(t), Splits(t)
  PROVE  TreeInv'
<1>1. PICK N, skip, late :
        /\ streams' = streams \cup N
        /\ QueueTasksIn(t[1], N, skip, late)
        /\ \A c \in N : /\ c # Root /\ Opener(c) = t
                        /\ IsSkipStream(c) \/ Last(c)[2] < taskStreams'[t]
  BY DEF Splits
<1>2. PICK n \in Nat : taskStreams' = [taskStreams EXCEPT ![t] = n]
  BY DEF Splits
<1>3. t[1] \in Scatters /\ Finish(t) /\ Outside(t[1])
  BY DEF Splits, NoScatterLooped, Outside
<1>4. \A u \in Tasks : taskStreams'[u] = IF u = t THEN n ELSE taskStreams[u]
  BY <1>2 DEF TypeOK
<1>5. taskStreams[t] = 0 /\ t[2] \in streams
  BY <1>3 DEF TreeInv, Spent, Active
<1>6. /\ \A u \in Tasks : Active(u)' => Active(u) \/ u[2] \in N
      /\ \A u \in Tasks : Outside(u[1]) =>
           /\ Active(u)' => /\ indegrees'[u] <= 0
                            /\ queued'[u] = (IF Running(u)' THEN 0 ELSE 1)
           /\ u \in completed' => Spent(u)'
           /\ taskStreams'[u] # 0 => Spent(u)'
  BY <1>1, <1>3, <1>4, FeedOnce
<1>7. ASSUME NEW s \in streams' \ {Root}
      PROVE  /\ Opener(s) \in Tasks /\ Front(s) \in streams'
             /\ IsSkipStream(s) \/ Last(s)[2] < taskStreams'[<<Last(s)[1], Front(s)>>]
  <2>1. CASE s \in N
    BY <1>1, <1>5, <2>1 DEF Opener
  <2>2. CASE s \notin N
    <3>1. s \in streams \ {Root}
      BY <1>1, <2>2
    <3>2. /\ Opener(s) \in Tasks /\ Front(s) \in streams
          /\ IsSkipStream(s) \/ Last(s)[2] < taskStreams[Opener(s)]
      BY <3>1 DEF TreeInv, StreamTreeWhole, Opener
    <3>3. CASE Opener(s) = t /\ ~IsSkipStream(s)
      \* A stream of t with an index below zero.
      <4>1. s \in StreamIds /\ s # Root
        BY <3>1 DEF TypeOK
      <4>2. Last(s) \in Scatters \X (Nat \cup {Skip})
        BY <4>1 DEF StreamIds, Last, Root
      <4> QED BY <1>5, <3>2, <3>3, <4>1, <4>2 DEF IsSkipStream
    <3> QED BY <1>1, <1>4, <3>2, <3>3 DEF Opener
  <2> QED BY <2>1, <2>2
<1> QED BY <1>1, <1>6, <1>7 DEF TreeInv, StreamTreeWhole, Outside

\* A loop without scatters drops no stream: its next iteration is about tasks of
\* the loop only.
LEMMA IteratedTreeInv ==
  ASSUME NoScatterLooped, TypeOK, TreeInv, NEW t \in Tasks, Running(t), Iterated(t)
  PROVE  TreeInv'
<1> DEFINE R == Region[t[1]]
           start == <<RegionStart[t[1]], t[2]>>
           Here(k) == k[2] \in LoopStreams(R, t[2]) \/ (k[2] = t[2] /\ k[1] \in R)
<1>1. PICK next \in Nat : NextIteration(t, R, next)
  BY DEF Iterated
<1>2. t[1] \in LoopEnds /\ RegionStart[t[1]] \in R /\ start \in Tasks
  BY LoopScopes, RegionMembers DEF Iterated, ScopesChecked, Tasks
<1>3. LoopStreams(R, t[2]) = {}
  <2> SUFFICES ASSUME NEW x \in Streams, NEW k \in 1..Len(x), x[k][1] \in R PROVE FALSE
    BY DEF LoopStreams
  <2>1. x[k] \in Scatters \X (Nat \cup {Skip})
    BY SchedulerAssumption DEF StreamIds
  <2> QED BY <1>2, <2>1 DEF NoScatterLooped
<1>4. /\ indegrees' = [k \in Tasks |->
                         IF k[2] \in LoopStreams(R, t[2]) THEN NDeps(k[1])
                         ELSE IF Here(k) THEN Cardinality(InternalDeps(k[1], R))
                         ELSE indegrees[k]]
      /\ queued' = [queued EXCEPT ![start] = @ + 1]
      /\ pc' = [pc EXCEPT ![t] = "done"]
      /\ streams' = streams \ LoopStreams(R, t[2])
      /\ taskStreams' = [k \in Tasks |-> IF Here(k) THEN 0 ELSE taskStreams[k]]
      /\ completed' = {k \in completed : ~Here(k)} \cup {t}
  BY <1>1 DEF NextIteration
<1>5. \A u \in Tasks : Outside(u[1]) => u[1] \notin R
  BY <1>2 DEF Outside
<1> HIDE DEF R, start, Here
<1>6. streams' = streams /\ \A u \in Tasks : Here(u) => u[1] \in R
  BY <1>3, <1>4 DEF Here
<1>7. t[1] \in R /\ start[1] \in R /\ start[2] = t[2]
  BY <1>2, LoopScopes, RegionMembers DEF ScopesChecked, R, start
<1>8. \A u \in Tasks : /\ Running(u)' <=> Running(u) /\ u # t
                       /\ u # start => queued'[u] = queued[u]
  BY <1>4 DEF Running, TypeOK
<1>9. \A u \in Tasks : Active(u)' => u[2] \in streams'
  BY <1>6, <1>7, <1>8 DEF TreeInv, Active
<1>10. ASSUME NEW u \in Tasks, Outside(u[1])
       PROVE  /\ Active(u)' <=> Active(u)
              /\ queued'[u] = queued[u] /\ indegrees'[u] = indegrees[u]
              /\ Running(u)' <=> Running(u)
              /\ u \in completed' <=> u \in completed
              /\ taskStreams'[u] = taskStreams[u]
  <2>1. u # t /\ u # start /\ ~Here(u)
    BY <1>5, <1>6, <1>7, <1>10
  <2> QED BY <1>3, <1>4, <1>8, <2>1 DEF Active
<1>11. ASSUME NEW s \in streams' \ {Root}
       PROVE  /\ Opener(s) \in Tasks /\ Front(s) \in streams'
              /\ IsSkipStream(s) \/ Last(s)[2] < taskStreams'[<<Last(s)[1], Front(s)>>]
  <2>1. /\ Opener(s) \in Tasks /\ Front(s) \in streams
        /\ IsSkipStream(s) \/ Last(s)[2] < taskStreams[Opener(s)]
    BY <1>6 DEF TreeInv, StreamTreeWhole, Opener
  <2>2. Last(s) \in Scatters \X (Nat \cup {Skip})
    BY <1>6 DEF TypeOK, StreamIds, Last, Root
  <2>3. ~Here(Opener(s))
    BY <1>2, <1>6, <2>1, <2>2 DEF NoScatterLooped, Opener, R
  <2> QED BY <1>4, <1>6, <2>1, <2>3 DEF Opener
<1> QED BY <1>6, <1>9, <1>10, <1>11 DEF TreeInv, StreamTreeWhole, Spent

\* The main coroutine only starts tasks that wait.
LEMMA TreeMain ==
  ASSUME TypeOK, TreeInv, Main
  PROVE  TreeInv'
<1>1. UNCHANGED <<streams, taskStreams, indegrees, completed>>
  BY DEF Main, Spawn, ReturnNone, CancelPending, ReturnExceptions, graphVars, streamVars
<1>2. ASSUME NEW u \in Tasks
      PROVE  /\ Active(u)' <=> Active(u)
             /\ (queued[u] = (IF Running(u) THEN 0 ELSE 1)) =>
                  (queued'[u] = (IF Running(u)' THEN 0 ELSE 1)) \/ ~Active(u)'
  <2>1. queued[u] \in Nat
    BY DEF TypeOK
  <2>2. CASE Spawn
    <3>1. PICK S \in SUBSET Queued :
            /\ queued' = [k \in Tasks |-> IF k \in S THEN queued[k] - 1 ELSE queued[k]]
            /\ pc' = [k \in Tasks |-> IF k \in S THEN "start"
                                      ELSE IF pc[k] = "done" THEN "idle" ELSE pc[k]]
      BY <2>2 DEF Spawn
    <3>2. /\ Running(u)' <=> Running(u) \/ u \in S
          /\ queued'[u] = IF u \in S THEN queued[u] - 1 ELSE queued[u]
          /\ u \in S => queued[u] > 0
      BY <3>1 DEF Running, Queued
    <3> QED BY <2>1, <3>2 DEF Active
  <2>3. CASE ReturnNone \/ ReturnExceptions
    <3>1. ~Running(u) /\ ~Running(u)' /\ UNCHANGED queued
      BY <2>3 DEF ReturnNone, ReturnExceptions, RunningTasks, Running, graphVars
    <3> QED BY <3>1 DEF Active
  <2>4. CASE CancelPending
    BY <2>4 DEF CancelPending, graphVars, Active, Running
  <2> QED BY <2>2, <2>3, <2>4 DEF Main
<1>3. StreamTreeWhole'
  BY <1>1 DEF TreeInv, StreamTreeWhole
<1> QED BY <1>1, <1>2, <1>3 DEF TreeInv, Spent

\* At first there is the root stream, and only tasks without dependencies wait.
LEMMA TreeInit ==
  ASSUME Init
  PROVE  TreeInv
<1>1. ASSUME NEW u \in Tasks
      PROVE  /\ Active(u) => /\ u[2] = Root /\ indegrees[u] = 0
                             /\ queued[u] = 1 /\ ~Running(u)
             /\ u \notin completed /\ taskStreams[u] = 0
  BY DEF Init, Active, Running
<1> QED BY <1>1 DEF Init, TreeInv, StreamTreeWhole

\* The invariant is inductive.
LEMMA TreeNext ==
  ASSUME NoScatterLooped, TypeOK, PcFits, TreeInv, [Next]_vars
  PROVE  TreeInv'
<1>1. ASSUME NEW t \in Tasks, Step(t) PROVE TreeInv'
  <2>1. Running(t) /\ TreeShape(t)
    BY <1>1, StepMovesOne, StepTree
  <2> QED BY <2>1, RestsInv, FeedsInv, SplitsInv, IteratedTreeInv DEF TreeShape
<1>2. CASE UNCHANGED vars
  BY <1>2 DEF vars, graphVars, streamVars, TreeInv, StreamTreeWhole, Spent, Active, Running
<1> QED BY <1>1, <1>2, TreeMain DEF Next, Terminated

\* It holds throughout.
LEMMA TreeInvariant ==
  ASSUME NoScatterLooped
  PROVE  Spec => [](TypeOK /\ PcFits /\ TreeInv)
<1>1. Init => TypeOK /\ PcFits /\ TreeInv
  BY InitType, TreeInit
<1>2. TypeOK /\ PcFits /\ TreeInv /\ [Next]_vars => (TypeOK /\ PcFits /\ TreeInv)'
  BY NextType, TreeNext
<1> QED BY <1>1, <1>2, PTL DEF Spec

\* Every stream has its parent stream, and every execution stream its place in
\* task_streams, however scatters nest, fail or are skipped: a scatter opens its
\* streams once.
THEOREM TreeStaysWhole ==
  ASSUME NoScatterLooped
  PROVE  Spec => []StreamTreeWhole
<1>1. TreeInv => StreamTreeWhole
  BY DEF TreeInv
<1> QED BY <1>1, TreeInvariant, PTL

\* A task outside of every loop never starts again once it completed, in any
\* stream, whatever gathers, error paths and skips mark in that stream.
THEOREM NeverRerun ==
  ASSUME NoScatterLooped
  PROVE  Spec => RunsOnce
<1> DEFINE Once == \A t \in Tasks :
                     t \in completed /\ (\A x \in LoopEnds : t[1] \notin Region[x])
                       => pc'[t] # "start"
<1>1. ASSUME TypeOK, PcFits, TreeInv, [Next]_vars PROVE [Once]_vars
  <2> SUFFICES ASSUME Next, NEW t \in Tasks, t \in completed, Outside(t[1]), pc'[t] = "start"
               PROVE  FALSE
    BY <1>1 DEF Outside
  <2>1. ~Active(t)
    BY <1>1 DEF TreeInv, Spent
  <2>2. ~(queued[t] > 0) /\ pc[t] # "start"
    BY <2>1 DEF Active, Running
  <2>3. CASE Main
    BY <2>2, <2>3 DEF Main, Spawn, ReturnNone, CancelPending, ReturnExceptions, Queued
  <2>4. ASSUME NEW u \in Tasks, Step(u) PROVE FALSE
    <3>1. Running(u) /\ u # t
      BY <2>1, <2>4, StepMovesOne DEF Active
    <3>2. pc'[t] = pc[t]
      BY <1>1, <2>4, <3>1, StepMovesOne DEF TypeOK
    <3> QED BY <2>2, <3>2
  <2> QED BY <2>2, <2>3, <2>4 DEF Next, Terminated, vars
<1> QED BY <1>1, TreeInvariant, PTL DEF RunsOnce, Spec

\* Two sequences are equal when their elements are.
LEMMA SeqEqual ==
  ASSUME NEW S, NEW s \in Seq(S), NEW x \in Seq(S), Len(s) = Len(x),
         \A k \in 1..Len(s) : s[k] = x[k]
  PROVE  s = x
  OBVIOUS

\* A prefix, element by element.
LEMMA PrefixElements ==
  ASSUME NEW S, NEW s \in Seq(S), NEW x \in Seq(S)
  PROVE  IsPrefix(s, x) <=> Len(s) <= Len(x) /\ \A k \in 1..Len(s) : s[k] = x[k]
<1>1. Len(s) \in Nat /\ Len(x) \in Nat
  OBVIOUS
<1> DEFINE p == SubSeq(s, 1, Len(s))
           q == SubSeq(x, 1, Len(s))
<1>2. p \in Seq(S) /\ Len(p) = Len(s) /\ \A k \in 1..Len(s) : p[k] = s[k]
  BY <1>1
<1>3. ASSUME Len(s) <= Len(x)
      PROVE  q \in Seq(S) /\ Len(q) = Len(s) /\ \A k \in 1..Len(s) : q[k] = x[k]
  BY <1>1, <1>3
<1>4. IsPrefix(s, x) <=> Len(s) <= Len(x) /\ p = q
  BY DEF IsPrefix
<1> HIDE DEF p, q
<1>5. ASSUME Len(s) <= Len(x), \A k \in 1..Len(s) : s[k] = x[k]
      PROVE  p = q
  BY <1>2, <1>3, <1>5, SeqEqual
<1> QED BY <1>2, <1>3, <1>4, <1>5

\* The first k elements.
LEMMA FirstElements ==
  ASSUME NEW S, NEW x \in Seq(S), NEW k \in 1..Len(x),
         NEW p, p = SubSeq(x, 1, k), NEW f, f = SubSeq(x, 1, k - 1)
  PROVE  /\ p \in Seq(S) /\ Len(p) = k /\ p # << >> /\ Last(p) = x[k]
         /\ Front(p) = f /\ IsPrefix(p, x)
         /\ f \in Seq(S) /\ Len(f) = k - 1 /\ IsPrefix(f, x)
<1>1. Len(x) \in Nat /\ k \in Nat /\ k >= 1 /\ k <= Len(x)
  OBVIOUS
<1>2. p \in Seq(S) /\ Len(p) = k /\ \A j \in 1..k : p[j] = x[j]
  BY <1>1
<1>3. f \in Seq(S) /\ Len(f) = k - 1 /\ \A j \in 1..(k-1) : f[j] = x[j]
  BY <1>1
<1>4. Front(p) = f
  <2> DEFINE q == SubSeq(p, 1, Len(p) - 1)
  <2>1. q \in Seq(S) /\ Len(q) = k - 1 /\ \A j \in 1..(k-1) : q[j] = p[j]
    BY <1>1, <1>2
  <2>2. Front(p) = q
    BY DEF Front
  <2> HIDE DEF q
  <2>3. \A j \in 1..(k-1) : q[j] = f[j]
    BY <1>1, <1>2, <1>3, <2>1
  <2>4. q = f
    BY <1>3, <2>1, <2>3, SeqEqual
  <2> QED BY <2>2, <2>4
<1>5. p # << >> /\ Last(p) = x[k]
  BY <1>1, <1>2 DEF Last
<1>6. /\ Len(p) <= Len(x) /\ \A j \in 1..Len(p) : p[j] = x[j]
      /\ Len(f) <= Len(x) /\ \A j \in 1..Len(f) : f[j] = x[j]
  BY <1>1, <1>2, <1>3
<1>7. IsPrefix(p, x)
  BY <1>2, <1>6, PrefixElements, Zenon
<1>8. IsPrefix(f, x)
  BY <1>3, <1>6, PrefixElements, Zenon
<1> QED BY <1>2, <1>3, <1>4, <1>5, <1>7, <1>8

\* The prefixes of a sequence form a line.
LEMMA PrefixOrder ==
  ASSUME NEW S, NEW s \in Seq(S), NEW x \in Seq(S), NEW y \in Seq(S)
  PROVE  /\ IsPrefix(s, s) /\ IsPrefix(<< >>, s)
         /\ IsPrefix(s, x) /\ IsPrefix(x, y) => IsPrefix(s, y)
         /\ IsPrefix(s, x) /\ IsPrefix(x, s) => s = x
         /\ IsPrefix(s, y) /\ IsPrefix(x, y) => IsPrefix(s, x) \/ IsPrefix(x, s)
         /\ IsPrefix(s, x) /\ Len(s) >= Len(x) => s = x
<1>1. /\ Len(s) \in Nat /\ Len(x) \in Nat /\ Len(y) \in Nat /\ << >> \in Seq(S)
      /\ Len(<< >>) = 0
  OBVIOUS
<1>2. IsPrefix(s, s) /\ IsPrefix(<< >>, s)
  <2>1. IsPrefix(s, s)
    BY <1>1, PrefixElements
  <2>2. IsPrefix(<< >>, s)
    BY <1>1 DEF IsPrefix
  <2> QED BY <2>1, <2>2
<1>3. IsPrefix(s, x) /\ IsPrefix(x, y) => IsPrefix(s, y)
  BY <1>1, PrefixElements
<1>4. IsPrefix(s, x) /\ Len(s) >= Len(x) => s = x
  BY <1>1, PrefixElements, SeqEqual
<1>5. IsPrefix(s, x) /\ IsPrefix(x, s) => s = x
  BY <1>1, <1>4, PrefixElements
<1>6. ASSUME IsPrefix(s, y), IsPrefix(x, y) PROVE IsPrefix(s, x) \/ IsPrefix(x, s)
  <2>1. CASE Len(s) <= Len(x)
    BY <1>1, <1>6, <2>1, PrefixElements
  <2>2. CASE Len(x) <= Len(s)
    BY <1>1, <1>6, <2>2, PrefixElements
  <2> QED BY <1>1, <2>1, <2>2
<1> QED BY <1>2, <1>3, <1>4, <1>5, <1>6

\* The prefixes of a sequence with one more element.
LEMMA PrefixAppend ==
  ASSUME NEW S, NEW s \in Seq(S), NEW a \in S, NEW y \in Seq(S)
  PROVE  /\ IsPrefix(s, Append(s, a))
         /\ IsPrefix(y, Append(s, a)) => y = Append(s, a) \/ IsPrefix(y, s)
<1> DEFINE c == Append(s, a)
<1>1. c \in Seq(S) /\ Len(c) = Len(s) + 1 /\ \A k \in 1..Len(s) : c[k] = s[k]
  OBVIOUS
<1>2. Len(s) \in Nat /\ Len(y) \in Nat
  OBVIOUS
<1> HIDE DEF c
<1>3. IsPrefix(s, c)
  BY <1>1, <1>2, PrefixElements
<1>4. ASSUME IsPrefix(y, c), y # c PROVE IsPrefix(y, s)
  <2>1. Len(y) < Len(c)
    BY <1>1, <1>2, <1>4, PrefixOrder, PrefixElements
  <2> QED BY <1>1, <1>2, <1>4, <2>1, PrefixElements
<1> QED BY <1>3, <1>4 DEF c

\* Two prefixes of a line begin alike.
LEMMA PrefixSame ==
  ASSUME NEW S, NEW s \in Seq(S), NEW x \in Seq(S), NEW k \in 1..Len(s), k \in 1..Len(x),
         IsPrefix(s, x) \/ IsPrefix(x, s)
  PROVE  s[k] = x[k] /\ SubSeq(s, 1, k) = SubSeq(x, 1, k)
<1>1. Len(s) \in Nat /\ Len(x) \in Nat /\ k \in Nat /\ k <= Len(s) /\ k <= Len(x)
  OBVIOUS
<1>2. \A j \in 1..k : s[j] = x[j]
  BY <1>1, PrefixElements
<1> DEFINE p == SubSeq(s, 1, k)
           q == SubSeq(x, 1, k)
<1>3. p \in Seq(S) /\ Len(p) = k /\ \A j \in 1..k : p[j] = s[j]
  BY <1>1
<1>4. q \in Seq(S) /\ Len(q) = k /\ \A j \in 1..k : q[j] = x[j]
  BY <1>1
<1> HIDE DEF p, q
<1>5. p = q
  BY <1>2, <1>3, <1>4, SeqEqual
<1>6. s[k] = x[k]
  BY <1>1, <1>2
<1> QED BY <1>5, <1>6 DEF p, q

\* A sequence without its last element.
LEMMA FrontParts ==
  ASSUME NEW S, NEW q \in Seq(S), q # << >>
  PROVE  /\ Front(q) \in Seq(S) /\ Len(q) \in Nat /\ Len(Front(q)) \in Nat
         /\ Len(q) = Len(Front(q)) + 1
         /\ Len(q) \in 1..Len(q) /\ DOMAIN q = 1..Len(q) /\ SubSeq(q, 1, Len(q)) = q
         /\ Front(q) = SubSeq(q, 1, Len(q) - 1) /\ Last(q) = q[Len(q)] /\ Last(q) \in S
         /\ IsPrefix(Front(q), q) /\ ~IsPrefix(q, Front(q)) /\ Front(q) # q
         /\ q = Append(Front(q), Last(q))
<1>1. Len(q) \in Nat /\ Len(q) # 0 /\ DOMAIN q = 1..Len(q) /\ SubSeq(q, 1, Len(q)) = q
  OBVIOUS
<1>2. Len(q) \in 1..Len(q)
  BY <1>1
<1>3. Front(q) = SubSeq(q, 1, Len(q) - 1) /\ Last(q) = q[Len(q)] /\ Last(q) \in S
  BY <1>2 DEF Front, Last
<1> DEFINE f == Front(q)
<1>4. f \in Seq(S) /\ Len(f) = Len(q) - 1 /\ IsPrefix(f, q)
  <2>1. f \in Seq(S) /\ Len(f) = Len(q) - 1 /\ \A j \in 1..(Len(q) - 1) : f[j] = q[j]
    BY <1>1, <1>3
  <2> HIDE DEF f
  <2>2. Len(f) <= Len(q) /\ \A j \in 1..Len(f) : f[j] = q[j]
    BY <1>1, <2>1
  <2> QED BY <2>1, <2>2, PrefixElements
<1> HIDE DEF f
<1>5. Len(f) \in Nat /\ Len(q) = Len(f) + 1
  BY <1>1, <1>4
<1>6. ~IsPrefix(q, f) /\ f # q
  BY <1>1, <1>4, <1>5, PrefixElements
<1>7. q = Append(f, Last(q))
  <2> DEFINE a == Append(f, Last(q))
  <2>1. a \in Seq(S) /\ Len(a) = Len(q) /\ a[Len(q)] = Last(q) /\ \A k \in 1..Len(f) : a[k] = f[k]
    BY <1>3, <1>4, <1>5
  <2> HIDE DEF a
  <2>2. \A k \in 1..Len(f) : f[k] = q[k]
    BY <1>4, PrefixElements
  <2>3. ASSUME NEW k \in 1..Len(q) PROVE a[k] = q[k]
    BY <1>3, <1>5, <2>1, <2>2
  <2>4. a = q
    BY <2>1, <2>3, SeqEqual
  <2> QED BY <2>4 DEF a
<1> QED BY <1>1, <1>2, <1>3, <1>4, <1>5, <1>6, <1>7 DEF f

-----------------------------------------------------------------------------
(* The static graph, without loops: how the scopes of an edge's ends are   *)
(* related, and what lies upstream of what is inside a scatter.            *)

\* A graph without loops that has scatters, which is_acyclic and scope checks cover.
Loopless == LoopStarts = {} /\ Scatters # {}

Depth(r) == Len(ScopeChain[r])
Above(r) == Upstream[r] \cup {r}

\* It is acyclic, passed the scope checks, and has no loop's end either.
LEMMA LooplessGraph ==
  ASSUME Loopless
  PROVE  /\ Acyclic /\ ValidScopes /\ LoopEnds = {}
         /\ \A r \in Refs : Kind[r] \in {"action", "scatter", "gather"}
<1>1. Acyclic /\ ValidScopes
  BY GraphIsValid DEF ValidGraph, Loopless
<1>2. LoopEnds = {}
  <2>1. IsFiniteSet(LoopEnds)
    BY FS_Subset, GraphAssumption DEF LoopEnds
  <2>2. Cardinality(LoopStarts) = 0
    BY FS_EmptySet DEF Loopless
  <2>3. Cardinality(LoopEnds) = 0
    BY <2>2, GraphIsValid DEF ValidGraph
  <2> QED BY <2>1, <2>3, FS_EmptySet
<1> QED BY <1>1, <1>2, GraphAssumption DEF Loopless, LoopStarts, LoopEnds, Kinds

\* The chain of an action is that of what it depends on, with the scatter it is
\* added, or without the one the gather closes.
LEMMA EdgeChain ==
  ASSUME Loopless, NEW e \in Edges
  PROVE  /\ ScopeChain[e.src] \in Seq(Refs) /\ ScopeChain[e.dst] \in Seq(Refs)
         /\ Kind[e.dst] = "scatter" => ScopeChain[e.dst] = Append(ScopeChain[e.src], e.dst)
         /\ Kind[e.dst] = "gather" => /\ ScopeChain[e.src] # << >>
                                      /\ ScopeChain[e.dst] = Front(ScopeChain[e.src])
         /\ Kind[e.dst] = "action" => ScopeChain[e.dst] = ScopeChain[e.src]
<1> DEFINE src == ScopeChain[e.src]
           dst == ScopeChain[e.dst]
<1>1. e.src \in Refs /\ e.dst \in Refs /\ Kind[e.dst] \in {"action", "scatter", "gather"}
  BY EdgeEnds, LooplessGraph
<1>2. src \in Seq(Refs) /\ dst \in Seq(Refs)
  BY <1>1, ChainFacts, LooplessGraph
<1>3. CASE Kind[e.dst] = "scatter"
  <2>1. src = Front(dst)
    BY <1>3, LooplessGraph DEF ValidScopes
  <2>2. PICK q \in Seq(Refs) : dst = Append(q, e.dst)
    BY <1>1, <1>3, ChainFacts, LooplessGraph DEF ChainOf
  <2>3. src = q
    BY <1>1, <2>1, <2>2, AppendMembers
  <2> QED BY <1>2, <1>3, <2>2, <2>3
<1>4. CASE Kind[e.dst] # "scatter"
  BY <1>1, <1>2, <1>4, LooplessGraph DEF ValidScopes
<1> QED BY <1>3, <1>4

\* How long the chains are.
LEMMA EdgeDepth ==
  ASSUME Loopless, NEW e \in Edges
  PROVE  /\ Depth(e.src) \in Nat /\ Depth(e.dst) \in Nat
         /\ Kind[e.dst] = "scatter" => Depth(e.dst) = Depth(e.src) + 1
         /\ Kind[e.dst] = "gather" => Depth(e.src) = Depth(e.dst) + 1
         /\ Kind[e.dst] = "action" => Depth(e.dst) = Depth(e.src)
<1>1. e.dst \in Refs
  BY EdgeEnds
<1>2. ASSUME NEW q \in Seq(Refs), q # << >> PROVE Len(q) = Len(Front(q)) + 1
  BY <1>2, FrontParts
<1> QED BY <1>1, <1>2, EdgeChain DEF Depth

\* An action that depends on nothing.
LEMMA RootChain ==
  ASSUME Loopless, NEW r \in Refs, InEdges(r) = {}
  PROVE  /\ Kind[r] \in {"scatter", "action"}
         /\ Kind[r] = "scatter" => ScopeChain[r] = <<r>>
         /\ Kind[r] = "action" => ScopeChain[r] = << >>
<1>1. Kind[r] \in {"scatter", "action"}
  BY LooplessGraph, GraphIsValid DEF ValidGraph, Gathers
<1>2. ScopeChain[r] = ChainOf(r, << >>)
  BY ChainFacts, LooplessGraph DEF ParentChain
<1> QED BY <1>1, <1>2 DEF ChainOf

\* What is around an action is around what it depends on, save the scatter itself.
LEMMA ScopeInward ==
  ASSUME Loopless, NEW e \in Edges, NEW q, InScope(e.dst, q), e.dst # q
  PROVE  InScope(e.src, q)
<1>1. e.src \in Refs /\ e.dst \in Refs /\ Kind[e.dst] \in {"action", "scatter", "gather"}
  BY EdgeEnds, LooplessGraph
<1>2. CASE Kind[e.dst] = "action"
  BY <1>2, EdgeChain DEF InScope
<1>3. CASE Kind[e.dst] = "scatter"
  <2> DEFINE c == ScopeChain[e.src]
  <2>1. c \in Seq(Refs) /\ ScopeChain[e.dst] = Append(c, e.dst)
    BY <1>3, EdgeChain
  <2> HIDE DEF c
  <2>2. PICK i \in DOMAIN Append(c, e.dst) : Append(c, e.dst)[i] = q
    BY <2>1 DEF InScope
  <2>3. i \in DOMAIN c /\ c[i] = q
    BY <1>1, <2>1, <2>2, AppendMembers
  <2> QED BY <2>3 DEF InScope, c
<1>4. CASE Kind[e.dst] = "gather"
  BY <1>4, EdgeChain, FrontMembers DEF InScope
<1> QED BY <1>1, <1>2, <1>3, <1>4

\* What lies upstream of an action inside a scatter is inside too, or upstream
\* of the scatter.
LEMMA ScopeClosed ==
  ASSUME Loopless, NEW x \in Refs, NEW q \in Refs, InScope(x, q), NEW a \in Above(x)
  PROVE  a \in Refs /\ (InScope(a, q) \/ a \in Upstream[q])
<1> DEFINE C == {r \in Refs : InScope(r, q) \/ r \in Upstream[q]}
<1>1. CASE a = x
  BY <1>1
<1>2. CASE a \in Upstream[x]
  <2>1. ASSUME NEW e \in Edges, e.dst \in C \cup {x}
        PROVE  e.src \in C
    <3>1. e.src \in Refs /\ e.dst \in Refs
      BY EdgeEnds
    <3>2. CASE e.dst \in Upstream[q] \/ e.dst = q
      <4>1. e.src \in Upstream[q]
        BY <3>2, EdgeUpstream, UpstreamTransitive
      <4> QED BY <3>1, <4>1
    <3>3. CASE InScope(e.dst, q) /\ e.dst # q
      <4>1. InScope(e.src, q)
        BY <3>3, ScopeInward
      <4> QED BY <3>1, <4>1
    <3> QED BY <2>1, <3>2, <3>3
  <2>2. ClosedFor(C, x)
    BY <2>1 DEF ClosedFor
  <2> HIDE DEF C
  <2>3. C \in SUBSET Refs
    BY DEF C
  <2>4. a \in Refs /\ a \in C
    BY <1>2, <2>2, <2>3, UpstreamLeast
  <2> QED BY <2>4 DEF C
<1> QED BY <1>1, <1>2 DEF Above

\* The chain of a chain's k-th scatter is what the chain begins with.
ChainNests(r) == \A k \in DOMAIN ScopeChain[r] :
  ScopeChain[r][k] \in Refs /\ ScopeChain[ScopeChain[r][k]] = SubSeq(ScopeChain[r], 1, k)

\* Chains nest along an edge.
LEMMA NestsInward ==
  ASSUME Loopless, NEW e \in Edges, ChainNests(e.src)
  PROVE  ChainNests(e.dst)
<1> DEFINE src == ScopeChain[e.src]
           dst == ScopeChain[e.dst]
<1>1. e.dst \in Refs /\ Kind[e.dst] \in {"action", "scatter", "gather"}
  BY EdgeEnds, LooplessGraph
<1>2. src \in Seq(Refs) /\ dst \in Seq(Refs) /\ Len(src) \in Nat /\ Len(dst) \in Nat
      /\ DOMAIN src = 1..Len(src) /\ DOMAIN dst = 1..Len(dst)
  BY EdgeChain
<1>3. CASE Kind[e.dst] = "action"
  BY <1>3, EdgeChain DEF ChainNests
<1>4. ASSUME NEW k \in 1..Len(src), k \in 1..Len(dst), IsPrefix(src, dst) \/ IsPrefix(dst, src)
      PROVE  dst[k] \in Refs /\ ScopeChain[dst[k]] = SubSeq(dst, 1, k)
  <2>1. src[k] = dst[k] /\ SubSeq(src, 1, k) = SubSeq(dst, 1, k)
    BY <1>2, <1>4, PrefixSame
  <2>2. src[k] \in Refs /\ ScopeChain[src[k]] = SubSeq(src, 1, k)
    BY <1>2 DEF ChainNests
  <2> QED BY <2>1, <2>2
<1>5. CASE Kind[e.dst] = "scatter"
  <2>1. dst = Append(src, e.dst)
    BY <1>5, EdgeChain
  <2>2. IsPrefix(src, dst) /\ Len(dst) = Len(src) + 1 /\ dst[Len(dst)] = e.dst
    BY <1>1, <1>2, <2>1, PrefixAppend
  <2>3. SubSeq(dst, 1, Len(dst)) = dst
    BY <1>2
  <2>4. ASSUME NEW k \in 1..Len(dst)
        PROVE  dst[k] \in Refs /\ ScopeChain[dst[k]] = SubSeq(dst, 1, k)
    <3>1. CASE k = Len(dst)
      BY <1>1, <2>2, <2>3, <3>1
    <3>2. CASE k # Len(dst)
      <4>1. k \in 1..Len(src)
        BY <1>2, <2>2, <3>2
      <4> QED BY <1>4, <2>2, <4>1
    <3> QED BY <3>1, <3>2
  <2> QED BY <1>2, <2>4 DEF ChainNests
<1>6. CASE Kind[e.dst] = "gather"
  <2>1. src # << >> /\ dst = Front(src)
    BY <1>6, EdgeChain
  <2>2. IsPrefix(dst, src) /\ Len(src) = Len(dst) + 1
    BY <1>2, <2>1, FrontParts
  <2>3. ASSUME NEW k \in 1..Len(dst)
        PROVE  dst[k] \in Refs /\ ScopeChain[dst[k]] = SubSeq(dst, 1, k)
    <3>1. k \in 1..Len(src)
      BY <1>2, <2>2
    <3> QED BY <1>4, <2>2, <3>1
  <2> QED BY <1>2, <2>3 DEF ChainNests
<1> QED BY <1>1, <1>3, <1>5, <1>6

\* So they nest everywhere.
LEMMA ChainsNest ==
  ASSUME Loopless, NEW x \in Refs
  PROVE  ChainNests(x)
<1> SUFFICES ASSUME ~ChainNests(x) PROVE FALSE
  OBVIOUS
<1> DEFINE U == {r \in Refs : ~ChainNests(r)}
<1>1. PICK r \in U : \A e \in InEdges(r) : e.src \notin U
  <2>1. U \in SUBSET Refs /\ U # {}
    OBVIOUS
  <2> QED BY <2>1, LooplessGraph DEF Acyclic
<1>2. CASE InEdges(r) = {}
  <2>1. CASE ScopeChain[r] = << >>
    BY <1>1, <2>1 DEF ChainNests
  <2>2. CASE ScopeChain[r] = <<r>>
    <3>1. \A k \in DOMAIN <<r>> : k = 1
      OBVIOUS
    <3>2. <<r>> \in Seq(Refs) /\ <<r>> # << >> /\ Len(<<r>>) = 1 /\ <<r>>[1] = r
      BY <1>1
    <3>3. SubSeq(<<r>>, 1, 1) = <<r>>
      BY <3>2, FrontParts
    <3> QED BY <1>1, <2>2, <3>1, <3>2, <3>3 DEF ChainNests
  <2> QED BY <1>1, <1>2, <2>1, <2>2, RootChain
<1>3. CASE InEdges(r) # {}
  <2>1. PICK e \in Edges : e.dst = r /\ e \in InEdges(r)
    BY <1>3 DEF InEdges
  <2>2. ChainNests(e.src)
    BY <1>1, <2>1, EdgeEnds
  <2> QED BY <1>1, <2>1, <2>2, NestsInward
<1> QED BY <1>2, <1>3

\* A gather and the scatter it closes: the parent edge comes from inside it, and
\* it is one level further in than the gather.
LEMMA ClosedFacts ==
  ASSUME Loopless, NEW g \in Gathers
  PROVE  /\ g \in Refs /\ ClosedScope(g) \in Scatters /\ ClosedScope(g) \in Refs
         /\ Depth(g) \in Nat /\ Depth(ClosedScope(g)) = Depth(g) + 1
         /\ InEdges(g) # {}
         /\ \E e \in InEdges(g) : /\ e \in Edges /\ InScope(e.src, ClosedScope(g))
                                  /\ ScopeChain[e.src] # << >>
                                  /\ Last(ScopeChain[e.src]) = ClosedScope(g)
<1>1. g \in Refs /\ Kind[g] = "gather" /\ InEdges(g) # {}
  BY GraphIsValid DEF ValidGraph, Gathers
<1>2. PICK e \in InEdges(g) : e \in Edges /\ e.src = Parent(g) /\ Parent(g) \in Refs
  BY <1>1, ParentEdge
<1> DEFINE q == ScopeChain[e.src]
<1>3. q \in Seq(Refs) /\ q # << >> /\ ScopeChain[g] = Front(q)
  BY <1>1, <1>2, EdgeChain DEF InEdges
<1>4. Len(q) \in 1..Len(q) /\ DOMAIN q = 1..Len(q) /\ SubSeq(q, 1, Len(q)) = q
  BY <1>3
<1>5. ClosedScope(g) = q[Len(q)] /\ Last(q) = ClosedScope(g)
  BY <1>2 DEF ClosedScope, Parent, Last
<1>6. q[Len(q)] \in Refs /\ ScopeChain[q[Len(q)]] = q
  BY <1>2, <1>4, ChainsNest DEF ChainNests
<1>7. Kind[ClosedScope(g)] = "scatter"
  BY LooplessGraph DEF ValidScopes
<1>8. Depth(g) \in Nat /\ Len(q) = Depth(g) + 1
  BY <1>1, <1>2, EdgeDepth DEF Depth, InEdges
<1>9. InScope(e.src, ClosedScope(g))
  BY <1>4, <1>5 DEF InScope
<1> QED BY <1>1, <1>2, <1>3, <1>5, <1>6, <1>7, <1>8, <1>9 DEF Depth, Scatters

-----------------------------------------------------------------------------
(* Markers in a stream.                                                    *)

MarkedIn(e, s) == edges[<<e, s>>] # "PENDING"

\* Every dependency of r is processed in stream s.
AllIn(r, s) == \A e \in InEdges(r) : MarkedIn(e, s)

\* The task is fed: an action without dependencies is run in the root stream only.
FedIn(r, s) == (InEdges(r) = {} => s = Root) /\ AllIn(r, s)

\* A step processes the last dependency of u.
NewlyFed(u) == ~AllIn(u[1], u[2]) /\ AllIn(u[1], u[2])'

\* The edges into d that markers f leave to be processed in stream s.
PendingAt(f, d, s) == {e \in InEdges(d) : f[<<e, s>>] = "PENDING"}

Element == Scatters \X (Nat \cup {Skip})

\* A stream id and its parts.
LEMMA StreamFacts ==
  ASSUME NEW s \in Streams
  PROVE  /\ s \in Seq(Element) /\ Len(s) \in Nat /\ DOMAIN s = 1..Len(s)
         /\ s = Root <=> Len(s) = 0
         /\ s # Root => /\ Front(s) \in Streams /\ Len(s) = Len(Front(s)) + 1
                        /\ Last(s) \in Element /\ Last(s)[1] \in Scatters
                        /\ Last(s)[2] \in Nat \cup {Skip}
                        /\ Last(s) = <<Last(s)[1], Last(s)[2]>>
                        /\ Opener(s) \in Tasks /\ Opener(s)[1] = Last(s)[1]
                        /\ Opener(s)[2] = Front(s)
                        /\ s = Append(Front(s), Last(s))
                        /\ IsPrefix(Front(s), s)
<1>1. s \in Seq(Element)
  BY SchedulerAssumption DEF StreamIds, Element
<1>2. Len(s) \in Nat /\ DOMAIN s = 1..Len(s) /\ (s = Root <=> Len(s) = 0)
  BY <1>1 DEF Root
<1>3. ASSUME s # Root
      PROVE  /\ Front(s) \in Streams /\ Len(s) = Len(Front(s)) + 1
             /\ Last(s) \in Element /\ s = Append(Front(s), Last(s))
             /\ IsPrefix(Front(s), s)
  BY <1>1, <1>3, FrontParts, SchedulerAssumption DEF Root
<1>4. ASSUME NEW p \in Element
      PROVE  p[1] \in Scatters /\ p[2] \in Nat \cup {Skip} /\ p = <<p[1], p[2]>>
  BY DEF Element
<1>5. Scatters \subseteq Refs
  BY DEF Scatters
<1> QED BY <1>1, <1>2, <1>3, <1>4, <1>5 DEF Opener, Tasks

\* The parts of a task.
LEMMA TaskFacts ==
  ASSUME NEW t \in Tasks
  PROVE  t[1] \in Refs /\ t[2] \in Streams /\ t = <<t[1], t[2]>>
  BY DEF Tasks

-----------------------------------------------------------------------------
(* A task ends and _queue_tasks marks its edges in the streams S.          *)

\* What is marked, queued and running afterwards.
LEMMA FeedMarks ==
  ASSUME TypeOK, NEW t \in Tasks, Finish(t), NEW S, NEW skip, NEW late,
         QueueTasksIn(t[1], S, skip, late)
  PROVE  /\ \A e \in Edges : \A s \in Streams :
              edges'[<<e, s>>] = IF e.src = t[1] /\ s \in S
                                   THEN IF e \in skip THEN "SKIPPED" ELSE "VISITED"
                                   ELSE edges[<<e, s>>]
         /\ \A e \in Edges : \A s \in Streams :
              MarkedIn(e, s)' <=> MarkedIn(e, s) \/ (e.src = t[1] /\ s \in S)
         /\ \A u \in Tasks : Running(u)' <=> Running(u) /\ u # t
         /\ \A u \in Tasks : queued'[u] = queued[u] + (IF u \in Ready(t[1], S) THEN 1 ELSE 0)
         /\ \A u \in Tasks : indegrees'[u] = indegrees[u]
                               - (IF u[2] \in S THEN Links[<<t[1], u[1]>>] ELSE 0)
<1>1. ASSUME NEW e \in Edges, NEW s \in Streams
      PROVE  edges'[<<e, s>>] = IF e.src = t[1] /\ s \in S
               THEN IF e \in skip THEN "SKIPPED" ELSE "VISITED"
               ELSE edges[<<e, s>>]
  <2>1. <<e, s>> \in Edges \X Streams /\ (e \in OutEdges(t[1]) <=> e.src = t[1])
    BY DEF OutEdges
  <2>2. edges'[<<e, s>>] = IF e \in OutEdges(t[1]) /\ s \in S
               THEN IF e \in skip THEN "SKIPPED" ELSE "VISITED"
               ELSE edges[<<e, s>>]
    BY <2>1 DEF QueueTasksIn
  <2> QED BY <2>1, <2>2
<1>2. ASSUME NEW e \in Edges, NEW s \in Streams
      PROVE  MarkedIn(e, s)' <=> MarkedIn(e, s) \/ (e.src = t[1] /\ s \in S)
  BY <1>1 DEF MarkedIn
<1>3. \A u \in Tasks : Running(u)' <=> Running(u) /\ u # t
  BY DEF Finish, Running, TypeOK
<1>4. \A u \in Tasks : queued'[u] = queued[u] + (IF u \in Ready(t[1], S) THEN 1 ELSE 0)
  BY DEF QueueTasksIn, TypeOK
<1>5. ASSUME NEW u \in Tasks
      PROVE  indegrees'[u] = indegrees[u] - (IF u[2] \in S THEN Links[<<t[1], u[1]>>] ELSE 0)
  <2>1. indegrees[u] \in Int
    BY DEF TypeOK
  <2> QED BY <2>1 DEF QueueTasksIn
<1> QED BY <1>1, <1>2, <1>3, <1>4, <1>5

\* The edges a task's counter counts.
LEMMA PendingAtFacts ==
  ASSUME NEW d \in Refs, NEW s, NEW f
  PROVE  /\ IsFiniteSet(PendingAt(f, d, s)) /\ Cardinality(PendingAt(f, d, s)) \in Nat
         /\ Cardinality(PendingAt(f, d, s)) = 0
              <=> \A e \in InEdges(d) : f[<<e, s>>] # "PENDING"
<1>1. IsFiniteSet(PendingAt(f, d, s))
  BY FS_Subset, GraphAssumption DEF InEdges, PendingAt
<1>2. Cardinality(PendingAt(f, d, s)) = 0 <=> PendingAt(f, d, s) = {}
  BY <1>1, FS_EmptySet
<1> QED BY <1>1, <1>2, FS_CardinalityType DEF PendingAt

\* The counters follow the markers, and the tasks that become ready are the ones
\* newly fed, if no edge is marked twice.
LEMMA FeedCounts ==
  ASSUME TypeOK, IndegreeAccounting, NEW t \in Tasks, Finish(t), NEW S, NEW skip, NEW late,
         QueueTasksIn(t[1], S, skip, late),
         \A e \in OutEdges(t[1]) : \A s \in Streams : s \in S => ~MarkedIn(e, s),
         NEW u \in Tasks
  PROVE  /\ indegrees'[u] = Cardinality(PendingAt(edges', u[1], u[2]))
         /\ u \in Ready(t[1], S) <=> NewlyFed(u)
<1> DEFINE L == OutEdges(t[1]) \cap InEdges(u[1])
           P == PendingAt(edges, u[1], u[2])
           Q == PendingAt(edges', u[1], u[2])
<1>1. t[1] \in Refs /\ u[1] \in Refs /\ u[2] \in Streams
  BY TaskFacts
<1>2. /\ IsFiniteSet(P) /\ Cardinality(P) \in Nat /\ Cardinality(Q) \in Nat
      /\ Cardinality(P) = 0 <=> AllIn(u[1], u[2])
      /\ Cardinality(Q) = 0 <=> AllIn(u[1], u[2])'
  BY <1>1, PendingAtFacts DEF AllIn, MarkedIn
<1>3. indegrees[u] = Cardinality(P)
  BY DEF IndegreeAccounting, PendingAt
<1>4. indegrees'[u] = indegrees[u] - (IF u[2] \in S THEN Links[<<t[1], u[1]>>] ELSE 0)
  BY FeedMarks
<1>5. u \in Ready(t[1], S) <=> u[2] \in S /\ indegrees[u] \in 1..Links[<<t[1], u[1]>>]
  BY DEF Ready
<1>6. \A e \in Edges : MarkedIn(e, u[2])'
        <=> MarkedIn(e, u[2]) \/ (e.src = t[1] /\ u[2] \in S)
  <2>1. \A e \in Edges : \A s \in Streams :
          MarkedIn(e, s)' <=> MarkedIn(e, s) \/ (e.src = t[1] /\ s \in S)
    BY FeedMarks
  <2> QED BY <1>1, <2>1
<1>7. CASE u[2] \notin S
  <2>1. Q = P
    BY <1>6, <1>7 DEF PendingAt, MarkedIn, InEdges
  <2> HIDE DEF P, Q
  <2>2. ~NewlyFed(u)
    BY <1>2, <2>1 DEF NewlyFed
  <2> QED BY <1>2, <1>3, <1>4, <1>5, <1>7, <2>1, <2>2 DEF Q
<1>8. CASE u[2] \in S
  <2>1. L \subseteq P /\ Q = P \ L
    BY <1>1, <1>6, <1>8 DEF PendingAt, MarkedIn, InEdges, OutEdges
  <2>2. P \cap L = L
    BY <2>1
  <2>3. Cardinality(Q) = Cardinality(P) - Cardinality(L)
    <3> HIDE DEF P, Q, L
    <3>1. Cardinality(P \ L) = Cardinality(P) - Cardinality(P \cap L)
      BY <1>2, FS_Difference
    <3> QED BY <2>1, <2>2, <3>1
  <2>4. Links[<<t[1], u[1]>>] = Cardinality(L) /\ Cardinality(L) \in Nat
    <3>1. IsFiniteSet(L)
      BY <1>2, <2>1, FS_Subset
    <3> QED BY <1>1, <3>1, FS_CardinalityType DEF Links
  <2> HIDE DEF L, P, Q
  <2>5. u \in Ready(t[1], S) <=> Cardinality(P) \in 1..Cardinality(L)
    BY <1>3, <1>5, <1>8, <2>4
  <2>6. indegrees'[u] = Cardinality(Q)
    BY <1>2, <1>3, <1>4, <1>8, <2>3, <2>4
  <2>7. Cardinality(P) \in 1..Cardinality(L) <=> Cardinality(P) # 0 /\ Cardinality(Q) = 0
    BY <1>2, <2>3, <2>4
  <2> QED BY <1>2, <2>5, <2>6, <2>7 DEF Q, NewlyFed
<1> QED BY <1>7, <1>8

\* The newly fed tasks are queued, once; what was fed stays fed.
LEMMA FeedStep ==
  ASSUME TypeOK, IndegreeAccounting, SingleDispatch, NEW t \in Tasks, Running(t), Finish(t),
         NEW S, NEW skip, NEW late, QueueTasksIn(t[1], S, skip, late),
         \A e \in OutEdges(t[1]) : \A s \in Streams : s \in S => ~MarkedIn(e, s)
  PROVE  /\ IndegreeAccounting'
         /\ \A u \in Tasks : Active(u)' <=> (Active(u) /\ u # t) \/ NewlyFed(u)
         /\ \A u \in Tasks : Active(u)' => queued'[u] = (IF Running(u)' THEN 0 ELSE 1)
         /\ \A u \in Tasks : AllIn(u[1], u[2]) => AllIn(u[1], u[2])'
<1>1. IndegreeAccounting'
  <2>1. \A u \in Tasks : indegrees'[u] = Cardinality(PendingAt(edges', u[1], u[2]))
    BY FeedCounts
  <2> QED BY <2>1 DEF IndegreeAccounting, PendingAt
<1>2. \A u \in Tasks : AllIn(u[1], u[2]) => AllIn(u[1], u[2])'
  <2>1. ASSUME NEW u \in Tasks, AllIn(u[1], u[2]) PROVE AllIn(u[1], u[2])'
    <3>1. u[2] \in Streams
      BY TaskFacts
    <3>2. \A e \in Edges : \A s \in Streams :
            MarkedIn(e, s)' <=> MarkedIn(e, s) \/ (e.src = t[1] /\ s \in S)
      BY FeedMarks
    <3> QED BY <2>1, <3>1, <3>2 DEF AllIn, InEdges
  <2> QED BY <2>1
<1>3. ASSUME NEW u \in Tasks
      PROVE  /\ Active(u)' <=> (Active(u) /\ u # t) \/ NewlyFed(u)
             /\ Active(u)' => queued'[u] = (IF Running(u)' THEN 0 ELSE 1)
  <2>1. /\ queued[u] \in Nat /\ queued[t] \in Nat
        /\ queued'[u] = queued[u] + (IF NewlyFed(u) THEN 1 ELSE 0)
        /\ Running(u)' <=> Running(u) /\ u # t
    <3>1. u \in Ready(t[1], S) <=> NewlyFed(u)
      BY FeedCounts
    <3>2. queued'[u] = queued[u] + (IF u \in Ready(t[1], S) THEN 1 ELSE 0)
      BY FeedMarks
    <3>3. Running(u)' <=> Running(u) /\ u # t
      BY FeedMarks
    <3>4. queued[u] \in Nat /\ queued[t] \in Nat
      BY DEF TypeOK
    <3> QED BY <3>1, <3>2, <3>3, <3>4
  <2>2. Active(u) => queued[u] = (IF Running(u) THEN 0 ELSE 1) /\ AllIn(u[1], u[2])
    BY DEF SingleDispatch, AllIn, MarkedIn
  <2>3. Active(u) => ~NewlyFed(u)
    BY <2>2 DEF NewlyFed
  <2> QED BY <2>1, <2>2, <2>3 DEF Active
<1> QED BY <1>1, <1>2, <1>3

-----------------------------------------------------------------------------
(* Where edges are marked, in a graph without loops.                       *)

\* The scatters a stream goes through.
Names(s) == [k \in DOMAIN s |-> s[k][1]]

\* Some scatter on the way was empty or skipped.
Skipping(s) == \E k \in DOMAIN s : s[k][2] = Skip

\* A stream in which what lies behind the gather of its scatter is skipped: the skip
\* stream of a skipped scatter, or one where an outermost gather failed.
Aside(s) == Len(s) = 1 \/ (IsSkipStream(s) /\ Opener(s) \notin DOMAIN openStreams)

\* A stream is as deep as the action whose edge is marked there, and went through the
\* scatters around it, and only through scatters upstream; deeper, or below a skipped
\* scatter, everything is skipped.
PlacedAt(e, s) ==
  /\ s \in streams
  /\ Len(s) >= Depth(e.src)
  /\ Len(s) = Depth(e.src) => Names(s) = ScopeChain[e.src]
  /\ \A q \in Refs : InScope(e.src, q) => \E k \in DOMAIN s : s[k][1] = q
  /\ Skipping(s) \/ Len(s) > Depth(e.src) => edges[<<e, s>>] = "SKIPPED"
  /\ Len(s) > Depth(e.src) => Aside(s)
  /\ \A k \in DOMAIN s : s[k][1] \in Above(e.src)
Placed == \A e \in Edges : \A s \in Streams : MarkedIn(e, s) => PlacedAt(e, s)

\* The streams g's scatter opened in s are all at the gather, and past it.
Lifted(g, s) ==
  /\ <<ClosedScope(g), s>> \in DOMAIN openStreams
  /\ \A c \in Streams : c \in streams /\ c # Root /\ Opener(c) = <<ClosedScope(g), s>>
       => FedIn(g, c) /\ ~Active(<<g, c>>)

\* Who marked the edge: the action in this stream, the scatter that opened it, or the
\* gather, skipping here or coming up from all the streams of its scatter.
SourcedAt(e, s) ==
  /\ Kind[e.src] = "action" => FedIn(e.src, s)
  /\ Kind[e.src] = "scatter" => s # Root /\ Last(s)[1] = e.src
  /\ Kind[e.src] = "gather" => FedIn(e.src, s) \/ Lifted(e.src, s)
Sourced == \A e \in Edges : \A s \in Streams : MarkedIn(e, s) => SourcedAt(e, s)

\* A stream was opened by a scatter that ran, in a stream of the tree.
TreeAt(s) ==
  /\ Opener(s) \in Tasks /\ Front(s) \in streams
  /\ FedIn(Last(s)[1], Front(s)) /\ ~Active(Opener(s))
  /\ IF IsSkipStream(s) THEN taskStreams[Opener(s)] = 0
     ELSE Opener(s) \in DOMAIN openStreams /\ Last(s)[2] < taskStreams[Opener(s)]
Tree ==
  /\ Root \in streams
  /\ \A s \in streams \ {Root} : TreeAt(s)
  /\ \A s, x \in Streams : s \in streams /\ IsPrefix(x, s) => x \in streams

\* A scatter that opened streams ran, as deep as it stands in the graph.
OpenAt(t) ==
  /\ t[1] \in Scatters /\ FedIn(t[1], t[2]) /\ ~Active(t)
  /\ Len(t[2]) + 1 = Depth(t[1]) /\ ~Skipping(t[2]) /\ t[2] \in streams
Opened ==
  /\ \A t \in DOMAIN openStreams : OpenAt(t)
  /\ \A t \in Tasks \ DOMAIN openStreams : taskStreams[t] = 0

\* Below the root, an edge is marked once along a line of streams.
Line ==
  \A e \in Edges : \A s, x \in Streams :
    s # Root /\ IsPrefix(s, x) /\ MarkedIn(e, s) /\ MarkedIn(e, x) => s = x

\* Where an edge is marked, nothing above it waits or runs, there or further in.
Settled ==
  \A e \in Edges : \A s, x \in Streams :
    s # Root /\ IsPrefix(s, x) /\ MarkedIn(e, s) =>
      \A r \in Above(e.src) : ~Active(<<r, x>>)

\* A task that waits or runs does so once, is fed and has marked nothing.
OwnedAt(t) ==
  /\ queued[t] = (IF Running(t) THEN 0 ELSE 1)
  /\ FedIn(t[1], t[2])
  /\ \A e \in OutEdges(t[1]) : ~MarkedIn(e, t[2])
Owned == \A t \in Tasks : Active(t) => OwnedAt(t)

MarkInv == Placed /\ Sourced /\ Tree /\ Opened /\ Line /\ Settled /\ Owned

-----------------------------------------------------------------------------
(* Where a fed task is.                                                    *)

\* The names of a stream are its chain of scatters.
LEMMA NamesFacts ==
  ASSUME NEW s \in Streams
  PROVE  /\ Names(s) \in Seq(Refs) /\ Len(Names(s)) = Len(s)
         /\ s = Root => Names(s) = << >>
         /\ s # Root => /\ Names(s) # << >>
                        /\ Front(Names(s)) = Names(Front(s)) /\ Last(Names(s)) = Last(s)[1]
                        /\ Names(s) = Append(Names(Front(s)), Last(s)[1])
<1>1. ASSUME NEW x \in Streams
      PROVE  /\ Names(x) \in Seq(Refs) /\ Len(Names(x)) = Len(x)
             /\ \A k \in 1..Len(x) : Names(x)[k] = x[k][1]
  <2>1. x \in Seq(Element) /\ Len(x) \in Nat /\ DOMAIN x = 1..Len(x)
    BY StreamFacts
  <2>2. \A p \in Element : p[1] \in Refs
    BY DEF Element, Scatters
  <2>3. \A k \in 1..Len(x) : x[k] \in Element
    BY <2>1
  <2>4. Names(x) = [k \in 1..Len(x) |-> x[k][1]]
    BY <2>1 DEF Names
  <2>5. Names(x) \in [1..Len(x) -> Refs]
    BY <2>2, <2>3, <2>4
  <2>6. Names(x) \in Seq(Refs) /\ Len(Names(x)) = Len(x)
    BY <2>1, <2>5
  <2> QED BY <2>4, <2>6
<1>2. s = Root => Names(s) = << >>
  BY <1>1, StreamFacts
<1>3. ASSUME s # Root
      PROVE  /\ Names(s) # << >>
             /\ Front(Names(s)) = Names(Front(s)) /\ Last(Names(s)) = Last(s)[1]
             /\ Names(s) = Append(Names(Front(s)), Last(s)[1])
  <2>1. /\ Front(s) \in Streams /\ Len(s) = Len(Front(s)) + 1 /\ IsPrefix(Front(s), s)
        /\ s \in Seq(Element) /\ Front(s) \in Seq(Element) /\ s # << >>
        /\ Len(s) \in Nat /\ Len(Front(s)) \in Nat
    BY <1>3, StreamFacts DEF Root
  <2>2. Last(s) = s[Len(s)]
    BY DEF Last
  <2> DEFINE n == Names(s)
             f == Names(Front(s))
  <2>3. n \in Seq(Refs) /\ Len(n) = Len(s) /\ \A k \in 1..Len(s) : n[k] = s[k][1]
    BY <1>1
  <2>4. f \in Seq(Refs) /\ Len(f) = Len(Front(s)) /\ \A k \in 1..Len(f) : f[k] = Front(s)[k][1]
    BY <1>1, <2>1
  <2>5. \A k \in 1..Len(Front(s)) : Front(s)[k] = s[k]
    BY <2>1, PrefixElements
  <2> HIDE DEF n, f
  <2>6. n # << >> /\ Len(n) = Len(f) + 1 /\ Last(n) = Last(s)[1]
    BY <2>1, <2>2, <2>3, <2>4 DEF Last
  <2>7. /\ Front(n) \in Seq(Refs) /\ Len(Front(n)) = Len(f) /\ n = Append(Front(n), Last(n))
        /\ IsPrefix(Front(n), n)
    BY <2>3, <2>4, <2>6, FrontParts
  <2>8. \A k \in 1..Len(f) : Front(n)[k] = f[k]
    <3>1. \A k \in 1..Len(f) : Front(n)[k] = n[k]
      BY <2>3, <2>7, PrefixElements
    <3>2. \A k \in 1..Len(f) : k \in 1..Len(s) /\ k \in 1..Len(Front(s))
      BY <2>1, <2>4
    <3> QED BY <2>3, <2>4, <2>5, <3>1, <3>2
  <2>9. Front(n) = f
    BY <2>4, <2>7, <2>8, SeqEqual
  <2> QED BY <2>6, <2>7, <2>9 DEF n, f
<1> QED BY <1>1, <1>2, <1>3

\* The depth of what an action depends on.
Outer(r) == CASE Kind[r] = "scatter" -> Depth(r) - 1
              [] Kind[r] = "gather" -> Depth(r) + 1
              [] OTHER -> Depth(r)

\* It is the depth of the sources of its edges.
LEMMA OuterFacts ==
  ASSUME Loopless, NEW r \in Refs
  PROVE  /\ Outer(r) \in Nat
         /\ \A e \in InEdges(r) : e \in Edges /\ Depth(e.src) = Outer(r)
         /\ InEdges(r) = {} => Outer(r) = 0
<1>1. Kind[r] \in {"action", "scatter", "gather"}
  BY LooplessGraph
<1>2. ASSUME NEW e \in InEdges(r)
      PROVE  e \in Edges /\ e.dst = r /\ Depth(e.src) = Outer(r) /\ Depth(e.src) \in Nat
  BY <1>1, EdgeDepth DEF InEdges, Outer
<1>3. ASSUME InEdges(r) = {} PROVE Outer(r) = 0
  <2>1. Len(<<r>>) = 1 /\ Len(<< >>) = 0
    OBVIOUS
  <2>2. CASE Kind[r] = "scatter"
    <3>1. Depth(r) = 1
      BY <1>3, <2>1, <2>2, RootChain DEF Depth
    <3> QED BY <2>2, <3>1 DEF Outer
  <2>3. CASE Kind[r] = "action"
    <3>1. Depth(r) = 0
      BY <1>3, <2>1, <2>3, RootChain DEF Depth
    <3> QED BY <2>3, <3>1 DEF Outer
  <2> QED BY <1>3, <2>2, <2>3, RootChain
<1> QED BY <1>2, <1>3

\* What Placed says of a fed task.
LEMMA FedPlaces ==
  ASSUME Loopless, Placed, Root \in streams, NEW r \in Refs, NEW s \in Streams, FedIn(r, s)
  PROVE  /\ s \in streams /\ Outer(r) \in Nat /\ Len(s) \in Nat /\ Len(s) >= Outer(r)
         /\ Len(s) = Outer(r) =>
              /\ Kind[r] = "scatter" => ScopeChain[r] = Append(Names(s), r)
              /\ Kind[r] = "gather" => /\ s # Root /\ ScopeChain[r] = Names(Front(s))
                                       /\ Last(s)[1] = ClosedScope(r)
              /\ Kind[r] = "action" => ScopeChain[r] = Names(s)
         /\ \A q \in Refs : InScope(r, q) /\ q # r => \E k \in DOMAIN s : s[k][1] = q
         /\ r \in Gathers => s # Root /\ \E k \in DOMAIN s : s[k][1] = ClosedScope(r)
         /\ \A k \in DOMAIN s : s[k][1] \in Upstream[r]
         /\ Skipping(s) \/ Len(s) > Outer(r) =>
              InEdges(r) # {} /\ \A e \in InEdges(r) : edges[<<e, s>>] = "SKIPPED"
         /\ Len(s) > Outer(r) => Aside(s)
<1>1. Outer(r) \in Nat /\ Len(s) \in Nat /\ Kind[r] \in {"action", "scatter", "gather"}
  BY OuterFacts, StreamFacts, LooplessGraph
<1>2. CASE InEdges(r) = {}
  <2>1. s = Root /\ Outer(r) = 0 /\ Len(s) = 0 /\ Kind[r] \in {"scatter", "action"}
        /\ DOMAIN s = {} /\ Names(s) = << >>
    BY <1>2, OuterFacts, RootChain, StreamFacts, NamesFacts DEF FedIn, Root
  <2>2. r \notin Gathers
    BY <2>1 DEF Gathers
  <2>3. ~Skipping(s)
    BY <2>1 DEF Skipping
  <2>4. ASSUME NEW q \in Refs, InScope(r, q) PROVE q = r
    <3>1. \A k \in DOMAIN ScopeChain[r] : ScopeChain[r][k] = r
      BY <1>2, RootChain
    <3> QED BY <2>4, <3>1 DEF InScope
  <2>5. << >> \in Seq(Refs) /\ Append(<< >>, r) = <<r>>
    OBVIOUS
  <2>6. /\ Kind[r] = "scatter" => ScopeChain[r] = Append(Names(s), r)
        /\ Kind[r] = "action" => ScopeChain[r] = Names(s)
    BY <1>2, <2>1, <2>5, RootChain
  <2> QED BY <1>1, <2>1, <2>2, <2>3, <2>4, <2>6
<1>3. CASE InEdges(r) # {}
  <2>1. ASSUME NEW e \in InEdges(r)
        PROVE  e \in Edges /\ e.dst = r /\ e.src \in Refs /\ PlacedAt(e, s) /\ Depth(e.src) = Outer(r)
    BY OuterFacts, EdgeEnds DEF Placed, FedIn, AllIn, InEdges
  <2>2. PICK e \in InEdges(r) : r \in Gathers => /\ InScope(e.src, ClosedScope(r))
                                                 /\ Last(ScopeChain[e.src]) = ClosedScope(r)
    BY <1>3, ClosedFacts
  <2>3. s \in streams /\ Len(s) >= Outer(r) /\ (Len(s) > Outer(r) => Aside(s))
    BY <2>1 DEF PlacedAt
  <2>4. Skipping(s) \/ Len(s) > Outer(r) => \A f \in InEdges(r) : edges[<<f, s>>] = "SKIPPED"
    BY <2>1 DEF PlacedAt
  <2>5. \A k \in DOMAIN s : s[k][1] \in Upstream[r]
    <3>1. e.src \in Upstream[r] /\ Upstream[e.src] \subseteq Upstream[r]
      BY <2>1, EdgeUpstream, UpstreamTransitive
    <3> QED BY <2>1, <3>1 DEF PlacedAt, Above
  <2>6. \A q \in Refs : InScope(r, q) /\ q # r => \E k \in DOMAIN s : s[k][1] = q
    BY <2>1, ScopeInward DEF PlacedAt
  <2>7. r \in Gathers => s # Root /\ \E k \in DOMAIN s : s[k][1] = ClosedScope(r)
    <3>1. r \in Gathers => \E k \in DOMAIN s : s[k][1] = ClosedScope(r)
      BY <2>1, <2>2, ClosedFacts DEF PlacedAt
    <3>2. DOMAIN Root = {}
      BY DEF Root
    <3> QED BY <3>1, <3>2
  <2>8. ASSUME Len(s) = Outer(r)
        PROVE  /\ Kind[r] = "scatter" => ScopeChain[r] = Append(Names(s), r)
               /\ Kind[r] = "gather" => /\ s # Root /\ ScopeChain[r] = Names(Front(s))
                                        /\ Last(s)[1] = ClosedScope(r)
               /\ Kind[r] = "action" => ScopeChain[r] = Names(s)
    <3>1. Names(s) = ScopeChain[e.src]
      BY <2>1, <2>8 DEF PlacedAt
    <3>2. /\ Kind[r] = "scatter" => ScopeChain[r] = Append(Names(s), r)
          /\ Kind[r] = "gather" => ScopeChain[r] = Front(Names(s))
          /\ Kind[r] = "action" => ScopeChain[r] = Names(s)
      BY <2>1, <3>1, EdgeChain
    <3>3. Kind[r] = "gather" => r \in Gathers
      BY DEF Gathers
    <3> QED BY <2>2, <2>7, <3>1, <3>2, <3>3, NamesFacts
  <2> QED BY <1>1, <1>3, <2>3, <2>4, <2>5, <2>6, <2>7, <2>8
<1> QED BY <1>2, <1>3

-----------------------------------------------------------------------------
(* A task's edges spread over the streams S: what that keeps.              *)

\* The effect of such a step on markers, tasks and streams.
Spread(t, S) ==
  /\ \A e \in Edges : \A s \in Streams :
       /\ MarkedIn(e, s)' <=> MarkedIn(e, s) \/ (e.src = t[1] /\ s \in S)
       /\ edges'[<<e, s>>] # edges[<<e, s>>] => e.src = t[1] /\ s \in S
  /\ \A u \in Tasks : Active(u)' <=> (Active(u) /\ u # t) \/ NewlyFed(u)
  /\ \A u \in Tasks : Active(u)' => queued'[u] = (IF Running(u)' THEN 0 ELSE 1)
  /\ streams \subseteq streams'
  /\ \A c \in streams' \ streams : c # Root /\ Opener(c) = t
  /\ DOMAIN openStreams \subseteq DOMAIN openStreams'
  /\ DOMAIN openStreams' \subseteq DOMAIN openStreams \cup {t}
  /\ \A u \in Tasks : u # t => taskStreams'[u] = taskStreams[u]

\* What the new markers have to be like.
Sound(t, S) ==
  /\ \A e \in OutEdges(t[1]) : \A y \in Streams : y \in S =>
       ~MarkedIn(e, y) /\ PlacedAt(e, y)' /\ SourcedAt(e, y)'
  \* an edge is not marked again along the line
  /\ \A e \in OutEdges(t[1]) : \A x, y \in Streams :
       y \in S /\ x # Root /\ y # Root /\ MarkedIn(e, x) => ~IsPrefix(x, y) /\ ~IsPrefix(y, x)
  /\ \A x, y \in Streams : x \in S /\ y \in S /\ IsPrefix(x, y) => x = y
  \* what is marked around the new markers is marked around the task
  /\ \A e \in Edges : \A x, y \in Streams :
       y \in S /\ MarkedIn(e, x) /\ IsPrefix(x, y) => IsPrefix(x, t[2])
  \* nothing above the task is left to run below the new markers, or the task there
  /\ \A x, y \in Streams : y \in S /\ y # Root /\ IsPrefix(y, x) =>
       \A a \in Above(t[1]) : Active(<<a, x>>) => <<a, x>> = t
  /\ \A y \in Streams : y \in S /\ Active(<<t[1], y>>) => <<t[1], y>> = t

\* And the new streams and the scatter that opened them.
Grown(t) ==
  /\ \A c \in streams' \ streams : TreeAt(c)'
  /\ \A c, x \in Streams : c \in streams' \ streams /\ IsPrefix(x, c) => x \in streams'
  /\ t \in DOMAIN openStreams' => OpenAt(t)'
  /\ t \in Tasks \ DOMAIN openStreams' => taskStreams'[t] = 0

\* What is fed stays fed.
LEMMA SpreadFed ==
  ASSUME NEW t \in Tasks, NEW S, Spread(t, S), NEW r, NEW s \in Streams
  PROVE  /\ AllIn(r, s) => AllIn(r, s)'
         /\ FedIn(r, s) => FedIn(r, s)'
<1>1. \A e \in Edges : MarkedIn(e, s) => MarkedIn(e, s)'
  BY DEF Spread
<1>2. AllIn(r, s) => AllIn(r, s)'
  BY <1>1 DEF AllIn, InEdges
<1> QED BY <1>2 DEF FedIn

\* What is fed and quiet stays quiet.
LEMMA SpreadQuiet ==
  ASSUME NEW t \in Tasks, NEW S, Spread(t, S), NEW u \in Tasks, AllIn(u[1], u[2]),
         ~Active(u) \/ u = t
  PROVE  ~Active(u)'
  BY DEF Spread, NewlyFed

\* What is newly fed has a new marker, of an edge out of the task.
LEMMA SpreadNew ==
  ASSUME Acyclic, NEW t \in Tasks, NEW S, Spread(t, S), NEW u \in Tasks, NewlyFed(u)
  PROVE  /\ u[2] \in S
         /\ \E e \in OutEdges(t[1]) : e \in Edges /\ e.dst = u[1]
         /\ t[1] \in Upstream[u[1]]
         /\ u[1] \notin Above(t[1])
         /\ FedIn(u[1], u[2])'
<1>1. u[1] \in Refs /\ u[2] \in Streams /\ t[1] \in Refs
  BY TaskFacts
<1>2. PICK e \in InEdges(u[1]) : ~MarkedIn(e, u[2])
  BY DEF NewlyFed, AllIn
<1>3. e \in Edges /\ e.dst = u[1] /\ MarkedIn(e, u[2])'
  BY <1>2 DEF NewlyFed, AllIn, InEdges
<1>4. e.src = t[1] /\ u[2] \in S
  BY <1>1, <1>2, <1>3 DEF Spread
<1>5. e \in OutEdges(t[1]) /\ t[1] \in Upstream[u[1]]
  BY <1>3, <1>4, EdgeUpstream DEF OutEdges
<1>6. u[1] \notin Above(t[1])
  <2>1. u[1] # t[1]
    BY <1>1, <1>5, NotOwnUpstream
  <2>2. u[1] \notin Upstream[t[1]]
    BY <1>1, <1>5, NotOwnUpstream, UpstreamTransitive
  <2> QED BY <2>1, <2>2 DEF Above
<1>7. InEdges(u[1]) # {}
  BY <1>2
<1> QED BY <1>3, <1>4, <1>5, <1>6, <1>7 DEF FedIn, NewlyFed

\* Markers stay where they belong.
LEMMA SpreadPlaced ==
  ASSUME MarkInv, NEW t \in Tasks, Active(t), NEW S, Spread(t, S), Sound(t, S)
  PROVE  Placed'
<1> SUFFICES ASSUME NEW e \in Edges, NEW s \in Streams, MarkedIn(e, s)'
             PROVE  PlacedAt(e, s)'
  BY DEF Placed
<1>1. CASE e.src = t[1] /\ s \in S
  BY <1>1 DEF Sound, OutEdges
<1>2. CASE ~(e.src = t[1] /\ s \in S)
  <2>1. MarkedIn(e, s) /\ edges'[<<e, s>>] = edges[<<e, s>>]
    BY <1>2 DEF Spread
  <2>2. PlacedAt(e, s)
    BY <2>1 DEF MarkInv, Placed
  <2>3. Aside(s) => Aside(s)'
    <3>1. IsSkipStream(s) => s # Root
      BY DEF IsSkipStream
    <3>2. IsSkipStream(s) => Opener(s) # t
      BY <2>2, <3>1 DEF PlacedAt, MarkInv, Tree, TreeAt
    <3>3. DOMAIN openStreams' \subseteq DOMAIN openStreams \cup {t}
      BY DEF Spread
    <3> QED BY <3>2, <3>3 DEF Aside
  <2>4. s \in streams'
    BY <2>2 DEF PlacedAt, Spread
  <2> QED BY <2>1, <2>2, <2>3, <2>4 DEF PlacedAt
<1> QED BY <1>1, <1>2

\* Their sources stay fed, and gathers that came up stay so.
LEMMA SpreadSourced ==
  ASSUME MarkInv, NEW t \in Tasks, Active(t), NEW S, Spread(t, S), Sound(t, S)
  PROVE  Sourced'
<1> SUFFICES ASSUME NEW e \in Edges, NEW s \in Streams, MarkedIn(e, s)'
             PROVE  SourcedAt(e, s)'
  BY DEF Sourced
<1>1. CASE e.src = t[1] /\ s \in S
  BY <1>1 DEF Sound, OutEdges
<1>2. CASE ~(e.src = t[1] /\ s \in S)
  <2>1. MarkedIn(e, s)
    BY <1>2 DEF Spread
  <2>2. SourcedAt(e, s)
    BY <2>1 DEF MarkInv, Sourced
  <2>3. FedIn(e.src, s) => FedIn(e.src, s)'
    BY SpreadFed
  <2>4. ASSUME Lifted(e.src, s) PROVE Lifted(e.src, s)'
    <3> DEFINE g == e.src
               sc == <<ClosedScope(g), s>>
    <3>1. sc \in DOMAIN openStreams /\ sc \in DOMAIN openStreams'
      BY <2>4 DEF Lifted, Spread
    <3>2. sc # t
      BY <3>1 DEF MarkInv, Opened, OpenAt
    <3>3. ASSUME NEW c \in Streams, c \in streams', c # Root, Opener(c) = sc
          PROVE  FedIn(g, c)' /\ ~Active(<<g, c>>)'
      <4>1. c \in streams
        BY <3>2, <3>3 DEF Spread
      <4>2. FedIn(g, c) /\ ~Active(<<g, c>>)
        BY <2>4, <3>3, <4>1 DEF Lifted
      <4>3. <<g, c>> \in Tasks
        BY EdgeEnds DEF Tasks
      <4> QED BY <4>2, <4>3, SpreadFed, SpreadQuiet DEF FedIn
    <3> QED BY <3>1, <3>3 DEF Lifted
  <2> QED BY <2>2, <2>3, <2>4 DEF SourcedAt
<1> QED BY <1>1, <1>2

\* The tree of streams grows at its leaves.
LEMMA SpreadTree ==
  ASSUME MarkInv, NEW t \in Tasks, Active(t), NEW S, Spread(t, S), Grown(t)
  PROVE  Tree'
<1>1. Root \in streams'
  BY DEF MarkInv, Tree, Spread
<1>2. ASSUME NEW s \in streams', s # Root PROVE TreeAt(s)'
  <2>1. CASE s \notin streams
    BY <1>2, <2>1 DEF Grown
  <2>2. CASE s \in streams
    <3>1. TreeAt(s)
      BY <1>2, <2>2 DEF MarkInv, Tree
    <3>2. Opener(s) \in Tasks /\ Opener(s)[1] = Last(s)[1] /\ Opener(s)[2] = Front(s)
      BY <3>1 DEF TreeAt, Opener
    <3>3. Opener(s) # t
      BY <3>1 DEF TreeAt
    <3>4. Front(s) \in Streams
      BY <3>2 DEF Tasks
    <3>5. FedIn(Last(s)[1], Front(s))'
      BY <3>1, <3>4, SpreadFed DEF TreeAt
    <3>6. ~Active(Opener(s))'
      BY <3>1, <3>2, SpreadQuiet DEF TreeAt, FedIn
    <3>7. Front(s) \in streams' /\ DOMAIN openStreams \subseteq DOMAIN openStreams'
      BY <3>1 DEF TreeAt, Spread
    <3>8. taskStreams'[Opener(s)] = taskStreams[Opener(s)]
      BY <3>2, <3>3 DEF Spread
    <3> QED BY <3>1, <3>5, <3>6, <3>7, <3>8 DEF TreeAt
  <2> QED BY <2>1, <2>2
<1>3. ASSUME NEW s \in Streams, NEW x \in Streams, s \in streams', IsPrefix(x, s)
      PROVE  x \in streams'
  BY <1>3 DEF MarkInv, Tree, Grown, Spread
<1> QED BY <1>1, <1>2, <1>3 DEF Tree

\* The scatters that opened streams stay as they are.
LEMMA SpreadOpened ==
  ASSUME TypeOK, MarkInv, NEW t \in Tasks, Active(t), NEW S, Spread(t, S), Grown(t)
  PROVE  Opened'
<1>1. ASSUME NEW k \in DOMAIN openStreams' PROVE OpenAt(k)'
  <2>1. CASE k = t
    BY <1>1, <2>1 DEF Grown
  <2>2. CASE k # t
    <3>1. k \in DOMAIN openStreams
      BY <1>1, <2>2 DEF Spread
    <3>2. OpenAt(k) /\ k \in Tasks
      BY <3>1 DEF MarkInv, Opened, TypeOK
    <3>3. k[2] \in Streams
      BY <3>2, TaskFacts
    <3>4. FedIn(k[1], k[2])'
      BY <3>2, <3>3, SpreadFed DEF OpenAt
    <3>5. ~Active(k)'
      BY <3>2, SpreadQuiet DEF OpenAt, FedIn
    <3>6. k[2] \in streams'
      BY <3>2 DEF OpenAt, Spread
    <3> QED BY <3>2, <3>4, <3>5, <3>6 DEF OpenAt
  <2> QED BY <2>1, <2>2
<1>2. ASSUME NEW k \in Tasks \ DOMAIN openStreams' PROVE taskStreams'[k] = 0
  <2>1. CASE k = t
    BY <1>2, <2>1 DEF Grown
  <2>2. CASE k # t
    BY <1>2, <2>2 DEF MarkInv, Opened, Spread
  <2> QED BY <2>1, <2>2
<1> QED BY <1>1, <1>2 DEF Opened

\* An edge stays marked once along a line of streams.
LEMMA SpreadLine ==
  ASSUME MarkInv, NEW t \in Tasks, NEW S, Spread(t, S), Sound(t, S)
  PROVE  Line'
<1> SUFFICES ASSUME NEW e \in Edges, NEW s \in Streams, NEW x \in Streams, s # Root,
                    IsPrefix(s, x), MarkedIn(e, s)', MarkedIn(e, x)'
             PROVE  s = x
  BY DEF Line
<1>1. x # Root
  <2>1. s \in Seq(Element) /\ Len(s) \in Nat /\ Len(s) # 0 /\ x \in Seq(Element)
    BY StreamFacts
  <2>2. Len(x) # 0
    BY <2>1, PrefixElements
  <2> QED BY <2>2, StreamFacts
<1>2. /\ MarkedIn(e, s) \/ (e.src = t[1] /\ s \in S)
      /\ MarkedIn(e, x) \/ (e.src = t[1] /\ x \in S)
  BY DEF Spread
<1>3. e.src = t[1] => e \in OutEdges(t[1])
  BY DEF OutEdges
<1>4. CASE MarkedIn(e, s) /\ MarkedIn(e, x)
  BY <1>4 DEF MarkInv, Line
<1>5. CASE s \in S /\ x \in S
  BY <1>5 DEF Sound
<1>6. CASE e.src = t[1] /\ s \in S /\ MarkedIn(e, x)
  BY <1>1, <1>3, <1>6 DEF Sound
<1>7. CASE e.src = t[1] /\ x \in S /\ MarkedIn(e, s)
  BY <1>1, <1>3, <1>7 DEF Sound
<1> QED BY <1>2, <1>4, <1>5, <1>6, <1>7

\* What is above a marked edge stays quiet.
LEMMA SpreadSettled ==
  ASSUME Acyclic, MarkInv, NEW t \in Tasks, Active(t), NEW S, Spread(t, S), Sound(t, S)
  PROVE  Settled'
<1> SUFFICES ASSUME NEW e \in Edges, NEW s \in Streams, NEW x \in Streams, s # Root,
                    IsPrefix(s, x), MarkedIn(e, s)', NEW a \in Above(e.src), Active(<<a, x>>)'
             PROVE  FALSE
  BY DEF Settled
<1> DEFINE u == <<a, x>>
<1>1. a \in Refs /\ e.src \in Refs /\ u \in Tasks /\ u[1] = a /\ u[2] = x /\ t[1] \in Refs
  BY EdgeEnds, UpstreamLeast, TaskFacts DEF Above, Tasks
<1>2. (Active(u) /\ u # t) \/ NewlyFed(u)
  BY <1>1 DEF Spread
<1> HIDE DEF u
<1>3. CASE e.src = t[1] /\ s \in S
  <2>1. ~NewlyFed(u)
    BY <1>1, <1>3, SpreadNew
  <2>2. Active(u) => u = t
    BY <1>3 DEF Sound, u
  <2> QED BY <1>2, <2>1, <2>2
<1>4. CASE ~(e.src = t[1] /\ s \in S)
  <2>1. MarkedIn(e, s)
    BY <1>4 DEF Spread
  <2>2. ~Active(u)
    BY <2>1 DEF MarkInv, Settled, u
  <2>3. NewlyFed(u)
    BY <1>2, <2>2
  <2>4. x \in S /\ t[1] \in Upstream[a]
    BY <1>1, <2>3, SpreadNew
  <2>5. IsPrefix(s, t[2])
    BY <2>1, <2>4 DEF Sound
  <2>6. t[1] \in Above(e.src)
    BY <1>1, <2>4, UpstreamTransitive DEF Above
  <2>7. t[2] \in Streams /\ t = <<t[1], t[2]>>
    BY TaskFacts
  <2>8. ~Active(<<t[1], t[2]>>)
    BY <2>1, <2>5, <2>6, <2>7 DEF MarkInv, Settled
  <2> QED BY <2>7, <2>8
<1> QED BY <1>3, <1>4

\* A newly fed task has marked none of its own edges.
LEMMA SpreadUnmarked ==
  ASSUME Loopless, TypeOK, MarkInv, NEW t \in Tasks, Active(t), NEW S, Spread(t, S), Sound(t, S),
         Placed', Root \in streams', NEW u \in Tasks, NewlyFed(u), NEW e \in OutEdges(u[1])
  PROVE  ~MarkedIn(e, u[2])'
<1> SUFFICES ASSUME MarkedIn(e, u[2])' PROVE FALSE
  OBVIOUS
<1>1. u[1] \in Refs /\ u[2] \in Streams /\ e \in Edges /\ e.src = u[1] /\ t[1] \in Refs
  BY TaskFacts DEF OutEdges
<1>2. u[2] \in S /\ t[1] \in Upstream[u[1]] /\ u[1] # t[1] /\ FedIn(u[1], u[2])'
  BY LooplessGraph, SpreadNew DEF Above
<1>3. MarkedIn(e, u[2])
  BY <1>1, <1>2 DEF Spread
<1>4. SourcedAt(e, u[2]) /\ ~FedIn(u[1], u[2])
  BY <1>1, <1>3 DEF MarkInv, Sourced, NewlyFed, FedIn
<1>5. /\ Len(u[2]) >= Outer(u[1]) /\ Len(u[2]) \in Nat /\ Outer(u[1]) \in Nat
      /\ \A k \in DOMAIN u[2] : u[2][k][1] \in Upstream[u[1]]
  <2>1. ASSUME NEW f \in InEdges(u[1]) PROVE PlacedAt(f, u[2])' /\ f \in Edges
    BY <1>1, <1>2, <2>1 DEF Placed, FedIn, AllIn, InEdges
  <2>2. PICK f \in InEdges(u[1]) : f \in Edges /\ f.dst = u[1]
    BY SpreadNew, LooplessGraph DEF InEdges
  <2>3. Len(u[2]) >= Depth(f.src) /\ \A k \in DOMAIN u[2] : u[2][k][1] \in Above(f.src)
    BY <2>1, <2>2 DEF PlacedAt
  <2>4. f.src \in Upstream[u[1]] /\ Upstream[f.src] \subseteq Upstream[u[1]]
    BY <1>1, <2>2, EdgeUpstream, UpstreamTransitive
  <2>5. Depth(f.src) = Outer(u[1]) /\ Outer(u[1]) \in Nat /\ Len(u[2]) \in Nat
    BY <1>1, <2>2, OuterFacts, StreamFacts
  <2> QED BY <2>3, <2>4, <2>5 DEF Above
<1>6. CASE Kind[u[1]] = "scatter"
  <2>1. u[2] # Root /\ Last(u[2])[1] = u[1]
    BY <1>1, <1>4, <1>6 DEF SourcedAt
  <2>2. Len(u[2]) \in DOMAIN u[2] /\ Last(u[2]) = u[2][Len(u[2])]
    BY <1>1, <2>1, StreamFacts DEF Last
  <2>3. u[1] \in Upstream[u[1]]
    BY <1>5, <2>1, <2>2
  <2> QED BY <1>1, <2>3, NotOwnUpstream, LooplessGraph
<1>7. CASE Kind[u[1]] = "gather"
  <2>1. u[1] \in Gathers /\ Outer(u[1]) = Depth(u[1]) + 1
    BY <1>1, <1>7 DEF Gathers, Outer
  <2>2. Lifted(u[1], u[2])
    BY <1>1, <1>4, <1>7 DEF SourcedAt
  <2>3. Len(u[2]) + 1 = Depth(ClosedScope(u[1]))
    BY <2>2 DEF Lifted, MarkInv, Opened, OpenAt
  <2>4. Depth(ClosedScope(u[1])) = Depth(u[1]) + 1
    BY <2>1, ClosedFacts
  <2> QED BY <1>5, <2>1, <2>3, <2>4
<1>8. CASE Kind[u[1]] = "action"
  BY <1>1, <1>4, <1>8 DEF SourcedAt
<1> QED BY <1>1, <1>6, <1>7, <1>8, LooplessGraph

\* Tasks that wait or run stay as they should be.
LEMMA SpreadOwned ==
  ASSUME Loopless, TypeOK, MarkInv, NEW t \in Tasks, Active(t), NEW S, Spread(t, S), Sound(t, S),
         Placed', Root \in streams'
  PROVE  Owned'
<1> SUFFICES ASSUME NEW u \in Tasks, Active(u)' PROVE OwnedAt(u)'
  BY DEF Owned
<1>1. u[1] \in Refs /\ u[2] \in Streams /\ u = <<u[1], u[2]>>
  BY TaskFacts
<1>2. (Active(u) /\ u # t) \/ NewlyFed(u)
  BY DEF Spread
<1>3. queued'[u] = (IF Running(u)' THEN 0 ELSE 1)
  BY DEF Spread
<1>4. CASE NewlyFed(u)
  <2>1. FedIn(u[1], u[2])'
    BY <1>4, SpreadNew, LooplessGraph
  <2>2. ASSUME NEW e \in OutEdges(u[1]) PROVE ~MarkedIn(e, u[2])'
    BY <1>4, SpreadUnmarked
  <2> QED BY <1>3, <2>1, <2>2 DEF OwnedAt
<1>5. CASE Active(u) /\ u # t
  <2>1. OwnedAt(u)
    BY <1>5 DEF MarkInv, Owned
  <2>2. FedIn(u[1], u[2])'
    BY <1>1, <2>1, SpreadFed DEF OwnedAt
  <2>3. ~(u[1] = t[1] /\ u[2] \in S)
    BY <1>1, <1>5 DEF Sound
  <2>4. \A e \in OutEdges(u[1]) : e \in Edges /\ e.src = u[1]
    BY DEF OutEdges
  <2>5. ASSUME NEW e \in OutEdges(u[1]) PROVE ~MarkedIn(e, u[2])'
    <3>1. e \in Edges /\ e.src = u[1] /\ ~MarkedIn(e, u[2])
      BY <2>1, <2>4 DEF OwnedAt
    <3>2. MarkedIn(e, u[2])' <=> MarkedIn(e, u[2]) \/ (e.src = t[1] /\ u[2] \in S)
      BY <1>1, <3>1 DEF Spread
    <3> QED BY <2>3, <3>1, <3>2
  <2> QED BY <1>3, <2>2, <2>5 DEF OwnedAt
<1> QED BY <1>2, <1>4, <1>5

\* Spreading soundly keeps the invariant of the markers.
LEMMA SpreadInv ==
  ASSUME Loopless, TypeOK, MarkInv, NEW t \in Tasks, Active(t), NEW S, Spread(t, S), Sound(t, S),
         Grown(t)
  PROVE  MarkInv'
<1>1. Acyclic
  BY LooplessGraph
<1>2. Placed' /\ Sourced' /\ Tree' /\ Opened'
  BY SpreadPlaced, SpreadSourced, SpreadTree, SpreadOpened
<1>3. Line' /\ Settled'
  BY <1>1, SpreadLine, SpreadSettled
<1>4. Root \in streams'
  BY <1>2 DEF Tree
<1>5. Owned'
  BY <1>2, <1>4, SpreadOwned
<1> QED BY <1>2, <1>3, <1>5 DEF MarkInv

\* A step that marks nothing and opens nothing keeps it too.
LEMMA StillInv ==
  ASSUME MarkInv, UNCHANGED <<edges, streams, taskStreams>>,
         DOMAIN openStreams' = DOMAIN openStreams,
         \A u \in Tasks : Active(u)' => Active(u) /\ queued'[u] = (IF Running(u)' THEN 0 ELSE 1),
         TypeOK
  PROVE  MarkInv'
<1>1. \A e, s : MarkedIn(e, s)' <=> MarkedIn(e, s)
  BY DEF MarkedIn
<1>2. \A r, s : (FedIn(r, s)' <=> FedIn(r, s)) /\ (AllIn(r, s)' <=> AllIn(r, s))
  BY <1>1 DEF FedIn, AllIn
<1>3. Placed'
  <2>1. \A e, s : PlacedAt(e, s) => PlacedAt(e, s)'
    BY DEF PlacedAt, Aside
  <2> QED BY <1>1, <2>1 DEF MarkInv, Placed
<1>4. Sourced'
  <2>1. ASSUME NEW g \in Refs, NEW s, Lifted(g, s) PROVE Lifted(g, s)'
    <3>1. ASSUME NEW c \in Streams, c \in streams, c # Root, Opener(c) = <<ClosedScope(g), s>>
          PROVE  FedIn(g, c)' /\ ~Active(<<g, c>>)'
      <4>1. FedIn(g, c) /\ ~Active(<<g, c>>) /\ <<g, c>> \in Tasks
        BY <2>1, <3>1 DEF Lifted, Tasks
      <4> QED BY <1>2, <4>1
    <3> QED BY <2>1, <3>1 DEF Lifted
  <2>2. ASSUME NEW e \in Edges, NEW s \in Streams, MarkedIn(e, s)' PROVE SourcedAt(e, s)'
    <3>1. SourcedAt(e, s) /\ e.src \in Refs
      BY <1>1, <2>2, EdgeEnds DEF MarkInv, Sourced
    <3> QED BY <1>2, <2>1, <3>1 DEF SourcedAt
  <2> QED BY <2>2 DEF Sourced
<1>5. Tree'
  <2>1. ASSUME NEW s \in streams, s # Root PROVE TreeAt(s)'
    <3>1. TreeAt(s)
      BY <2>1 DEF MarkInv, Tree
    <3> QED BY <1>2, <3>1 DEF TreeAt
  <2> QED BY <2>1 DEF MarkInv, Tree
<1>6. Opened'
  <2>1. ASSUME NEW k \in DOMAIN openStreams PROVE OpenAt(k)'
    <3>1. OpenAt(k) /\ k \in Tasks
      BY <2>1 DEF MarkInv, Opened, TypeOK
    <3> QED BY <1>2, <3>1 DEF OpenAt
  <2> QED BY <2>1 DEF MarkInv, Opened
<1>7. Line'
  BY <1>1 DEF MarkInv, Line
<1>8. Settled'
  <2> SUFFICES ASSUME NEW e \in Edges, NEW s \in Streams, NEW x \in Streams, s # Root,
                      IsPrefix(s, x), MarkedIn(e, s)', NEW a \in Above(e.src), Active(<<a, x>>)'
               PROVE  FALSE
    BY DEF Settled
  <2>1. <<a, x>> \in Tasks
    BY EdgeEnds, UpstreamLeast DEF Above, Tasks
  <2> QED BY <1>1, <2>1 DEF MarkInv, Settled
<1>9. Owned'
  <2> SUFFICES ASSUME NEW u \in Tasks, Active(u)' PROVE OwnedAt(u)'
    BY DEF Owned
  <2>1. OwnedAt(u)
    BY DEF MarkInv, Owned
  <2> QED BY <1>1, <1>2, <2>1 DEF OwnedAt
<1> QED BY <1>3, <1>4, <1>5, <1>6, <1>7, <1>8, <1>9 DEF MarkInv

-----------------------------------------------------------------------------
(* Along a line of streams.                                                *)

Less == {p \in Nat \X Nat : p[1] < p[2]}

\* The order of the naturals is well founded.
LEMMA LessWellFounded == IsWellFoundedOn(Less, Nat)
<1>1. OpToRel(<, Nat) = Less
  BY Zenon DEF OpToRel, Less
<1> QED BY <1>1, NatLessThanWellFounded, Zenon

\* A nonempty set of numbers has a least one.
LEMMA LeastNat ==
  ASSUME NEW N \in SUBSET Nat, N # {}
  PROVE  \E n \in N : \A m \in N : n <= m
<1>1. \A n, m \in Nat : <<n, m>> \in Less <=> n < m
  BY DEF Less
<1>2. PICK n \in N : \A m \in N : ~ (<<m, n>> \in Less)
  BY LessWellFounded, WFMin
<1>3. ASSUME NEW m \in N PROVE n <= m
  <2>1. n \in Nat /\ m \in Nat /\ ~ (<<m, n>> \in Less)
    BY <1>2
  <2> QED BY <1>1, <2>1
<1> QED BY <1>3

\* What a stream id begins with is a stream id.
LEMMA StreamsClosed ==
  ASSUME NEW s \in Streams, NEW p \in Seq(Element), IsPrefix(p, s)
  PROVE  p \in Streams
<1> SUFFICES ASSUME p \notin Streams PROVE FALSE
  OBVIOUS
<1> DEFINE N == {n \in Nat : \E x \in Streams : Len(x) = n /\ IsPrefix(p, x)}
<1>1. N \subseteq Nat /\ Len(s) \in N
  BY StreamFacts
<1>2. PICK n \in N : \A m \in N : n <= m
  BY <1>1, LeastNat
<1>3. PICK x \in Streams : Len(x) = n /\ IsPrefix(p, x)
  BY <1>2
<1>4. x \in Seq(Element) /\ Root \in Seq(Element) /\ (Len(p) = 0 => p = Root) /\ Len(p) \in Nat
  BY StreamFacts, SchedulerAssumption DEF Root
<1>5. x # Root
  <2>1. ASSUME x = Root PROVE FALSE
    <3>1. Len(x) = 0 /\ Len(p) <= Len(x)
      BY <1>3, <1>4, <2>1, PrefixElements, StreamFacts
    <3> QED BY <1>4, <3>1, SchedulerAssumption
  <2> QED BY <2>1
<1>6. /\ Front(x) \in Streams /\ Len(x) = Len(Front(x)) + 1 /\ x = Append(Front(x), Last(x))
      /\ Last(x) \in Element /\ Front(x) \in Seq(Element) /\ Len(Front(x)) \in Nat
  BY <1>5, StreamFacts
<1>7. IsPrefix(p, Front(x))
  BY <1>3, <1>6, PrefixAppend
<1>8. Len(Front(x)) \in N
  BY <1>6, <1>7
<1> QED BY <1>2, <1>3, <1>6, <1>8

\* The scatter at the k-th place of a stream ran, in what the stream begins with.
LEMMA OnTheWay ==
  ASSUME MarkInv, NEW x \in Streams, x \in streams, NEW k \in DOMAIN x
  PROVE  \E p, c \in Streams :
           /\ p = SubSeq(x, 1, k - 1) /\ c = SubSeq(x, 1, k)
           /\ c \in streams /\ c # Root /\ Len(p) = k - 1 /\ Front(c) = p
           /\ Opener(c) = <<x[k][1], p>> /\ IsPrefix(c, x) /\ IsPrefix(p, x)
           /\ FedIn(x[k][1], p) /\ ~Active(<<x[k][1], p>>)
<1> DEFINE p == SubSeq(x, 1, k - 1)
           c == SubSeq(x, 1, k)
<1>1. x \in Seq(Element) /\ k \in 1..Len(x)
  BY StreamFacts
<1>2. /\ c \in Seq(Element) /\ c # << >> /\ Last(c) = x[k] /\ Front(c) = p /\ IsPrefix(c, x)
      /\ p \in Seq(Element) /\ Len(p) = k - 1 /\ IsPrefix(p, x)
  <2>1. \A j \in 1..Len(x) : \A q, f : q = SubSeq(x, 1, j) /\ f = SubSeq(x, 1, j - 1) =>
          /\ q \in Seq(Element) /\ Len(q) = j /\ q # << >> /\ Last(q) = x[j]
          /\ Front(q) = f /\ IsPrefix(q, x)
          /\ f \in Seq(Element) /\ Len(f) = j - 1 /\ IsPrefix(f, x)
    BY <1>1, FirstElements
  <2> QED BY <1>1, <2>1
<1> HIDE DEF p, c
<1>3. p \in Streams /\ c \in Streams
  BY <1>2, StreamsClosed
<1>4. c \in streams /\ c # Root
  BY <1>2, <1>3 DEF MarkInv, Tree, Root
<1>5. TreeAt(c)
  BY <1>4 DEF MarkInv, Tree
<1>6. p = SubSeq(x, 1, k - 1) /\ c = SubSeq(x, 1, k)
  BY DEF p, c
<1> QED BY <1>2, <1>3, <1>4, <1>5, <1>6 DEF TreeAt, Opener

\* A task is fed once along a line below the root.
LEMMA FedLine ==
  ASSUME MarkInv, NEW r, NEW p \in Streams, NEW s \in Streams, FedIn(r, p), FedIn(r, s),
         p # Root, s # Root, IsPrefix(p, s) \/ IsPrefix(s, p)
  PROVE  p = s
<1>1. PICK e \in InEdges(r) : e \in Edges
  BY DEF FedIn, InEdges
<1>2. MarkedIn(e, p) /\ MarkedIn(e, s)
  BY <1>1 DEF FedIn, AllIn
<1> QED BY <1>1, <1>2 DEF MarkInv, Line

\* Where a scatter opened streams below the root, whatever lies on that line and went
\* through the scatter went through one of them.
LEMMA ThroughChild ==
  ASSUME Loopless, TypeOK, MarkInv, NEW r \in Refs, NEW s \in Streams, s # Root,
         <<r, s>> \in DOMAIN openStreams, NEW x \in Streams, x \in streams,
         IsPrefix(s, x) \/ IsPrefix(x, s), NEW k \in DOMAIN x, x[k][1] = r
  PROVE  \E c \in Streams : /\ c \in streams /\ c # Root /\ Opener(c) = <<r, s>>
                            /\ IsPrefix(c, x)
<1>1. PICK p, c \in Streams :
        /\ c \in streams /\ c # Root /\ Opener(c) = <<r, p>>
        /\ IsPrefix(c, x) /\ IsPrefix(p, x) /\ FedIn(r, p)
  BY OnTheWay
<1>2. OpenAt(<<r, s>>)
  BY DEF MarkInv, Opened
<1>3. r \in Scatters /\ FedIn(r, s) /\ Len(s) + 1 = Depth(r)
  BY <1>2 DEF OpenAt
<1>4. p # Root
  <2>1. Len(p) >= Outer(r) /\ Outer(r) \in Nat
    BY <1>1, FedPlaces DEF MarkInv, Tree
  <2>2. Outer(r) = Depth(r) - 1
    BY <1>3 DEF Outer, Scatters
  <2>3. Len(s) \in Nat /\ Len(s) # 0
    BY StreamFacts
  <2>4. Len(p) # 0
    BY <1>3, <2>1, <2>2, <2>3
  <2> QED BY <1>1, <2>4, StreamFacts
<1>5. IsPrefix(p, s) \/ IsPrefix(s, p)
  <2>1. p \in Seq(Element) /\ s \in Seq(Element) /\ x \in Seq(Element)
    BY <1>1, StreamFacts
  <2> QED BY <1>1, <2>1, PrefixOrder
<1>6. p = s
  BY <1>1, <1>3, <1>4, <1>5, FedLine
<1> QED BY <1>1, <1>6

\* An action that is no scatter is not in its own scope.
LEMMA OwnScope ==
  ASSUME Loopless, NEW r \in Refs, InScope(r, r)
  PROVE  Kind[r] = "scatter"
<1> SUFFICES ASSUME Kind[r] \in {"action", "gather"} PROVE FALSE
  BY LooplessGraph
<1>1. InEdges(r) # {}
  BY RootChain DEF InScope
<1>2. PICK e \in Edges : e.dst = r
  BY <1>1 DEF InEdges
<1>3. InScope(e.src, r)
  <2>1. CASE Kind[r] = "action"
    BY <1>2, <2>1, EdgeChain DEF InScope
  <2>2. CASE Kind[r] = "gather"
    BY <1>2, <2>2, EdgeChain, FrontMembers DEF InScope
  <2> QED BY <2>1, <2>2
<1>4. e.src \in Refs /\ e.src \in Upstream[r]
  BY <1>2, EdgeEnds, EdgeUpstream
<1>5. e.src # r
  BY <1>4, NotOwnUpstream, LooplessGraph
<1>6. r \in Upstream[e.src]
  BY <1>3, <1>4, <1>5, ScopeUpstream, LooplessGraph
<1> QED BY <1>4, <1>6, UpstreamTransitive, NotOwnUpstream, LooplessGraph

\* Nothing above a fed task is left to run, below the root.
LEMMA AboveQuiet ==
  ASSUME MarkInv, NEW r \in Refs, NEW y \in Streams, y # Root, FedIn(r, y),
         NEW x \in Streams, IsPrefix(y, x), NEW a \in Above(r), Active(<<a, x>>)
  PROVE  a = r /\ x = y
<1>1. a \notin Upstream[r]
  <2> SUFFICES ASSUME a \in Upstream[r] PROVE FALSE
    OBVIOUS
  <2>1. PICK e \in InEdges(r) : a = e.src \/ a \in Upstream[e.src]
    BY UpstreamLastEdge
  <2>2. e \in Edges /\ MarkedIn(e, y) /\ a \in Above(e.src)
    BY <2>1 DEF InEdges, FedIn, AllIn, Above
  <2> QED BY <2>2 DEF MarkInv, Settled
<1>2. a = r /\ <<r, x>> \in Tasks
  BY <1>1 DEF Above, Tasks
<1>3. FedIn(r, x)
  BY <1>2 DEF MarkInv, Owned, OwnedAt
<1>4. x # Root
  <2>1. y \in Seq(Element) /\ x \in Seq(Element) /\ Len(y) \in Nat /\ Len(y) # 0
    BY StreamFacts
  <2>2. Len(x) # 0
    BY <2>1, PrefixElements
  <2> QED BY <2>2, StreamFacts
<1> QED BY <1>2, <1>3, <1>4, FedLine

-----------------------------------------------------------------------------
(* The new markers are where they should be: each way a task ends.         *)

\* The edges out of a task.
LEMMA OwnEdges ==
  ASSUME NEW r \in Refs, NEW e \in OutEdges(r)
  PROVE  e \in Edges /\ e.src = r
  BY DEF OutEdges

\* An action, or a gather that skips or fails, marks its edges in its own stream.
OwnEnd(t) ==
  /\ streams' = streams /\ taskStreams' = taskStreams
  /\ DOMAIN openStreams' = DOMAIN openStreams
  /\ Kind[t[1]] \in {"action", "gather"}
  /\ Kind[t[1]] = "action" /\ (Skipping(t[2]) \/ Len(t[2]) > Depth(t[1])) =>
       \A e \in OutEdges(t[1]) : edges'[<<e, t[2]>>] = "SKIPPED"
  /\ Kind[t[1]] = "gather" =>
       Aside(t[2]) /\ \A e \in OutEdges(t[1]) : edges'[<<e, t[2]>>] = "SKIPPED"

\* The markers are as deep as the task, and skipped where they are too deep.
LEMMA OwnPlaced ==
  ASSUME Loopless, MarkInv, NEW t \in Tasks, Active(t), OwnEnd(t), NEW e \in OutEdges(t[1])
  PROVE  PlacedAt(e, t[2])'
<1>1. t[1] \in Refs /\ t[2] \in Streams /\ e.src = t[1]
  BY TaskFacts, OwnEdges
<1>2. FedIn(t[1], t[2])
  BY DEF MarkInv, Owned, OwnedAt
<1>3. /\ t[2] \in streams /\ Outer(t[1]) \in Nat /\ Len(t[2]) \in Nat /\ Len(t[2]) >= Outer(t[1])
      /\ Len(t[2]) = Outer(t[1]) => (Kind[t[1]] = "action" => ScopeChain[t[1]] = Names(t[2]))
      /\ \A q \in Refs : InScope(t[1], q) /\ q # t[1] => \E k \in DOMAIN t[2] : t[2][k][1] = q
      /\ \A k \in DOMAIN t[2] : t[2][k][1] \in Upstream[t[1]]
      /\ Len(t[2]) > Outer(t[1]) => Aside(t[2])
  BY <1>1, <1>2, FedPlaces DEF MarkInv, Tree
<1>4. ~InScope(t[1], t[1])
  BY <1>1, OwnScope DEF OwnEnd
<1>5. Depth(t[1]) \in Nat
  <2>1. CASE Kind[t[1]] = "action"
    BY <1>3, <2>1 DEF Outer
  <2>2. CASE Kind[t[1]] = "gather"
    BY <1>1, <2>2, ClosedFacts DEF Gathers
  <2> QED BY <2>1, <2>2 DEF OwnEnd
<1>6. Aside(t[2])' <=> Aside(t[2])
  BY DEF OwnEnd, Aside
<1>7. CASE Kind[t[1]] = "action"
  <2>1. Outer(t[1]) = Depth(t[1])
    BY <1>7 DEF Outer
  <2> QED BY <1>1, <1>3, <1>4, <1>6, <1>7, <2>1 DEF PlacedAt, OwnEnd, Above
<1>8. CASE Kind[t[1]] = "gather"
  <2>1. Outer(t[1]) = Depth(t[1]) + 1
    BY <1>8 DEF Outer
  <2>2. Len(t[2]) > Depth(t[1])
    BY <1>3, <1>5, <2>1
  <2> QED BY <1>1, <1>3, <1>4, <1>5, <1>6, <1>8, <2>2 DEF PlacedAt, OwnEnd, Above
<1> QED BY <1>7, <1>8 DEF OwnEnd

\* An edge of a task that is yet to run is marked nowhere along its line.
LEMMA OwnLine ==
  ASSUME Loopless, TypeOK, MarkInv, NEW t \in Tasks, Active(t),
         Kind[t[1]] \in {"action", "gather"}, NEW e \in OutEdges(t[1]),
         NEW x \in Streams, x # Root, t[2] # Root, MarkedIn(e, x),
         IsPrefix(x, t[2]) \/ IsPrefix(t[2], x)
  PROVE  FALSE
<1>1. t[1] \in Refs /\ t[2] \in Streams /\ e \in Edges /\ e.src = t[1] /\ t = <<t[1], t[2]>>
  BY TaskFacts, OwnEdges
<1>2. FedIn(t[1], t[2]) /\ ~MarkedIn(e, t[2])
  BY DEF MarkInv, Owned, OwnedAt
<1>3. ~FedIn(t[1], x)
  BY <1>1, <1>2, FedLine
<1>4. Kind[t[1]] = "gather" /\ Lifted(t[1], x)
  BY <1>1, <1>3 DEF MarkInv, Sourced, SourcedAt
<1> DEFINE q == ClosedScope(t[1])
<1>5. q \in Refs /\ <<q, x>> \in DOMAIN openStreams
  BY <1>1, <1>4, ClosedFacts DEF Gathers, Lifted
<1>6. t[2] \in streams /\ \E k \in DOMAIN t[2] : t[2][k][1] = q
  BY <1>1, <1>2, <1>4, FedPlaces DEF MarkInv, Tree, Gathers
<1>7. PICK k \in DOMAIN t[2] : t[2][k][1] = q
  BY <1>6
<1> HIDE DEF q
<1>8. PICK c \in Streams : c \in streams /\ c # Root /\ Opener(c) = <<q, x>> /\ IsPrefix(c, t[2])
  BY <1>1, <1>5, <1>6, <1>7, ThroughChild
<1>9. FedIn(t[1], c) /\ ~Active(<<t[1], c>>)
  BY <1>4, <1>8 DEF Lifted, q
<1>10. c = t[2]
  BY <1>1, <1>2, <1>8, <1>9, FedLine
<1> QED BY <1>1, <1>9, <1>10

\* So such a step's markers are sound.
LEMMA OwnSound ==
  ASSUME Loopless, TypeOK, MarkInv, NEW t \in Tasks, Active(t), Spread(t, {t[2]}), OwnEnd(t)
  PROVE  Sound(t, {t[2]}) /\ Grown(t)
<1>1. t[1] \in Refs /\ t[2] \in Streams /\ t = <<t[1], t[2]>>
  BY TaskFacts
<1>2. FedIn(t[1], t[2])
  BY DEF MarkInv, Owned, OwnedAt
<1>3. ASSUME NEW e \in OutEdges(t[1])
      PROVE  ~MarkedIn(e, t[2]) /\ PlacedAt(e, t[2])' /\ SourcedAt(e, t[2])'
  <2>1. e.src = t[1] /\ FedIn(t[1], t[2])'
    BY <1>1, <1>2, OwnEdges, SpreadFed
  <2>2. SourcedAt(e, t[2])'
    BY <2>1 DEF SourcedAt, OwnEnd
  <2> QED BY <2>2, OwnPlaced DEF MarkInv, Owned, OwnedAt
<1>4. ASSUME NEW e \in OutEdges(t[1]), NEW x \in Streams, x # Root, t[2] # Root, MarkedIn(e, x)
      PROVE  ~IsPrefix(x, t[2]) /\ ~IsPrefix(t[2], x)
  BY <1>4, OwnLine DEF OwnEnd
<1>5. ASSUME NEW x \in Streams, t[2] # Root, IsPrefix(t[2], x), NEW a \in Above(t[1]), Active(<<a, x>>)
      PROVE  <<a, x>> = t
  BY <1>1, <1>2, <1>5, AboveQuiet
<1>6. Sound(t, {t[2]})
  BY <1>1, <1>3, <1>4, <1>5 DEF Sound
<1>7. Grown(t)
  <2>1. t \notin DOMAIN openStreams
    BY DEF MarkInv, Opened, OpenAt
  <2>2. taskStreams[t] = 0
    BY <2>1 DEF MarkInv, Opened
  <2> QED BY <2>1, <2>2 DEF Grown, OwnEnd
<1> QED BY <1>6, <1>7

\* A scatter ends: the streams S are new, and its edges are marked in them.
SplitEnd(t, S) ==
  /\ Kind[t[1]] = "scatter"
  /\ streams' = streams \cup S
  /\ \A c \in S : \E i \in Nat \cup {Skip} : c = Child(t[2], t[1], i)
  /\ \A c \in S : IsSkipStream(c) =>
       /\ taskStreams'[t] = 0
       /\ \A e \in OutEdges(t[1]) : c \in Streams => edges'[<<e, c>>] = "SKIPPED"
  /\ \A c \in S : ~IsSkipStream(c) => t \in DOMAIN openStreams' /\ Last(c)[2] < taskStreams'[t]
  /\ t \in DOMAIN openStreams' => ~SkipShouldPropagate(t)
  /\ t \notin DOMAIN openStreams' => taskStreams'[t] = 0

\* The new streams.
LEMMA SplitStream ==
  ASSUME MarkInv, NEW t \in Tasks, Active(t), NEW S, SplitEnd(t, S), NEW c \in S
  PROVE  /\ c \in Seq(Element) /\ c # Root /\ Front(c) = t[2] /\ Last(c)[1] = t[1]
         /\ Opener(c) = t /\ Last(c) \in Element /\ c = Append(t[2], Last(c))
         /\ Len(c) = Len(t[2]) + 1 /\ Len(c) \in Nat
         /\ c \notin streams /\ c \in streams'
<1>1. PICK i \in Nat \cup {Skip} : c = Child(t[2], t[1], i)
  BY DEF SplitEnd
<1> DEFINE p == <<t[1], i>>
<1>2. t[1] \in Scatters /\ t[2] \in Streams /\ t = <<t[1], t[2]>>
  BY TaskFacts DEF SplitEnd, Scatters
<1>3. p \in Element /\ p[1] = t[1]
  BY <1>2 DEF Element
<1>4. t[2] \in Seq(Element) /\ c = Append(t[2], p) /\ Len(t[2]) \in Nat
  BY <1>1, <1>2, StreamFacts DEF Child
<1> HIDE DEF p
<1>5. c \in Seq(Element) /\ Len(c) = Len(t[2]) + 1 /\ c # << >> /\ Front(c) = t[2] /\ Last(c) = p
  BY <1>3, <1>4, AppendParts
<1>6. Opener(c) = t
  BY <1>2, <1>3, <1>5 DEF Opener
<1>7. c \notin streams
  BY <1>5, <1>6 DEF MarkInv, Tree, TreeAt, Root
<1> QED BY <1>3, <1>4, <1>5, <1>6, <1>7 DEF SplitEnd, Root

\* What a new stream begins with.
LEMMA SplitPrefix ==
  ASSUME MarkInv, NEW t \in Tasks, Active(t), NEW S, SplitEnd(t, S), NEW c \in Streams, c \in S,
         NEW x \in Streams
  PROVE  /\ IsPrefix(x, c) => x = c \/ IsPrefix(x, t[2])
         /\ IsPrefix(c, x) => x \notin streams
<1>1. /\ c \in Seq(Element) /\ Last(c) \in Element /\ c = Append(t[2], Last(c)) /\ c \notin streams
  BY SplitStream
<1>2. t[2] \in Seq(Element) /\ x \in Seq(Element)
  BY TaskFacts, StreamFacts
<1>3. IsPrefix(x, c) => x = c \/ IsPrefix(x, t[2])
  BY <1>1, <1>2, PrefixAppend
<1> QED BY <1>1, <1>3 DEF MarkInv, Tree

\* The scatter ran where it belongs if it opened streams; otherwise all is skipped.
LEMMA SplitDepth ==
  ASSUME Loopless, MarkInv, NEW t \in Tasks, Active(t), Kind[t[1]] = "scatter"
  PROVE  /\ t[1] \in Scatters /\ FedIn(t[1], t[2]) /\ t[2] \in streams
         /\ Depth(t[1]) \in Nat /\ Len(t[2]) \in Nat /\ Len(t[2]) + 1 >= Depth(t[1])
         /\ Len(t[2]) + 1 > Depth(t[1]) \/ Skipping(t[2]) => SkipShouldPropagate(t)
         /\ Len(t[2]) + 1 = Depth(t[1]) => ScopeChain[t[1]] = Append(Names(t[2]), t[1])
         /\ \A q \in Refs : InScope(t[1], q) /\ q # t[1] => \E k \in DOMAIN t[2] : t[2][k][1] = q
         /\ \A k \in DOMAIN t[2] : t[2][k][1] \in Upstream[t[1]]
<1>1. t[1] \in Refs /\ t[2] \in Streams
  BY TaskFacts
<1>2. FedIn(t[1], t[2])
  BY DEF MarkInv, Owned, OwnedAt
<1>3. /\ t[2] \in streams /\ Outer(t[1]) \in Nat /\ Len(t[2]) \in Nat /\ Len(t[2]) >= Outer(t[1])
      /\ Len(t[2]) = Outer(t[1]) => (Kind[t[1]] = "scatter" => ScopeChain[t[1]] = Append(Names(t[2]), t[1]))
      /\ \A q \in Refs : InScope(t[1], q) /\ q # t[1] => \E k \in DOMAIN t[2] : t[2][k][1] = q
      /\ \A k \in DOMAIN t[2] : t[2][k][1] \in Upstream[t[1]]
      /\ Skipping(t[2]) \/ Len(t[2]) > Outer(t[1]) =>
           InEdges(t[1]) # {} /\ \A e \in InEdges(t[1]) : edges[<<e, t[2]>>] = "SKIPPED"
  BY <1>1, <1>2, FedPlaces DEF MarkInv, Tree
<1>4. Outer(t[1]) = Depth(t[1]) - 1 /\ Depth(t[1]) \in Nat
  <2>1. Outer(t[1]) = Depth(t[1]) - 1
    BY DEF Outer
  <2>2. ScopeChain[t[1]] \in Seq(Refs)
    BY <1>1, ChainFacts, LooplessGraph
  <2> QED BY <2>1, <2>2 DEF Depth
<1>5. Skipping(t[2]) \/ Len(t[2]) > Outer(t[1]) => SkipShouldPropagate(t)
  BY <1>3 DEF SkipShouldPropagate
<1> QED BY <1>1, <1>2, <1>3, <1>4, <1>5 DEF Scatters

\* The markers in a new stream are as deep as the scatter, and skipped below a skipped one.
LEMMA SplitPlaced ==
  ASSUME Loopless, MarkInv, NEW t \in Tasks, Active(t), NEW S, SplitEnd(t, S),
         NEW c \in Streams, c \in S, NEW e \in OutEdges(t[1])
  PROVE  PlacedAt(e, c)'
<1>1. /\ c # Root /\ Front(c) = t[2] /\ Last(c)[1] = t[1] /\ Opener(c) = t /\ c \in streams'
      /\ Len(c) = Len(t[2]) + 1 /\ c \in Seq(Element) /\ Len(c) \in Nat
  BY SplitStream
<1>2. t[1] \in Refs /\ t[2] \in Streams /\ e.src = t[1] /\ Kind[t[1]] = "scatter"
  BY TaskFacts, OwnEdges DEF SplitEnd
<1>3. /\ Depth(t[1]) \in Nat /\ Len(t[2]) \in Nat /\ Len(t[2]) + 1 >= Depth(t[1])
      /\ Len(t[2]) + 1 > Depth(t[1]) \/ Skipping(t[2]) => SkipShouldPropagate(t)
      /\ Len(t[2]) + 1 = Depth(t[1]) => ScopeChain[t[1]] = Append(Names(t[2]), t[1])
      /\ \A q \in Refs : InScope(t[1], q) /\ q # t[1] => \E k \in DOMAIN t[2] : t[2][k][1] = q
      /\ \A k \in DOMAIN t[2] : t[2][k][1] \in Upstream[t[1]]
  BY <1>2, SplitDepth
<1>4. /\ DOMAIN c = 1..Len(c) /\ DOMAIN t[2] = 1..Len(t[2]) /\ c[Len(c)] = Last(c)
      /\ \A k \in DOMAIN t[2] : c[k] = t[2][k]
  <2>1. DOMAIN c = 1..Len(c) /\ DOMAIN t[2] = 1..Len(t[2]) /\ t[2] \in Seq(Element) /\ IsPrefix(t[2], c)
    BY <1>1, <1>2, StreamFacts
  <2>2. \A k \in 1..Len(t[2]) : t[2][k] = c[k]
    BY <1>1, <2>1, PrefixElements
  <2> QED BY <2>1, <2>2 DEF Last
<1>5. \A k \in DOMAIN c : k \in DOMAIN t[2] \/ k = Len(c)
  BY <1>1, <1>3, <1>4
<1>6. \A k \in DOMAIN c : c[k][1] \in Above(t[1])
  BY <1>1, <1>3, <1>4, <1>5 DEF Above
<1>7. ASSUME NEW q \in Refs, InScope(t[1], q) PROVE \E k \in DOMAIN c : c[k][1] = q
  <2>1. CASE q = t[1]
    <3>1. Len(c) \in DOMAIN c
      BY <1>1, <1>3, <1>4
    <3> QED BY <1>1, <1>4, <2>1, <3>1
  <2>2. CASE q # t[1]
    <3>1. PICK k \in DOMAIN t[2] : t[2][k][1] = q
      BY <1>3, <1>7, <2>2
    <3>2. k \in DOMAIN c
      BY <1>1, <1>3, <1>4
    <3> QED BY <1>4, <3>1, <3>2
  <2> QED BY <2>1, <2>2
<1>8. Len(c) = Depth(t[1]) => Names(c) = ScopeChain[t[1]]
  BY <1>1, <1>3, NamesFacts
<1>9. ASSUME Skipping(c) \/ Len(c) > Depth(t[1]) PROVE IsSkipStream(c)
  <2>1. SUFFICES ASSUME ~IsSkipStream(c) PROVE FALSE
    OBVIOUS
  <2>2. ~SkipShouldPropagate(t)
    BY <2>1 DEF SplitEnd
  <2>3. ~Skipping(t[2]) /\ ~(Len(c) > Depth(t[1]))
    BY <1>1, <1>3, <2>2
  <2>4. PICK k \in DOMAIN c : c[k][2] = Skip
    BY <1>9, <2>3 DEF Skipping
  <2>5. k = Len(c)
    BY <1>4, <1>5, <2>3, <2>4 DEF Skipping
  <2> QED BY <1>1, <1>4, <2>1, <2>4, <2>5 DEF IsSkipStream
<1>10. Skipping(c) \/ Len(c) > Depth(t[1]) => edges'[<<e, c>>] = "SKIPPED"
  BY <1>9 DEF SplitEnd
<1>11. ASSUME Len(c) > Depth(t[1]) PROVE Aside(c)'
  <2>1. t \notin DOMAIN openStreams'
    BY <1>1, <1>3, <1>11 DEF SplitEnd
  <2>2. IsSkipStream(c)
    BY <1>9, <1>11
  <2> QED BY <1>1, <2>1, <2>2 DEF Aside
<1> QED BY <1>1, <1>2, <1>3, <1>6, <1>7, <1>8, <1>10, <1>11 DEF PlacedAt

\* Nothing waits or runs in a stream that is not there.
LEMMA ActiveStreams ==
  ASSUME Loopless, MarkInv, NEW t \in Tasks, Active(t)
  PROVE  FedIn(t[1], t[2]) /\ t[2] \in streams
<1>1. FedIn(t[1], t[2])
  BY DEF MarkInv, Owned, OwnedAt
<1> QED BY <1>1, TaskFacts, FedPlaces DEF MarkInv, Tree

\* Nor is anything marked there.
LEMMA MarkedStreams ==
  ASSUME MarkInv, NEW e \in Edges, NEW s \in Streams, MarkedIn(e, s)
  PROVE  s \in streams
  BY DEF MarkInv, Placed, PlacedAt

\* The edges of a scatter are marked nowhere along the line of a new stream.
LEMMA SplitLine ==
  ASSUME Loopless, MarkInv, NEW t \in Tasks, Active(t), NEW S, SplitEnd(t, S),
         NEW c \in Streams, c \in S, NEW e \in OutEdges(t[1]), NEW x \in Streams, MarkedIn(e, x)
  PROVE  ~IsPrefix(x, c) /\ ~IsPrefix(c, x)
<1>1. t[1] \in Refs /\ t[2] \in Streams /\ e \in Edges /\ e.src = t[1] /\ Kind[t[1]] = "scatter"
  BY TaskFacts, OwnEdges DEF SplitEnd
<1>2. x \in streams /\ x # Root /\ Last(x)[1] = t[1]
  BY <1>1, MarkedStreams DEF MarkInv, Sourced, SourcedAt
<1>3. c \notin streams
  BY SplitStream
<1>4. ~IsPrefix(c, x)
  BY <1>2, SplitPrefix
<1>5. ASSUME IsPrefix(x, c) PROVE FALSE
  <2>1. IsPrefix(x, t[2])
    BY <1>2, <1>3, <1>5, SplitPrefix
  <2>2. /\ x \in Seq(Element) /\ t[2] \in Seq(Element) /\ Len(x) \in Nat /\ Len(x) # 0
        /\ DOMAIN t[2] = 1..Len(t[2]) /\ Len(t[2]) \in Nat
    BY <1>1, <1>2, StreamFacts
  <2>3. Len(x) <= Len(t[2]) /\ \A k \in 1..Len(x) : x[k] = t[2][k]
    BY <2>1, <2>2, PrefixElements
  <2>4. Len(x) \in DOMAIN t[2] /\ t[2][Len(x)] = Last(x)
    BY <2>2, <2>3 DEF Last
  <2>5. t[1] \in Upstream[t[1]]
    BY <1>1, <1>2, <2>4, SplitDepth
  <2> QED BY <1>1, <2>5, NotOwnUpstream, LooplessGraph
<1> QED BY <1>4, <1>5

\* So a scatter's markers are sound, and so are its streams.
LEMMA SplitSound ==
  ASSUME Loopless, MarkInv, NEW t \in Tasks, Active(t), NEW S, Spread(t, S), SplitEnd(t, S)
  PROVE  Sound(t, S) /\ Grown(t)
<1>1. t[1] \in Refs /\ t[2] \in Streams /\ t = <<t[1], t[2]>> /\ Kind[t[1]] = "scatter"
  BY TaskFacts DEF SplitEnd
<1>2. /\ t[1] \in Scatters /\ FedIn(t[1], t[2]) /\ t[2] \in streams
      /\ Depth(t[1]) \in Nat /\ Len(t[2]) \in Nat /\ Len(t[2]) + 1 >= Depth(t[1])
      /\ Len(t[2]) + 1 > Depth(t[1]) \/ Skipping(t[2]) => SkipShouldPropagate(t)
  BY <1>1, SplitDepth
<1>3. ASSUME NEW e \in OutEdges(t[1]), NEW c \in Streams, c \in S
      PROVE  ~MarkedIn(e, c) /\ PlacedAt(e, c)' /\ SourcedAt(e, c)'
  <2>1. e \in Edges /\ e.src = t[1] /\ c \notin streams /\ c # Root /\ Last(c)[1] = t[1]
    BY <1>1, <1>3, OwnEdges, SplitStream
  <2>2. ~MarkedIn(e, c)
    BY <2>1, MarkedStreams
  <2>3. SourcedAt(e, c)'
    BY <1>1, <2>1 DEF SourcedAt
  <2> QED BY <1>3, <2>2, <2>3, SplitPlaced
<1>4. ASSUME NEW x \in Streams, NEW y \in Streams, x \in S, y \in S, IsPrefix(x, y)
      PROVE  x = y
  <2>1. x \in Seq(Element) /\ y \in Seq(Element) /\ Len(x) = Len(t[2]) + 1 /\ Len(y) = Len(t[2]) + 1
    BY <1>4, SplitStream
  <2> QED BY <1>2, <1>4, <2>1, PrefixOrder
<1>5. ASSUME NEW e \in Edges, NEW x \in Streams, NEW y \in Streams, y \in S,
             MarkedIn(e, x), IsPrefix(x, y)
      PROVE  IsPrefix(x, t[2])
  <2>1. x \in streams /\ y \notin streams
    BY <1>5, MarkedStreams, SplitStream
  <2> QED BY <1>5, <2>1, SplitPrefix
<1>6. ASSUME NEW x \in Streams, NEW y \in Streams, y \in S, IsPrefix(y, x), NEW a \in Above(t[1]),
             Active(<<a, x>>)
      PROVE  FALSE
  <2>1. a \in Refs
    BY <1>1, UpstreamLeast DEF Above
  <2>2. <<a, x>> \in Tasks
    BY <2>1 DEF Tasks
  <2>3. x \in streams
    BY <1>6, <2>2, ActiveStreams
  <2> QED BY <1>6, <2>3, SplitPrefix
<1>7. ASSUME NEW y \in Streams, y \in S, Active(<<t[1], y>>) PROVE FALSE
  <2>1. <<t[1], y>> \in Tasks
    BY <1>1 DEF Tasks
  <2> QED BY <1>7, <2>1, ActiveStreams, SplitStream
<1>8. \A e \in OutEdges(t[1]) : \A x, y \in Streams :
        y \in S /\ x # Root /\ y # Root /\ MarkedIn(e, x) => ~IsPrefix(x, y) /\ ~IsPrefix(y, x)
  BY SplitLine
<1>9. Sound(t, S)
  BY <1>3, <1>4, <1>5, <1>6, <1>7, <1>8 DEF Sound
<1>10. FedIn(t[1], t[2])' /\ ~Active(t)'
  BY <1>1, <1>2, SpreadFed, SpreadQuiet DEF FedIn
<1>11. ASSUME NEW c \in streams' \ streams PROVE TreeAt(c)'
  <2>1. c \in S /\ t[2] \in streams'
    BY <1>2 DEF SplitEnd
  <2>2. c # Root /\ Front(c) = t[2] /\ Last(c)[1] = t[1] /\ Opener(c) = t
    BY <2>1, SplitStream
  <2>3. IF IsSkipStream(c) THEN taskStreams'[t] = 0
        ELSE t \in DOMAIN openStreams' /\ Last(c)[2] < taskStreams'[t]
    BY <2>1 DEF SplitEnd
  <2> QED BY <1>10, <2>1, <2>2, <2>3 DEF TreeAt
<1>12. ASSUME NEW c \in Streams, NEW x \in Streams, c \in streams' \ streams, IsPrefix(x, c)
       PROVE  x \in streams'
  <2>1. c \in S
    BY <1>12 DEF SplitEnd
  <2>2. x = c \/ IsPrefix(x, t[2])
    BY <1>12, <2>1, SplitPrefix
  <2> QED BY <1>1, <1>2, <1>12, <2>2 DEF SplitEnd, MarkInv, Tree
<1>13. ASSUME t \in DOMAIN openStreams' PROVE OpenAt(t)'
  <2>1. ~SkipShouldPropagate(t)
    BY <1>13 DEF SplitEnd
  <2>2. Len(t[2]) + 1 = Depth(t[1]) /\ ~Skipping(t[2])
    BY <1>2, <2>1
  <2> QED BY <1>2, <1>10, <2>2 DEF OpenAt, SplitEnd
<1>14. Grown(t)
  BY <1>11, <1>12, <1>13 DEF Grown, SplitEnd
<1> QED BY <1>9, <1>14

\* Every stream of the gather's scatter is at the gather, and no other gather is at work.
AllAt(t) ==
  /\ t[1] \in Gathers /\ t[2] # Root
  /\ Opener(t[2]) = <<ClosedScope(t[1]), Front(t[2])>> /\ Opener(t[2]) \in DOMAIN openStreams
  /\ \A d \in Streams : d \in streams /\ d # Root /\ Opener(d) = Opener(t[2]) =>
       FedIn(t[1], d) /\ (d # t[2] => ~Active(<<t[1], d>>))

\* A gather goes back up.
LiftEnd(t) ==
  /\ streams' = streams /\ taskStreams' = taskStreams
  /\ DOMAIN openStreams' = DOMAIN openStreams
  /\ AllAt(t)

\* Where the gather is, and where its scatter was.
LEMMA LiftPlace ==
  ASSUME Loopless, TypeOK, MarkInv, NEW t \in Tasks, Active(t), AllAt(t)
  PROVE  LET s == Front(t[2])
             q == ClosedScope(t[1])
         IN  /\ s \in Streams /\ s \in streams /\ q \in Refs /\ Len(s) = Depth(t[1])
             /\ <<q, s>> \in DOMAIN openStreams
             /\ Depth(t[1]) \in Nat /\ Outer(t[1]) = Depth(t[1]) + 1
             /\ Len(t[2]) = Outer(t[1]) /\ Names(s) = ScopeChain[t[1]]
             /\ Last(t[2])[1] = q /\ FedIn(q, s) /\ ~Active(<<q, s>>) /\ ~Skipping(s)
             /\ t[2] \in streams /\ FedIn(t[1], t[2])
             /\ \A k \in DOMAIN s : s[k][1] \in Above(t[1])
             /\ IsPrefix(s, t[2])
<1> DEFINE s == Front(t[2])
           q == ClosedScope(t[1])
<1>1. /\ t[1] \in Gathers /\ t[1] \in Refs /\ t[2] \in Streams /\ t[2] # Root
      /\ Opener(t[2]) = <<q, s>> /\ <<q, s>> \in DOMAIN openStreams
  BY TaskFacts DEF AllAt
<1>2. /\ s \in Streams /\ Len(t[2]) = Len(s) + 1 /\ IsPrefix(s, t[2]) /\ Len(s) \in Nat
      /\ Opener(t[2])[1] = Last(t[2])[1] /\ s \in Seq(Element) /\ t[2] \in Seq(Element)
      /\ DOMAIN s = 1..Len(s) /\ DOMAIN t[2] = 1..Len(t[2])
  BY <1>1, StreamFacts
<1>3. q \in Refs /\ Depth(t[1]) \in Nat /\ Depth(q) = Depth(t[1]) + 1
  BY <1>1, ClosedFacts
<1>4. OpenAt(<<q, s>>)
  BY <1>1 DEF MarkInv, Opened
<1> HIDE DEF s, q
<1>5. FedIn(q, s) /\ ~Active(<<q, s>>) /\ Len(s) + 1 = Depth(q) /\ ~Skipping(s) /\ s \in streams
  BY <1>4 DEF OpenAt
<1>6. Outer(t[1]) = Depth(t[1]) + 1
  BY <1>1 DEF Outer, Gathers
<1>7. Len(s) = Depth(t[1]) /\ Len(t[2]) = Outer(t[1])
  BY <1>2, <1>3, <1>5, <1>6
<1>8. FedIn(t[1], t[2]) /\ t[2] \in streams
  BY ActiveStreams
<1>9. /\ ScopeChain[t[1]] = Names(s)
      /\ \A k \in DOMAIN t[2] : t[2][k][1] \in Upstream[t[1]]
  <2>1. /\ Len(t[2]) = Outer(t[1]) => (Kind[t[1]] = "gather" => ScopeChain[t[1]] = Names(Front(t[2])))
        /\ \A k \in DOMAIN t[2] : t[2][k][1] \in Upstream[t[1]]
    BY <1>1, <1>8, FedPlaces DEF MarkInv, Tree
  <2> QED BY <1>1, <1>7, <2>1 DEF Gathers, s
<1>10. \A k \in DOMAIN s : s[k][1] \in Above(t[1])
  <2>1. Len(s) <= Len(t[2]) /\ \A k \in 1..Len(s) : s[k] = t[2][k]
    BY <1>2, PrefixElements
  <2>2. \A k \in DOMAIN s : k \in DOMAIN t[2]
    BY <1>2
  <2> QED BY <1>2, <1>9, <2>1, <2>2 DEF Above
<1>11. Last(t[2])[1] = q
  BY <1>1, <1>2
<1> QED BY <1>1, <1>2, <1>3, <1>5, <1>6, <1>7, <1>8, <1>9, <1>10, <1>11 DEF s, q

\* The barrier: in and below the scatter's streams, nothing the gather waits for is left.
LEMMA AllAtQuiet ==
  ASSUME Loopless, TypeOK, MarkInv, NEW t \in Tasks, Active(t), AllAt(t),
         NEW d \in Streams, d \in streams, d # Root, Opener(d) = Opener(t[2]),
         NEW x \in Streams, IsPrefix(d, x), NEW a \in Above(t[1]), Active(<<a, x>>)
  PROVE  <<a, x>> = t
<1>1. FedIn(t[1], d) /\ (d # t[2] => ~Active(<<t[1], d>>)) /\ t[1] \in Refs /\ t = <<t[1], t[2]>>
  BY TaskFacts DEF AllAt
<1>2. a = t[1] /\ x = d
  BY <1>1, AboveQuiet
<1> QED BY <1>1, <1>2

\* Below the root, whatever the gather waits for that is further in went through the scatter.
LEMMA LiftThrough ==
  ASSUME Loopless, TypeOK, MarkInv, NEW t \in Tasks, Active(t), AllAt(t),
         Front(t[2]) # Root, NEW x \in Streams, x \in streams,
         IsPrefix(Front(t[2]), x) \/ IsPrefix(x, Front(t[2])),
         \E k \in DOMAIN x : x[k][1] = ClosedScope(t[1])
  PROVE  \E d \in Streams : d \in streams /\ d # Root /\ Opener(d) = Opener(t[2]) /\ IsPrefix(d, x)
<1> DEFINE s == Front(t[2])
           q == ClosedScope(t[1])
<1>1. /\ q \in Refs /\ s \in Streams /\ s # Root /\ <<q, s>> \in DOMAIN openStreams
      /\ Opener(t[2]) = <<q, s>> /\ (IsPrefix(s, x) \/ IsPrefix(x, s))
  BY LiftPlace DEF AllAt
<1>2. PICK k \in DOMAIN x : x[k][1] = q
  OBVIOUS
<1> HIDE DEF s, q
<1>3. \E d \in Streams : d \in streams /\ d # Root /\ Opener(d) = <<q, s>> /\ IsPrefix(d, x)
  BY <1>1, <1>2, ThroughChild
<1> QED BY <1>1, <1>3

\* Nothing above the gather is left to run further in, save the gather itself.
LEMMA LiftQuiet ==
  ASSUME Loopless, TypeOK, MarkInv, NEW t \in Tasks, Active(t), AllAt(t),
         Front(t[2]) # Root, NEW x \in Streams, IsPrefix(Front(t[2]), x),
         NEW a \in Above(t[1]), Active(<<a, x>>)
  PROVE  <<a, x>> = t
<1> DEFINE s == Front(t[2])
           q == ClosedScope(t[1])
<1>1. /\ t[1] \in Refs /\ t[2] \in Streams /\ t[1] \in Gathers /\ t[2] # Root
      /\ q \in Refs /\ s \in Streams /\ FedIn(q, s) /\ ~Active(<<q, s>>)
      /\ FedIn(t[1], t[2]) /\ Len(t[2]) = Outer(t[1]) /\ Last(t[2])[1] = q
  BY TaskFacts, LiftPlace DEF AllAt
<1>2. a \in Refs /\ <<a, x>> \in Tasks
  BY <1>1, UpstreamLeast DEF Above, Tasks
<1>3. FedIn(a, x) /\ x \in streams
  BY <1>2, ActiveStreams
<1> HIDE DEF s, q
<1>4. /\ \A r \in Refs : InScope(a, r) /\ r # a => \E k \in DOMAIN x : x[k][1] = r
      /\ a \in Gathers => \E k \in DOMAIN x : x[k][1] = ClosedScope(a)
  BY <1>2, <1>3, FedPlaces DEF MarkInv, Tree
<1>5. a \notin Above(q)
  <2>1. ASSUME a \in Above(q) PROVE FALSE
    <3>1. a = q /\ x = s
      BY <1>1, <1>3, <2>1, AboveQuiet DEF s
    <3> QED BY <1>1, <3>1
  <2> QED BY <2>1
<1>6. a = t[1] \/ InScope(a, q)
  <2>1. ASSUME a # t[1] PROVE InScope(a, q)
    <3>1. a \in Upstream[t[1]]
      BY <2>1 DEF Above
    <3>2. PICK e \in InEdges(t[1]) : a = e.src \/ a \in Upstream[e.src]
      BY <1>1, <3>1, UpstreamLastEdge
    <3>3. e \in Edges /\ e.src \in Refs /\ a \in Above(e.src) /\ MarkedIn(e, t[2])
      BY <1>1, <3>2, EdgeEnds DEF InEdges, Above, FedIn, AllIn
    <3>4. Depth(e.src) = Outer(t[1])
      BY <1>1, <3>2, OuterFacts
    <3>5. Names(t[2]) = ScopeChain[e.src]
      BY <1>1, <3>3, <3>4 DEF MarkInv, Placed, PlacedAt
    <3>6. Names(t[2]) \in Seq(Refs) /\ Names(t[2]) # << >> /\ Last(Names(t[2])) = q
      BY <1>1, NamesFacts
    <3>7. \E k \in DOMAIN ScopeChain[e.src] : ScopeChain[e.src][k] = q
      <4>1. Len(Names(t[2])) \in DOMAIN Names(t[2]) /\ Names(t[2])[Len(Names(t[2]))] = q
        <5>1. Len(Names(t[2])) \in 1..Len(Names(t[2])) /\ DOMAIN Names(t[2]) = 1..Len(Names(t[2]))
          BY <3>6
        <5> QED BY <3>6, <5>1 DEF Last
      <4> QED BY <3>5, <4>1
    <3>8. InScope(e.src, q)
      BY <3>7 DEF InScope
    <3> QED BY <1>1, <1>5, <3>3, <3>8, ScopeClosed DEF Above
  <2> QED BY <2>1
<1>7. \E k \in DOMAIN x : x[k][1] = q
  <2>1. a # q
    BY <1>5 DEF Above
  <2> QED BY <1>1, <1>4, <1>6, <2>1 DEF q
<1>8. PICK d \in Streams : d \in streams /\ d # Root /\ Opener(d) = Opener(t[2]) /\ IsPrefix(d, x)
  BY <1>3, <1>7, LiftThrough DEF q
<1> QED BY <1>8, AllAtQuiet

\* A gather's edges are not yet marked where it goes up to.
LEMMA LiftUnmarked ==
  ASSUME Loopless, TypeOK, MarkInv, NEW t \in Tasks, Active(t), AllAt(t), NEW e \in OutEdges(t[1])
  PROVE  ~MarkedIn(e, Front(t[2]))
<1> DEFINE s == Front(t[2])
           q == ClosedScope(t[1])
<1>1. /\ t[1] \in Refs /\ t[2] \in Streams /\ t[1] \in Gathers /\ t[2] # Root
      /\ e \in Edges /\ e.src = t[1] /\ Kind[t[1]] = "gather" /\ t = <<t[1], t[2]>>
      /\ Opener(t[2]) = <<q, s>>
  BY TaskFacts, OwnEdges DEF AllAt, Gathers
<1>2. /\ s \in Streams /\ Len(s) = Depth(t[1]) /\ Depth(t[1]) \in Nat
      /\ Outer(t[1]) = Depth(t[1]) + 1 /\ t[2] \in streams
  BY <1>1, LiftPlace
<1> HIDE DEF s, q
<1>3. ~FedIn(t[1], s)
  <2>1. ASSUME FedIn(t[1], s) PROVE FALSE
    <3>1. Len(s) >= Outer(t[1])
      BY <1>1, <1>2, <2>1, FedPlaces DEF MarkInv, Tree
    <3> QED BY <1>2, <3>1
  <2> QED BY <2>1
<1>4. ~Lifted(t[1], s)
  BY <1>1, <1>2 DEF Lifted, q
<1> QED BY <1>1, <1>2, <1>3, <1>4 DEF MarkInv, Sourced, SourcedAt, s

\* The markers will be sound there.
LEMMA LiftMarks ==
  ASSUME Loopless, TypeOK, MarkInv, NEW t \in Tasks, Active(t), Spread(t, {Front(t[2])}),
         LiftEnd(t), NEW e \in OutEdges(t[1])
  PROVE  /\ ~MarkedIn(e, Front(t[2]))
         /\ PlacedAt(e, Front(t[2]))' /\ SourcedAt(e, Front(t[2]))'
<1> DEFINE s == Front(t[2])
           q == ClosedScope(t[1])
<1>1. /\ t[1] \in Refs /\ t[2] \in Streams /\ t[1] \in Gathers /\ t[2] # Root
      /\ e \in Edges /\ e.src = t[1] /\ Kind[t[1]] = "gather" /\ t = <<t[1], t[2]>>
      /\ Opener(t[2]) = <<q, s>> /\ AllAt(t)
  BY TaskFacts, OwnEdges DEF LiftEnd, AllAt, Gathers
<1>2. /\ s \in Streams /\ s \in streams /\ q \in Refs /\ Len(s) = Depth(t[1])
      /\ Depth(t[1]) \in Nat
      /\ Names(s) = ScopeChain[t[1]] /\ ~Skipping(s) /\ <<q, s>> \in DOMAIN openStreams
      /\ \A k \in DOMAIN s : s[k][1] \in Above(t[1])
  BY <1>1, LiftPlace
<1> HIDE DEF s, q
<1>5. ~MarkedIn(e, s)
  BY <1>1, LiftUnmarked DEF s
<1>6. ASSUME NEW r \in Refs, InScope(t[1], r) PROVE \E k \in DOMAIN s : s[k][1] = r
  <2>1. PICK k \in DOMAIN ScopeChain[t[1]] : ScopeChain[t[1]][k] = r
    BY <1>6 DEF InScope
  <2> QED BY <1>2, <2>1 DEF Names
<1>7. PlacedAt(e, s)'
  BY <1>1, <1>2, <1>6 DEF PlacedAt, LiftEnd
<1>8. Lifted(t[1], s)'
  <2>1. ASSUME NEW d \in Streams, d \in streams, d # Root, Opener(d) = <<q, s>>
        PROVE  FedIn(t[1], d)' /\ ~Active(<<t[1], d>>)'
    <3>1. FedIn(t[1], d) /\ (d # t[2] => ~Active(<<t[1], d>>)) /\ <<t[1], d>> \in Tasks
      BY <1>1, <2>1 DEF AllAt, Tasks
    <3>2. FedIn(t[1], d)'
      BY <3>1, SpreadFed
    <3>3. ~Active(<<t[1], d>>) \/ <<t[1], d>> = t
      BY <1>1, <3>1
    <3>4. <<t[1], d>>[1] = t[1] /\ <<t[1], d>>[2] = d
      OBVIOUS
    <3>5. AllIn(<<t[1], d>>[1], <<t[1], d>>[2])
      BY <3>1, <3>4 DEF FedIn
    <3>6. ~Active(<<t[1], d>>)'
      BY <3>1, <3>3, <3>5, SpreadQuiet
    <3> QED BY <3>2, <3>6
  <2> QED BY <1>2, <2>1 DEF Lifted, LiftEnd, q
<1>9. SourcedAt(e, s)'
  BY <1>1, <1>8 DEF SourcedAt
<1> QED BY <1>5, <1>7, <1>9 DEF s

\* Nor along the line.
LEMMA LiftLine ==
  ASSUME Loopless, TypeOK, MarkInv, NEW t \in Tasks, Active(t), AllAt(t),
         NEW e \in OutEdges(t[1]), ~MarkedIn(e, Front(t[2])),
         NEW x \in Streams, x # Root, Front(t[2]) # Root, MarkedIn(e, x),
         IsPrefix(x, Front(t[2])) \/ IsPrefix(Front(t[2]), x)
  PROVE  FALSE
<1> DEFINE s == Front(t[2])
           q == ClosedScope(t[1])
<1>1. /\ t[1] \in Refs /\ t[1] \in Gathers /\ t[2] \in Streams
      /\ e \in Edges /\ e.src = t[1] /\ Kind[t[1]] = "gather" /\ Opener(t[2]) = <<q, s>>
  BY TaskFacts, OwnEdges DEF AllAt, Gathers
<1>2. /\ s \in Streams /\ s \in streams /\ q \in Refs /\ Len(s) = Depth(t[1])
      /\ Depth(t[1]) \in Nat /\ <<q, s>> \in DOMAIN openStreams
      /\ Depth(q) = Depth(t[1]) + 1
  BY <1>1, LiftPlace, ClosedFacts
<1> HIDE DEF s, q
<1>3. /\ s \in Seq(Element) /\ x \in Seq(Element) /\ Len(s) # 0 /\ Len(x) \in Nat
      /\ (IsPrefix(x, s) \/ IsPrefix(s, x))
  BY <1>2, StreamFacts DEF s
<1>4. x \in streams /\ PlacedAt(e, x)
  BY <1>1 DEF MarkInv, Placed, PlacedAt
<1>5. CASE FedIn(t[1], x)
  <2>1. \E k \in DOMAIN x : x[k][1] = q
    BY <1>1, <1>5, FedPlaces DEF MarkInv, Tree, q
  <2>2. PICK d \in Streams : d \in streams /\ d # Root /\ Opener(d) = Opener(t[2]) /\ IsPrefix(d, x)
    BY <1>3, <1>4, <2>1, LiftThrough DEF q, s
  <2>3. FedIn(t[1], d)
    BY <2>2 DEF AllAt
  <2>4. d = x
    BY <1>5, <2>2, <2>3, FedLine
  <2>5. Opener(x) = <<q, s>> /\ Front(x) = s
    BY <1>1, <2>2, <2>4 DEF Opener
  <2>6. Len(x) = Len(s) + 1
    BY <2>5, StreamFacts
  <2>7. Aside(x)
    BY <1>1, <1>2, <1>4, <2>6 DEF PlacedAt
  <2> QED BY <1>2, <1>3, <2>5, <2>6, <2>7 DEF Aside
<1>6. CASE Lifted(t[1], x)
  <2>1. OpenAt(<<q, x>>)
    BY <1>6 DEF Lifted, MarkInv, Opened, q
  <2>2. Len(x) + 1 = Depth(q)
    BY <2>1 DEF OpenAt
  <2>3. Len(x) = Len(s)
    BY <1>2, <1>3, <2>2
  <2>4. x = s
    <3>1. Len(x) >= Len(s) /\ Len(s) >= Len(x)
      BY <1>2, <2>3
    <3> QED BY <1>3, <3>1, PrefixOrder
  <2> QED BY <2>4 DEF s
<1> QED BY <1>1, <1>5, <1>6 DEF MarkInv, Sourced, SourcedAt

\* So the markers of a gather that goes back up are sound.
LEMMA LiftSound ==
  ASSUME Loopless, TypeOK, MarkInv, NEW t \in Tasks, Active(t), Spread(t, {Front(t[2])}),
         LiftEnd(t)
  PROVE  Sound(t, {Front(t[2])}) /\ Grown(t)
<1> DEFINE s == Front(t[2])
<1>1. /\ t[1] \in Refs /\ t[2] \in Streams /\ AllAt(t) /\ s \in Streams
      /\ IsPrefix(s, t[2]) /\ Len(s) = Depth(t[1]) /\ Outer(t[1]) = Depth(t[1]) + 1
      /\ Depth(t[1]) \in Nat
  BY TaskFacts, LiftPlace DEF LiftEnd
<1>2. \A e \in OutEdges(t[1]) : ~MarkedIn(e, s) /\ PlacedAt(e, s)' /\ SourcedAt(e, s)'
  BY LiftMarks
<1>3. ASSUME NEW e \in OutEdges(t[1]), NEW x \in Streams, x # Root, s # Root, MarkedIn(e, x)
      PROVE  ~IsPrefix(x, s) /\ ~IsPrefix(s, x)
  BY <1>1, <1>2, <1>3, LiftLine
<1>4. ASSUME NEW x \in Streams, s # Root, IsPrefix(s, x), NEW a \in Above(t[1]), Active(<<a, x>>)
      PROVE  <<a, x>> = t
  BY <1>1, <1>4, LiftQuiet
<1>5. ~Active(<<t[1], s>>)
  <2>1. ASSUME Active(<<t[1], s>>) PROVE FALSE
    <3>1. <<t[1], s>> \in Tasks
      BY <1>1 DEF Tasks
    <3>2. FedIn(t[1], s)
      BY <2>1, <3>1, ActiveStreams
    <3>3. Len(s) >= Outer(t[1])
      BY <1>1, <3>2, FedPlaces DEF MarkInv, Tree
    <3> QED BY <1>1, <3>3
  <2> QED BY <2>1
<1>6. ASSUME NEW x \in Streams, IsPrefix(x, s) PROVE IsPrefix(x, t[2])
  <2>1. x \in Seq(Element) /\ s \in Seq(Element) /\ t[2] \in Seq(Element)
    BY <1>1, StreamFacts
  <2> QED BY <1>1, <1>6, <2>1, PrefixOrder
<1> HIDE DEF s
<1>7. Sound(t, {s})
  BY <1>1, <1>2, <1>3, <1>4, <1>5, <1>6 DEF Sound
<1>8. Grown(t)
  <2>1. t \notin DOMAIN openStreams
    BY DEF MarkInv, Opened, OpenAt
  <2>2. taskStreams[t] = 0
    BY <2>1 DEF MarkInv, Opened
  <2> QED BY <2>1, <2>2 DEF Grown, LiftEnd
<1> QED BY <1>7, <1>8 DEF s

-----------------------------------------------------------------------------
(* Counting the streams of a scatter down.                                 *)

GatherAwaits == {"gather_item", "gather_finalize", "gather_exec", "gather_empty"}
LoopAwaits   == {"loop_start", "loop_cond", "loop_continue", "loop_stop"}
Collecting   == {"gather_finalize", "gather_exec"}

\* What a coroutine awaits suits the kind of its action.
Suits(t, label) ==
  /\ label = "execute" => Kind[t[1]] = "action"
  /\ label \in GatherAwaits => Kind[t[1]] = "gather"
  /\ label \notin LoopAwaits
PcSuits == \A t \in Tasks : Suits(t, pc[t])

\* Past the skip check, some edge into the task is not skipped.
Alive == \A t \in Tasks : pc[t] \in PastCheck \cup {"run_if"} => ~SkipShouldPropagate(t)

\* A task that completed was fed, and does not wait or run again.
Completed == \A t \in completed : FedIn(t[1], t[2]) /\ ~Active(t)

\* The gathers that closed their streams, and the streams of a scatter not yet closed.
Past == completed \cup {t \in Tasks : pc[t] \in Collecting}
NotPast(g, s) == {i \in 0..(taskStreams[<<ClosedScope(g), s>>] - 1) :
                    <<g, Child(s, ClosedScope(g), i)>> \notin Past}

\* open_streams is never below the number of streams still to close.
Counted ==
  /\ \A g \in Gathers : \A s \in Streams : <<ClosedScope(g), s>> \in DOMAIN openStreams =>
       Cardinality(NotPast(g, s)) <= openStreams[<<ClosedScope(g), s>>]
  /\ \A t \in DOMAIN openStreams : openStreams[t] <= taskStreams[t]

\* The gather that puts a result together is the last of its scatter, and the only one.
FinalAt(t) ==
  /\ pc[t] = "gather_empty" => IsSkipStream(t[2]) /\ Opener(t[2]) \in DOMAIN openStreams
  /\ pc[t] \in Collecting => ~IsSkipStream(t[2]) /\ openStreams[Opener(t[2])] <= 0
  /\ \A u \in Tasks : /\ pc[t] \in Collecting /\ pc[u] \in Collecting
                      /\ u[1] = t[1] /\ Opener(u[2]) = Opener(t[2])
                      => u = t
Finals == \A t \in Tasks : FinalAt(t)

\* While streams are open, a gather's result is the list its streams write to.
CleanAt(t) ==
  /\ t[1] \in Gathers /\ <<ClosedScope(t[1]), t[2]>> \in DOMAIN openStreams
  /\ openStreams[<<ClosedScope(t[1]), t[2]>>] > 0 =>
       /\ gathered[t].kind = "inline"
       /\ Len(gathered[t].slots) = taskStreams[<<ClosedScope(t[1]), t[2]>>]
       /\ \A i \in DOMAIN gathered[t].slots : gathered[t].slots[i] # "raw"
Clean == \A t \in DOMAIN gathered : CleanAt(t)

WorkInv == /\ MarkInv /\ PcSuits /\ Alive /\ Completed
           /\ Counted /\ Finals /\ Clean

\* No two gathers close the same scatter.
OneGather == \A g, h \in Gathers : ClosedScope(g) = ClosedScope(h) => g = h

\* A gather in an execution stream, or in the skip stream of an empty scatter, is where
\* its scatter's streams meet.
LEMMA GatherPlace ==
  ASSUME Loopless, TypeOK, MarkInv, NEW t \in Tasks, Kind[t[1]] = "gather", FedIn(t[1], t[2]),
         ~IsSkipStream(t[2]) \/ Opener(t[2]) \in DOMAIN openStreams
  PROVE  /\ t[1] \in Gathers /\ t[2] # Root /\ t[2] \in streams
         /\ Opener(t[2]) = <<ClosedScope(t[1]), Front(t[2])>> /\ Opener(t[2]) \in DOMAIN openStreams
         /\ Opener(t[2]) \in Tasks /\ ParentScatter(t) = Opener(t[2])
         /\ Len(t[2]) = Depth(t[1]) + 1
         /\ t[2] = Child(Front(t[2]), ClosedScope(t[1]), Last(t[2])[2])
         /\ ~IsSkipStream(t[2]) => /\ Last(t[2])[2] \in Nat
                                   /\ Last(t[2])[2] < taskStreams[Opener(t[2])]
<1>1. t[1] \in Refs /\ t[2] \in Streams /\ t[1] \in Gathers
  BY TaskFacts DEF Gathers
<1>2. /\ t[2] \in streams /\ Outer(t[1]) \in Nat /\ Len(t[2]) \in Nat /\ Len(t[2]) >= Outer(t[1])
      /\ Len(t[2]) = Outer(t[1]) => Last(t[2])[1] = ClosedScope(t[1])
      /\ t[2] # Root /\ (Len(t[2]) > Outer(t[1]) => Aside(t[2]))
  BY <1>1, FedPlaces DEF MarkInv, Tree
<1>3. Outer(t[1]) = Depth(t[1]) + 1 /\ Depth(t[1]) \in Nat
  BY <1>1, ClosedFacts DEF Outer
<1>4. /\ Front(t[2]) \in Streams /\ Opener(t[2]) \in Tasks /\ Last(t[2])[2] \in Nat \cup {Skip}
      /\ Opener(t[2]) = <<Last(t[2])[1], Front(t[2])>> /\ t[2] = Append(Front(t[2]), Last(t[2]))
      /\ Last(t[2]) = <<Last(t[2])[1], Last(t[2])[2]>>
  BY <1>1, <1>2, StreamFacts DEF Opener
<1>5. TreeAt(t[2])
  BY <1>2 DEF MarkInv, Tree
<1>6. Len(t[2]) = Outer(t[1])
  <2>1. ASSUME Len(t[2]) > Outer(t[1]) PROVE FALSE
    BY <1>2, <1>3, <2>1 DEF Aside
  <2> QED BY <1>2, <2>1
<1>7. ~IsSkipStream(t[2]) =>
        /\ Last(t[2])[2] \in Nat /\ Last(t[2])[2] < taskStreams[Opener(t[2])]
        /\ Opener(t[2]) \in DOMAIN openStreams
  BY <1>2, <1>4, <1>5 DEF TreeAt, IsSkipStream
<1> QED BY <1>1, <1>2, <1>3, <1>4, <1>6, <1>7 DEF ParentScatter, Opener, Child

\* Some of n items are at most n.
LEMMA SomeOf ==
  ASSUME NEW n \in Nat, NEW N \in SUBSET (0..(n - 1))
  PROVE  IsFiniteSet(N) /\ Cardinality(N) \in Nat /\ Cardinality(N) <= n
<1>1. IsFiniteSet(0..(n - 1)) /\ Cardinality(0..(n - 1)) = n
  <2>1. 0 \in Int /\ n - 1 \in Int
    OBVIOUS
  <2>2. IsFiniteSet(0..(n - 1)) /\ Cardinality(0..(n - 1)) = IF 0 > n - 1 THEN 0 ELSE (n - 1) - 0 + 1
    BY <2>1, FS_Interval
  <2> QED BY <2>2
<1>2. IsFiniteSet(N) /\ Cardinality(N) <= Cardinality(0..(n - 1))
  BY <1>1, FS_Subset
<1> QED BY <1>1, <1>2, FS_CardinalityType

\* The streams not yet closed are finitely many.
LEMMA NotPastFacts ==
  ASSUME TypeOK, NEW g, NEW s, <<ClosedScope(g), s>> \in Tasks
  PROVE  /\ taskStreams[<<ClosedScope(g), s>>] \in Nat
         /\ IsFiniteSet(NotPast(g, s)) /\ Cardinality(NotPast(g, s)) \in Nat
<1>1. taskStreams[<<ClosedScope(g), s>>] \in Nat
  BY DEF TypeOK
<1>2. NotPast(g, s) \in SUBSET (0..(taskStreams[<<ClosedScope(g), s>>] - 1))
  BY DEF NotPast
<1> QED BY <1>1, <1>2, SomeOf

\* A gather at work in a stream that is not closed yet is counted.
LEMMA CloseCount ==
  ASSUME Loopless, TypeOK, WorkInv, NEW t \in Tasks, Active(t), Kind[t[1]] = "gather",
         ~IsSkipStream(t[2]), pc[t] \notin Collecting
  PROVE  /\ Last(t[2])[2] \in NotPast(t[1], Front(t[2]))
         /\ openStreams[Opener(t[2])] \in Int /\ openStreams[Opener(t[2])] >= 1
<1> DEFINE s == Front(t[2])
           i == Last(t[2])[2]
           N == NotPast(t[1], s)
<1>1. FedIn(t[1], t[2]) /\ MarkInv
  BY DEF WorkInv, MarkInv, Owned, OwnedAt
<1>2. /\ t[1] \in Gathers /\ t[2] # Root /\ Opener(t[2]) = <<ClosedScope(t[1]), s>>
      /\ Opener(t[2]) \in DOMAIN openStreams /\ Opener(t[2]) \in Tasks
      /\ t[2] = Child(s, ClosedScope(t[1]), i) /\ i \in Nat /\ i < taskStreams[Opener(t[2])]
  BY <1>1, GatherPlace
<1>3. t \notin Past /\ t = <<t[1], t[2]>> /\ s \in Streams
  BY <1>2, TaskFacts, StreamFacts DEF Past, WorkInv, Completed
<1>4. /\ taskStreams[Opener(t[2])] \in Nat /\ IsFiniteSet(N) /\ Cardinality(N) \in Nat
  BY <1>2, NotPastFacts
<1>5. i \in N
  BY <1>2, <1>3, <1>4 DEF NotPast
<1> HIDE DEF i, N
<1>6. Cardinality(N) # 0
  BY <1>4, <1>5, FS_EmptySet
<1>7. Cardinality(N) <= openStreams[Opener(t[2])]
  BY <1>2, <1>3 DEF WorkInv, Counted, N
<1>8. openStreams[Opener(t[2])] \in Int
  BY <1>2 DEF TypeOK
<1> QED BY <1>4, <1>5, <1>6, <1>7, <1>8 DEF i, N

\* A gather that puts its result together has all the streams of its scatter at it.
LEMMA CollectAllAt ==
  ASSUME Loopless, TypeOK, WorkInv, NEW t \in Tasks, pc[t] \in Collecting
  PROVE  AllAt(t)
<1> DEFINE s == Front(t[2])
           q == ClosedScope(t[1])
           N == NotPast(t[1], s)
<1>1. /\ Kind[t[1]] = "gather" /\ Active(t) /\ ~IsSkipStream(t[2]) /\ MarkInv
      /\ openStreams[Opener(t[2])] <= 0 /\ FedIn(t[1], t[2])
  <2>1. Kind[t[1]] = "gather"
    BY DEF WorkInv, PcSuits, Suits, Collecting, GatherAwaits
  <2>2. Active(t)
    BY DEF Active, Running, Collecting
  <2>3. FedIn(t[1], t[2])
    BY <2>2 DEF WorkInv, MarkInv, Owned, OwnedAt
  <2> QED BY <2>1, <2>2, <2>3 DEF WorkInv, Finals, FinalAt
<1>2. /\ t[1] \in Gathers /\ t[2] # Root /\ Opener(t[2]) = <<q, s>>
      /\ Opener(t[2]) \in DOMAIN openStreams /\ Opener(t[2]) \in Tasks
      /\ Last(t[2])[2] \in Nat /\ Last(t[2])[2] < taskStreams[Opener(t[2])]
  BY <1>1, GatherPlace
<1>3. t[1] \in Refs /\ t[2] \in Streams /\ s \in Streams /\ openStreams[Opener(t[2])] \in Int
  BY <1>2, TaskFacts, StreamFacts DEF TypeOK
<1>4. N = {}
  <2>1. taskStreams[Opener(t[2])] \in Nat /\ IsFiniteSet(N) /\ Cardinality(N) \in Nat
    BY <1>2, NotPastFacts
  <2>2. Cardinality(N) <= openStreams[Opener(t[2])]
    BY <1>2, <1>3 DEF WorkInv, Counted
  <2>3. Cardinality(N) = 0
    BY <1>1, <1>3, <2>1, <2>2
  <2> QED BY <2>1, <2>3, FS_EmptySet
<1>5. ASSUME NEW d \in Streams, d \in streams, d # Root, Opener(d) = Opener(t[2])
      PROVE  FedIn(t[1], d) /\ (d # t[2] => ~Active(<<t[1], d>>))
  <2>1. TreeAt(d)
    BY <1>1, <1>5 DEF MarkInv, Tree
  <2>2. taskStreams[Opener(t[2])] # 0 /\ taskStreams[Opener(t[2])] \in Nat
    BY <1>2 DEF TypeOK
  <2>3. ~IsSkipStream(d) /\ Last(d)[2] < taskStreams[Opener(t[2])]
    BY <1>5, <2>1, <2>2 DEF TreeAt
  <2>4. /\ Last(d)[2] \in Nat /\ d = Append(Front(d), Last(d)) /\ Last(d) = <<Last(d)[1], Last(d)[2]>>
    BY <1>5, <2>3, StreamFacts DEF IsSkipStream
  <2>5. Last(d)[1] = q /\ Front(d) = s
    BY <1>2, <1>5 DEF Opener
  <2>6. d = Child(s, q, Last(d)[2])
    BY <2>4, <2>5 DEF Child
  <2>7. Last(d)[2] \in 0..(taskStreams[Opener(t[2])] - 1)
    BY <2>2, <2>3, <2>4
  <2>8. <<t[1], d>> \in Past
    BY <1>2, <1>4, <2>6, <2>7 DEF NotPast
  <2>9. <<t[1], d>> \in Tasks
    BY <1>3 DEF Tasks
  <2>10. CASE <<t[1], d>> \in completed
    BY <2>10 DEF WorkInv, Completed
  <2>11. CASE pc[<<t[1], d>>] \in Collecting
    <3>1. Active(<<t[1], d>>)
      BY <2>11 DEF Active, Running, Collecting
    <3>2. FedIn(t[1], d)
      BY <1>1, <2>9, <3>1 DEF MarkInv, Owned, OwnedAt
    <3>3. <<t[1], d>> = t
      BY <1>5, <2>9, <2>11 DEF WorkInv, Finals, FinalAt
    <3>4. d = t[2]
      BY <3>3
    <3> QED BY <3>2, <3>4
  <2> QED BY <2>8, <2>10, <2>11 DEF Past
<1> QED BY <1>2, <1>5 DEF AllAt

\* So has one that writes the result of an empty scatter.
LEMMA EmptyAllAt ==
  ASSUME Loopless, TypeOK, WorkInv, NEW t \in Tasks, pc[t] = "gather_empty"
  PROVE  AllAt(t) /\ openStreams[Opener(t[2])] <= 0
<1>1. /\ Kind[t[1]] = "gather" /\ Active(t) /\ IsSkipStream(t[2]) /\ MarkInv
      /\ Opener(t[2]) \in DOMAIN openStreams /\ FedIn(t[1], t[2])
  <2>1. Kind[t[1]] = "gather"
    BY DEF WorkInv, PcSuits, Suits, GatherAwaits
  <2>2. Active(t)
    BY DEF Active, Running
  <2>3. FedIn(t[1], t[2])
    BY <2>2 DEF WorkInv, MarkInv, Owned, OwnedAt
  <2> QED BY <2>1, <2>2, <2>3 DEF WorkInv, Finals, FinalAt
<1>2. /\ t[1] \in Gathers /\ t[2] # Root /\ t[2] \in streams
      /\ Opener(t[2]) = <<ClosedScope(t[1]), Front(t[2])>>
      /\ Opener(t[2]) \in Tasks
  BY <1>1, GatherPlace
<1>3. taskStreams[Opener(t[2])] = 0
  BY <1>1, <1>2 DEF MarkInv, Tree, TreeAt
<1>4. openStreams[Opener(t[2])] <= 0
  BY <1>1, <1>3 DEF WorkInv, Counted
<1>5. ASSUME NEW d \in Streams, d \in streams, d # Root, Opener(d) = Opener(t[2])
      PROVE  d = t[2]
  <2>1. t[2] \in Streams /\ TreeAt(d)
    BY <1>1, <1>5, TaskFacts DEF MarkInv, Tree
  <2>2. Last(d)[2] \in Nat \cup {Skip} /\ d = Append(Front(d), Last(d)) /\ Last(d) = <<Last(d)[1], Last(d)[2]>>
    BY <1>5, StreamFacts
  <2>3. IsSkipStream(d)
    BY <1>3, <1>5, <2>1, <2>2 DEF TreeAt, IsSkipStream
  <2>4. t[2] = Append(Front(t[2]), Last(t[2])) /\ Last(t[2]) = <<Last(t[2])[1], Last(t[2])[2]>>
    BY <1>2, <2>1, StreamFacts
  <2>5. Last(d)[2] = Skip /\ Last(t[2])[2] = Skip
    BY <1>1, <2>3 DEF IsSkipStream
  <2>6. Last(d)[1] = Last(t[2])[1] /\ Front(d) = Front(t[2])
    BY <1>5 DEF Opener
  <2>7. Last(d) = Last(t[2])
    BY <2>2, <2>4, <2>5, <2>6
  <2> QED BY <2>2, <2>4, <2>6, <2>7
<1> QED BY <1>1, <1>2, <1>4, <1>5 DEF AllAt

-----------------------------------------------------------------------------
(* The six things a coroutine's step can do while the workflow is at work, *)
(* if no failure leaks out of a scope.                                     *)

\* The scatters and gathers that may fail: by their activities or expressions, because the
\* error strategy says so, or because they are joined to dependencies some of which skip.
MayFail(r) == r \in CanFail \cup RaiseErrors \/ (r \in JoinAll /\ NDeps(r) > 1)

\* A scatter or gather that may fail is outermost, and no error edge leads on from it; and
\* no two gathers close the same scatter.
Contained ==
  /\ \A r \in Scatters : MayFail(r) => ErrorEdges(r) = {} /\ Depth(r) = 1
  /\ \A r \in Gathers : MayFail(r) => ErrorEdges(r) = {} /\ Depth(r) = 0
  /\ OneGather

\* The result in the parent stream is written, and no other.
Wrote(t) == /\ DOMAIN gathered' \subseteq DOMAIN gathered \cup {ParentGather(t)}
            /\ \A u \in DOMAIN gathered' : u # ParentGather(t) => gathered'[u] = gathered[u]

\* The coroutine goes on to its next await, ...
MovesTo(t, label) ==
  /\ Await(t, label) /\ UNCHANGED <<graphVars, streamVars>>
  /\ Suits(t, label) /\ label # "gather_finalize"
  /\ label \in PastCheck \cup {"run_if"} => ~SkipShouldPropagate(t)
  /\ label \in PastCheck => IsReachable(t)
  /\ label = "gather_empty" => IsSkipStream(t[2]) /\ Opener(t[2]) \in DOMAIN openStreams
  /\ IF label = "gather_exec" THEN pc[t] = "gather_finalize" /\ Wrote(t)
     ELSE pc[t] \notin Collecting /\ UNCHANGED gathered
Moves(t) == \E label \in Awaits : MovesTo(t, label)

\* ... stops with the workflow, ...
Stops(t) == Finish(t) /\ UNCHANGED <<graphVars, streamVars, gathered>>

\* ... closes its stream, the last one going on to the result, ...
Closes(t) ==
  LET sc == ParentScatter(t)
  IN  /\ Kind[t[1]] = "gather" /\ ~IsSkipStream(t[2]) /\ pc[t] \notin Collecting
      /\ UNCHANGED <<graphVars, streams, taskStreams>>
      /\ openStreams' = [openStreams EXCEPT ![sc] = openStreams[sc] - 1]
      /\ Wrote(t)
      /\ openStreams[sc] - 1 > 0 /\ ParentGather(t) \in DOMAIN gathered' =>
           /\ gathered'[ParentGather(t)].kind = "inline"
           /\ Len(gathered'[ParentGather(t)].slots) = taskStreams[sc]
           /\ \A i \in DOMAIN gathered'[ParentGather(t)].slots :
                gathered'[ParentGather(t)].slots[i] # "raw"
      /\ \/ openStreams[sc] - 1 = 0 /\ Await(t, "gather_finalize")
         \/ Finish(t)

\* ... marks its edges in its own stream, ...
Owns(t) == /\ Finish(t) /\ UNCHANGED <<streamVars, gathered>>
           /\ \E skip : QueueTasks(t[1], t[2], skip)
           /\ OwnEnd(t)

\* ... opens streams and marks its edges there, ...
Parts(t) ==
  /\ Finish(t)
  /\ \E S, skip, late : QueueTasksIn(t[1], S, skip, late) /\ SplitEnd(t, S)
  /\ \E n \in Nat : /\ taskStreams' = [taskStreams EXCEPT ![t] = n]
                    /\ openStreams' = openStreams \/ openStreams' = Put(openStreams, t, n)
  /\ DOMAIN gathered' \subseteq DOMAIN gathered
  /\ \A u \in DOMAIN gathered' : gathered'[u] = gathered[u]

\* ... or goes back up to the stream of its scatter.
Lifts(t) == /\ pc[t] \in {"gather_exec", "gather_empty"}
            /\ Finish(t) /\ UNCHANGED streamVars
            /\ QueueTasks(t[1], Front(t[2]), {})
            /\ Wrote(t)

WorkShape(t) == Moves(t) \/ Stops(t) \/ Closes(t) \/ Owns(t) \/ Parts(t) \/ Lifts(t)

\* A fed task that is not skipped and not reachable is joined to several dependencies.
LEMMA Unreachable ==
  ASSUME TypeOK, NEW t \in Tasks, AllIn(t[1], t[2]), ~SkipShouldPropagate(t), ~IsReachable(t)
  PROVE  MayFail(t[1])
<1> DEFINE I == InEdges(t[1])
           V == {e \in I : edges[<<e, t[2]>>] = "VISITED"}
<1>1. t[1] \in Refs /\ t[2] \in Streams /\ IsFiniteSet(I) /\ Cardinality(I) \in Nat
      /\ Cardinality(I) = NDeps(t[1])
  BY TaskFacts, GraphAssumption, FS_Subset, FS_CardinalityType DEF InEdges, NDeps
<1>2. IsFiniteSet(V) /\ Cardinality(V) \in Nat /\ Cardinality(V) <= Cardinality(I)
      /\ Cardinality(V) = NVisited(t)
  BY <1>1, FS_Subset, FS_CardinalityType DEF NVisited
<1>3. NDeps(t[1]) # 0
  BY DEF IsReachable
<1>4. I # {}
  BY <1>1, <1>3, FS_EmptySet
<1>5. PICK e \in I : edges[<<e, t[2]>>] # "SKIPPED"
  BY <1>4 DEF SkipShouldPropagate
<1>6. edges[<<e, t[2]>>] = "VISITED"
  <2>1. edges[<<e, t[2]>>] \in Markers
    BY <1>1 DEF TypeOK, InEdges
  <2>2. edges[<<e, t[2]>>] # "PENDING"
    BY <1>5 DEF AllIn, MarkedIn
  <2> QED BY <1>5, <2>1, <2>2 DEF Markers
<1>7. Cardinality(V) # 0
  BY <1>2, <1>5, <1>6, FS_EmptySet
<1> HIDE DEF I, V
<1> QED BY <1>1, <1>2, <1>3, <1>7 DEF IsReachable, MayFail

\* A failing task stops the workflow, or marks its edges in its own stream.
LEMMA FailWork ==
  ASSUME Loopless, Contained, TypeOK, WorkInv, NEW t \in Tasks, Active(t),
         NEW platform, NEW raised, ErrorPath(t, platform, raised), UNCHANGED <<streamVars, gathered>>,
         Kind[t[1]] \in {"scatter", "gather"} => MayFail(t[1]),
         \/ ~SkipShouldPropagate(t)
         \/ Kind[t[1]] = "gather" /\ (~IsSkipStream(t[2]) \/ Opener(t[2]) \in DOMAIN openStreams)
  PROVE  WorkShape(t)
<1> DEFINE handled == ErrorEdges(t[1]) # {} /\ ~platform
           fatal   == ~handled /\ (t[2] = Root \/ platform)
           skip    == IF handled THEN OutEdges(t[1]) \ ErrorEdges(t[1]) ELSE OutEdges(t[1])
<1>1. Finish(t) /\ IF fatal THEN UNCHANGED graphVars ELSE QueueTasks(t[1], t[2], skip)
  BY DEF ErrorPath
<1>2. t[1] \in Refs /\ t[2] \in Streams /\ Kind[t[1]] \in {"action", "scatter", "gather"} /\ MarkInv
      /\ FedIn(t[1], t[2])
  BY TaskFacts, LooplessGraph DEF WorkInv, MarkInv, Owned, OwnedAt
<1>3. CASE fatal
  BY <1>1, <1>3 DEF WorkShape, Stops
<1>4. CASE ~fatal
  <2>1. QueueTasks(t[1], t[2], skip)
    BY <1>1, <1>4
  <2>2. \A e \in OutEdges(t[1]) : edges'[<<e, t[2]>>] = IF e \in skip THEN "SKIPPED" ELSE "VISITED"
    BY <1>2, <2>1 DEF QueueTasks, QueueTasksIn, OutEdges
  <2>3. /\ streams' = streams /\ taskStreams' = taskStreams /\ openStreams' = openStreams
    BY DEF streamVars
  <2>4. CASE Kind[t[1]] = "action"
    <3>1. ~SkipShouldPropagate(t)
      BY <2>4
    <3>2. ~(Skipping(t[2]) \/ Len(t[2]) > Depth(t[1]))
      <4>1. Skipping(t[2]) \/ Len(t[2]) > Outer(t[1]) =>
              InEdges(t[1]) # {} /\ \A e \in InEdges(t[1]) : edges[<<e, t[2]>>] = "SKIPPED"
        BY <1>2, FedPlaces DEF MarkInv, Tree
      <4>2. Outer(t[1]) = Depth(t[1])
        BY <2>4 DEF Outer
      <4> QED BY <3>1, <4>1, <4>2 DEF SkipShouldPropagate
    <3>3. OwnEnd(t)
      BY <2>3, <2>4, <3>2 DEF OwnEnd
    <3> QED BY <1>1, <2>1, <3>3 DEF WorkShape, Owns
  <2>5. CASE Kind[t[1]] = "scatter"
    <3>1. ErrorEdges(t[1]) = {} /\ Depth(t[1]) = 1 /\ ~SkipShouldPropagate(t)
      BY <1>2, <2>5 DEF Contained, Scatters
    <3>2. /\ Len(t[2]) \in Nat /\ Len(t[2]) + 1 >= Depth(t[1])
          /\ Len(t[2]) + 1 > Depth(t[1]) \/ Skipping(t[2]) => SkipShouldPropagate(t)
      BY <1>2, <2>5, SplitDepth
    <3>3. t[2] = Root
      BY <1>2, <3>1, <3>2, StreamFacts
    <3> QED BY <1>4, <3>1, <3>3
  <2>6. CASE Kind[t[1]] = "gather"
    <3>1. ErrorEdges(t[1]) = {} /\ Depth(t[1]) = 0
      BY <1>2, <2>6 DEF Contained, Gathers
    <3>2. ~IsSkipStream(t[2]) \/ Opener(t[2]) \in DOMAIN openStreams
      <4>1. ASSUME ~SkipShouldPropagate(t), IsSkipStream(t[2]) PROVE FALSE
        <5>1. Skipping(t[2])
          <6>1. t[2] # Root /\ Last(t[2])[2] = Skip
            BY <4>1 DEF IsSkipStream
          <6>2. Len(t[2]) \in DOMAIN t[2]
            BY <1>2, <6>1, StreamFacts
          <6> QED BY <6>1, <6>2 DEF Skipping, Last
        <5>2. Skipping(t[2]) \/ Len(t[2]) > Outer(t[1]) =>
                InEdges(t[1]) # {} /\ \A e \in InEdges(t[1]) : edges[<<e, t[2]>>] = "SKIPPED"
          BY <1>2, FedPlaces DEF MarkInv, Tree
        <5> QED BY <4>1, <5>1, <5>2 DEF SkipShouldPropagate
      <4> QED BY <4>1
    <3>3. Len(t[2]) = 1
      <4>1. Len(t[2]) = Depth(t[1]) + 1
        BY <1>2, <2>6, <3>2, GatherPlace
      <4> QED BY <3>1, <4>1
    <3>4. \A e \in OutEdges(t[1]) : edges'[<<e, t[2]>>] = "SKIPPED"
      BY <2>2, <3>1
    <3>5. OwnEnd(t)
      BY <2>3, <2>6, <3>3, <3>4 DEF OwnEnd, Aside
    <3> QED BY <1>1, <2>1, <3>5 DEF WorkShape, Owns
  <2> QED BY <1>2, <2>4, <2>5, <2>6
<1> QED BY <1>3, <1>4

\* A list of slots with one written.
LEMMA WrittenSlot ==
  ASSUME NEW cur, cur.slots \in Seq(Slots), cur.kind = "inline", NEW n \in Nat, Len(cur.slots) = n,
         \A i \in DOMAIN cur.slots : cur.slots[i] # "raw",
         NEW idx \in 1..n, NEW slot \in Slots, slot # "raw"
  PROVE  LET v == WriteSlot(cur, idx, slot)
         IN  v.kind = "inline" /\ Len(v.slots) = n /\ \A i \in DOMAIN v.slots : v.slots[i] # "raw"
<1> DEFINE w == [cur.slots EXCEPT ![idx] = slot]
<1>1. WriteSlot(cur, idx, slot) = [kind |-> "inline", slots |-> w]
  BY DEF WriteSlot
<1>2. DOMAIN w = DOMAIN cur.slots /\ \A i \in DOMAIN w : w[i] = IF i = idx THEN slot ELSE cur.slots[i]
  OBVIOUS
<1>3. w \in Seq(Slots) /\ Len(w) = n
  OBVIOUS
<1> HIDE DEF w
<1> QED BY <1>1, <1>2, <1>3

\* A gather that closes its stream finds its place in the result, and room for it.
LEMMA CloseWork ==
  ASSUME Loopless, TypeOK, WorkInv, NEW t \in Tasks, Active(t), Kind[t[1]] = "gather",
         ~IsSkipStream(t[2]), pc[t] \notin Collecting,
         NEW slot \in {"item", "error", "none"}, CloseStream(t, slot)
  PROVE  Closes(t)
<1> DEFINE key   == ParentGather(t)
           sc    == ParentScatter(t)
           size  == taskStreams[ParentScatter(t)]
           fresh == [kind |-> "inline", slots |-> [i \in 1..size |-> "unset"]]
           cur   == IF key \in DOMAIN gathered THEN gathered[key] ELSE fresh
           idx   == Last(t[2])[2] + 1
           left  == openStreams[ParentScatter(t)] - 1
           wrote == IF slot = "none" THEN gathered
                    ELSE Put(gathered, key, WriteSlot(cur, idx, slot))
           fails == slot # "none" /\ (cur.kind = "collection" \/ idx > Len(cur.slots))
<1>1. /\ openStreams' = [openStreams EXCEPT ![sc] = left]
      /\ \/ fails
         \/ ~fails /\ Barrier(left) /\ GatherResult(t, wrote)
         \/ /\ ~fails /\ gathered' = wrote
            /\ Finish(t)
            /\ UNCHANGED graphVars
      /\ UNCHANGED <<streams, taskStreams>>
  BY DEF CloseStream
<1>2. FedIn(t[1], t[2]) /\ MarkInv /\ t[1] \in Refs
  BY TaskFacts DEF WorkInv, MarkInv, Owned, OwnedAt
<1>3. /\ t[1] \in Gathers /\ sc = <<ClosedScope(t[1]), Front(t[2])>> /\ sc \in DOMAIN openStreams
      /\ sc \in Tasks /\ Last(t[2])[2] \in Nat /\ Last(t[2])[2] < taskStreams[sc]
      /\ sc = Opener(t[2])
  BY <1>2, GatherPlace
<1>4. openStreams[sc] \in Int /\ openStreams[sc] >= 1
  BY <1>3, CloseCount
<1>5. size \in Nat /\ idx \in 1..size
  <2>1. taskStreams[sc] \in Nat
    BY <1>3 DEF TypeOK
  <2>2. size = taskStreams[sc] /\ idx = Last(t[2])[2] + 1
    OBVIOUS
  <2> HIDE DEF size, idx, sc
  <2> QED BY <1>3, <2>1, <2>2
<1>6. /\ cur.slots \in Seq(Slots) /\ cur.kind = "inline" /\ Len(cur.slots) = size
      /\ \A i \in DOMAIN cur.slots : cur.slots[i] # "raw"
  <2>1. CASE key \in DOMAIN gathered
    <3>1. cur = gathered[key] /\ gathered[key].slots \in Seq(Slots)
      BY <2>1 DEF TypeOK
    <3>2. CleanAt(key) /\ key[1] = t[1] /\ key[2] = Front(t[2])
      BY <2>1 DEF WorkInv, Clean, ParentGather
    <3>3. size = taskStreams[sc] /\ openStreams[sc] > 0 /\ sc = <<ClosedScope(key[1]), key[2]>>
      BY <1>3, <1>4, <3>2
    <3> HIDE DEF cur, size, key, sc
    <3>4. /\ gathered[key].kind = "inline" /\ Len(gathered[key].slots) = size
          /\ \A i \in DOMAIN gathered[key].slots : gathered[key].slots[i] # "raw"
      BY <3>2, <3>3 DEF CleanAt
    <3> QED BY <3>1, <3>4
  <2>2. CASE key \notin DOMAIN gathered
    <3> DEFINE u == [i \in 1..size |-> "unset"]
    <3>1. cur = [kind |-> "inline", slots |-> u]
      BY <2>2
    <3>2. u \in Seq(Slots) /\ Len(u) = size /\ \A i \in DOMAIN u : u[i] # "raw"
      <4> HIDE DEF size
      <4> QED BY <1>5 DEF Slots
    <3> HIDE DEF u, cur, size
    <3> QED BY <3>1, <3>2
  <2> QED BY <2>1, <2>2
<1> HIDE DEF cur, idx, size, key
<1>7. ~fails
  BY <1>5, <1>6
<1>8. /\ DOMAIN wrote \subseteq DOMAIN gathered \cup {key}
      /\ \A u \in DOMAIN wrote : u # key => wrote[u] = gathered[u]
      /\ key \in DOMAIN wrote => /\ wrote[key].kind = "inline" /\ Len(wrote[key].slots) = size
                                 /\ \A i \in DOMAIN wrote[key].slots : wrote[key].slots[i] # "raw"
  <2>1. CASE slot = "none"
    BY <1>6, <2>1 DEF cur
  <2>2. CASE slot # "none"
    <3> DEFINE v == WriteSlot(cur, idx, slot)
    <3>1. slot \in Slots /\ slot # "raw"
      BY <2>2 DEF Slots
    <3>2. v.kind = "inline" /\ Len(v.slots) = size /\ \A i \in DOMAIN v.slots : v.slots[i] # "raw"
      BY <1>5, <1>6, <3>1, WrittenSlot
    <3> HIDE DEF v
    <3>3. wrote = Put(gathered, key, v)
      BY <2>2 DEF v
    <3> QED BY <3>2, <3>3 DEF Put
  <2> QED BY <2>1, <2>2
<1> HIDE DEF fails, wrote, left
<1>9. CASE Barrier(left) /\ GatherResult(t, wrote)
  <2> DEFINE got == IF key \in DOMAIN wrote THEN wrote[key] ELSE [kind |-> "inline", slots |-> << >>]
  <2>1. /\ gathered' = Put(wrote, key, got)
        /\ IF got.kind = "collection" \/ NSlots(got.slots, "raw") > 0 THEN TRUE
           ELSE Await(t, "gather_finalize") /\ UNCHANGED graphVars
    BY <1>9 DEF GatherResult, key
  <2>2. got.kind = "inline" /\ \A i \in DOMAIN got.slots : got.slots[i] # "raw"
    BY <1>8
  <2> HIDE DEF got
  <2>3. NSlots(got.slots, "raw") = 0
    <3>1. {i \in DOMAIN got.slots : got.slots[i] = "raw"} = {}
      BY <2>2
    <3> QED BY <3>1, FS_EmptySet DEF NSlots
  <2>4. Await(t, "gather_finalize") /\ UNCHANGED graphVars
    BY <2>1, <2>2, <2>3
  <2>5. DOMAIN gathered' = DOMAIN wrote \cup {key}
        /\ \A u \in DOMAIN gathered' : u # key => gathered'[u] = wrote[u]
    BY <2>1 DEF Put
  <2>6. Wrote(t)
    BY <1>8, <2>5 DEF Wrote, key
  <2>7. openStreams[sc] - 1 = 0
    BY <1>9 DEF Barrier, left
  <2> QED BY <1>1, <2>4, <2>6, <2>7 DEF Closes, left
<1>10. CASE gathered' = wrote /\ Finish(t) /\ UNCHANGED graphVars
  <2>1. Wrote(t)
    BY <1>8, <1>10 DEF Wrote, key
  <2>2. ParentGather(t) \in DOMAIN gathered' =>
           /\ gathered'[ParentGather(t)].kind = "inline"
           /\ Len(gathered'[ParentGather(t)].slots) = taskStreams[sc]
           /\ \A i \in DOMAIN gathered'[ParentGather(t)].slots :
                gathered'[ParentGather(t)].slots[i] # "raw"
    BY <1>8, <1>10 DEF key, size
  <2> QED BY <1>1, <1>10, <2>1, <2>2 DEF Closes, left
<1> QED BY <1>1, <1>7, <1>9, <1>10

\* A new ExecutionContext drops results, and changes none.
LEMMA OpenDrops ==
  ASSUME NEW N, OpenStreams(N)
  PROVE  /\ streams' = streams \cup N
         /\ DOMAIN gathered' \subseteq DOMAIN gathered
         /\ \A u \in DOMAIN gathered' : gathered'[u] = gathered[u]
  BY DEF OpenStreams, Without, Restrict

\* A scatter that is skipped, or empty.
LEMMA SkipStreamWork ==
  ASSUME Loopless, TypeOK, WorkInv, NEW t \in Tasks, Active(t), Kind[t[1]] = "scatter",
         ScatterSkipStream(t), NEW n \in Nat, n = 0, taskStreams' = [taskStreams EXCEPT ![t] = n],
         openStreams' = openStreams \/ (openStreams' = Put(openStreams, t, n) /\ ~SkipShouldPropagate(t))
  PROVE  WorkShape(t)
<1> DEFINE c == Child(t[2], t[1], Skip)
<1>1. t[1] \in Scatters /\ t[1] \in Refs
  BY TaskFacts DEF Scatters
<1>2. IsSkipStream(c)
  BY <1>1, ChildParts
<1>3. OpenStreams({c}) /\ QueueTasksIn(t[1], {c}, OutEdges(t[1]), {}) /\ Finish(t)
  BY DEF ScatterSkipStream, QueueTasks
<1>4. \A e \in OutEdges(t[1]) : c \in Streams => edges'[<<e, c>>] = "SKIPPED"
  BY <1>3 DEF QueueTasksIn, OutEdges
<1>5. \E i \in Nat \cup {Skip} : c = Child(t[2], t[1], i)
  OBVIOUS
<1> HIDE DEF c
<1>6. taskStreams'[t] = 0
  BY DEF TypeOK
<1>7. t \notin DOMAIN openStreams
  BY DEF WorkInv, MarkInv, Opened, OpenAt
<1>8. t \in DOMAIN openStreams' => ~SkipShouldPropagate(t)
  BY <1>7
<1>9. SplitEnd(t, {c})
  BY <1>2, <1>3, <1>4, <1>5, <1>6, <1>8, OpenDrops DEF SplitEnd
<1>10. \E S, skip, late : QueueTasksIn(t[1], S, skip, late) /\ SplitEnd(t, S)
  BY <1>3, <1>9
<1>11. \E m \in Nat : /\ taskStreams' = [taskStreams EXCEPT ![t] = m]
                      /\ openStreams' = openStreams \/ openStreams' = Put(openStreams, t, m)
  OBVIOUS
<1> QED BY <1>3, <1>10, <1>11, OpenDrops DEF WorkShape, Parts

\* A scatter over a collection.
LEMMA ScatterWork ==
  ASSUME Loopless, TypeOK, PcFits, WorkInv, NEW t \in Tasks, Scatter(t)
  PROVE  WorkShape(t)
<1>1. t[1] \in Scatters /\ Kind[t[1]] = "scatter" /\ Active(t) /\ ~SkipShouldPropagate(t)
  <2>1. pc[t] = "scatter"
    BY DEF Scatter
  <2>2. t[1] \in Scatters
    BY <2>1 DEF PcFits, Fits
  <2> QED BY <2>1, <2>2 DEF Scatters, Active, Running, WorkInv, Alive, PastCheck
<1>2. PICK n \in Sizes[t[1]] :
        /\ taskStreams' = [taskStreams EXCEPT ![t] = n]
        /\ openStreams' = Put(openStreams, t, n)
        /\ \/ n = 0 /\ ScatterSkipStream(t)
           \/ /\ n > 0
              /\ OpenStreams(NewStreams(t, n))
              /\ \E late : QueueTasksIn(t[1], NewStreams(t, n), {}, late)
              /\ Finish(t)
  BY DEF Scatter
<1>3. n \in Nat
  BY <1>1, SchedulerAssumption
<1>4. CASE n = 0 /\ ScatterSkipStream(t)
  BY <1>1, <1>2, <1>3, <1>4, SkipStreamWork
<1>5. CASE ~(n = 0 /\ ScatterSkipStream(t))
  <2> DEFINE S == NewStreams(t, n)
  <2>1. taskStreams'[t] = n /\ t \in DOMAIN openStreams'
    BY <1>2 DEF TypeOK, Put
  <2>2. ASSUME NEW c \in S
        PROVE  /\ \E i \in Nat \cup {Skip} : c = Child(t[2], t[1], i)
               /\ ~IsSkipStream(c) /\ Last(c)[2] < taskStreams'[t]
    <3>1. PICK i \in 0..(n-1) : c = Child(t[2], t[1], i)
      BY DEF NewStreams
    <3>2. i \in Nat /\ i < n /\ i # Skip
      BY <1>3 DEF Skip
    <3>3. (IsSkipStream(c) <=> i = Skip) /\ Last(c) = <<t[1], i>>
      BY <1>1, <3>1, <3>2, ChildParts
    <3> QED BY <2>1, <3>1, <3>2, <3>3
  <2>3. OpenStreams(S) /\ (\E late : QueueTasksIn(t[1], S, {}, late)) /\ Finish(t)
    BY <1>2, <1>5
  <2> HIDE DEF S
  <2>4. SplitEnd(t, S)
    BY <1>1, <2>1, <2>2, <2>3, OpenDrops DEF SplitEnd
  <2>5. \E N, skip, late : QueueTasksIn(t[1], N, skip, late) /\ SplitEnd(t, N)
    BY <2>3, <2>4
  <2> QED BY <1>2, <1>3, <2>3, <2>5, OpenDrops DEF WorkShape, Parts
<1> QED BY <1>4, <1>5

\* A gather that skips on in a skip stream.
LEMMA SkipStreamGather ==
  ASSUME Loopless, TypeOK, WorkInv, NEW t \in Tasks, Active(t), Kind[t[1]] = "gather",
         pc[t] \notin Collecting, IsSkipStream(t[2]), GatherInSkipStream(t)
  PROVE  WorkShape(t)
<1>1. t[2] # Root /\ ParentScatter(t) = Opener(t[2])
  BY DEF IsSkipStream, ParentScatter, Opener
<1>2. CASE ParentScatter(t) \in DOMAIN openStreams /\ Await(t, "gather_empty")
           /\ UNCHANGED <<graphVars, streamVars, gatherVars>>
  <2>1. Suits(t, "gather_empty")
    BY DEF Suits, GatherAwaits, LoopAwaits
  <2>2. MovesTo(t, "gather_empty")
    BY <1>1, <1>2, <2>1 DEF MovesTo, PastCheck, gatherVars
  <2> QED BY <2>2 DEF WorkShape, Moves, Awaits
<1>3. CASE /\ ParentScatter(t) \notin DOMAIN openStreams
           /\ QueueTasks(t[1], t[2], OutEdges(t[1])) /\ Finish(t)
           /\ UNCHANGED <<streamVars, gatherVars>>
  <2>1. \A e \in OutEdges(t[1]) : edges'[<<e, t[2]>>] = "SKIPPED"
    BY <1>3, TaskFacts DEF QueueTasks, QueueTasksIn, OutEdges
  <2>2. Aside(t[2])
    BY <1>1, <1>3 DEF Aside
  <2>3. OwnEnd(t)
    BY <1>3, <2>1, <2>2 DEF OwnEnd, streamVars
  <2> QED BY <1>3, <2>3 DEF WorkShape, Owns, gatherVars
<1> QED BY <1>2, <1>3 DEF GatherInSkipStream

\* A gather that is entered, skipping or not.
LEMMA GatherWork ==
  ASSUME Loopless, TypeOK, WorkInv, NEW t \in Tasks, Active(t), Kind[t[1]] = "gather",
         pc[t] \notin Collecting,
         GatherSkipped(t) \/ (GatherReached(t) /\ IsReachable(t) /\ ~SkipShouldPropagate(t))
  PROVE  WorkShape(t)
<1>1. t[2] # Root
  <2>1. FedIn(t[1], t[2]) /\ t[1] \in Gathers /\ t[1] \in Refs /\ t[2] \in Streams
    BY TaskFacts DEF WorkInv, MarkInv, Owned, OwnedAt, Gathers
  <2> QED BY <2>1, FedPlaces DEF WorkInv, MarkInv, Tree
<1>2. CASE IsSkipStream(t[2]) /\ GatherInSkipStream(t)
  BY <1>2, SkipStreamGather
<1>3. CASE ~IsSkipStream(t[2]) /\ CloseStream(t, SkippedSlot(t[2]))
  BY <1>3, CloseWork DEF SkippedSlot, WorkShape
<1>4. CASE /\ Await(t, "gather_item") /\ IsReachable(t) /\ ~SkipShouldPropagate(t)
           /\ UNCHANGED <<graphVars, streamVars, gatherVars>>
  <2>1. Suits(t, "gather_item")
    BY DEF Suits, GatherAwaits, LoopAwaits
  <2>2. MovesTo(t, "gather_item")
    BY <1>4, <2>1 DEF MovesTo, gatherVars
  <2> QED BY <2>2 DEF WorkShape, Moves, Awaits
<1> QED BY <1>1, <1>2, <1>3, <1>4 DEF GatherSkipped, GatherReached

\* A skipped task.
LEMMA SkipWork ==
  ASSUME Loopless, TypeOK, WorkInv, NEW t \in Tasks, Active(t), pc[t] \notin Collecting, SkipPath(t)
  PROVE  WorkShape(t)
<1>1. t[1] \in Refs /\ Kind[t[1]] \in {"action", "scatter", "gather"}
  BY TaskFacts, LooplessGraph
<1>2. CASE /\ Kind[t[1]] = "scatter" /\ ScatterSkipStream(t)
           /\ UNCHANGED <<taskStreams, openStreams>>
  <2>1. t \notin DOMAIN openStreams
    BY DEF WorkInv, MarkInv, Opened, OpenAt
  <2>2. taskStreams[t] = 0
    BY <2>1 DEF WorkInv, MarkInv, Opened
  <2>3. taskStreams' = [taskStreams EXCEPT ![t] = 0]
    BY <1>2, <2>2 DEF TypeOK
  <2> QED BY <1>2, <2>3, SkipStreamWork
<1>3. CASE Kind[t[1]] = "gather" /\ GatherSkipped(t)
  BY <1>3, GatherWork
<1>4. CASE /\ Kind[t[1]] = "action" /\ QueueTasks(t[1], t[2], OutEdges(t[1])) /\ Finish(t)
           /\ UNCHANGED <<streamVars, gatherVars>>
  <2>1. \A e \in OutEdges(t[1]) : edges'[<<e, t[2]>>] = "SKIPPED"
    BY <1>4, TaskFacts DEF QueueTasks, QueueTasksIn, OutEdges
  <2>2. OwnEnd(t)
    BY <1>4, <2>1 DEF OwnEnd, streamVars
  <2> QED BY <1>4, <2>2 DEF WorkShape, Owns, gatherVars
<1> QED BY <1>1, <1>2, <1>3, <1>4 DEF SkipPath

\* A task handed to its handler.
LEMMA DispatchWork ==
  ASSUME Loopless, TypeOK, WorkInv, NEW t \in Tasks, Active(t), pc[t] \notin Collecting,
         IsReachable(t), ~SkipShouldPropagate(t), Dispatch(t)
  PROVE  WorkShape(t)
<1>1. t[1] \in Refs /\ Kind[t[1]] \in {"action", "scatter", "gather"}
  BY TaskFacts, LooplessGraph
<1>2. CASE Kind[t[1]] = "gather" /\ GatherReached(t)
  BY <1>2, GatherWork
<1>3. ASSUME NEW label \in {"scatter", "execute"}, AwaitOnly(t, label),
             label = "execute" => Kind[t[1]] = "action"
      PROVE  WorkShape(t)
  <2>1. Suits(t, label) /\ label \in Awaits
    BY <1>3 DEF Suits, GatherAwaits, LoopAwaits, Awaits
  <2>2. MovesTo(t, label)
    BY <1>3, <2>1 DEF MovesTo, AwaitOnly, gatherVars
  <2> QED BY <2>1, <2>2 DEF WorkShape, Moves
<1> QED BY <1>1, <1>2, <1>3 DEF Dispatch

\* A task at the reachability check.
LEMMA CheckWork ==
  ASSUME Loopless, Contained, TypeOK, WorkInv, NEW t \in Tasks, Active(t),
         pc[t] \notin Collecting, ~SkipShouldPropagate(t), CheckReachable(t)
  PROVE  WorkShape(t)
<1>1. AllIn(t[1], t[2])
  BY DEF WorkInv, MarkInv, Owned, OwnedAt, FedIn
<1>2. CASE ~IsReachable(t) /\ Fail(t)
  BY <1>1, <1>2, Unreachable, FailWork DEF Fail, gatherVars
<1>3. CASE IsReachable(t) /\ AwaitOnly(t, "delay")
  <2>1. Suits(t, "delay")
    BY DEF Suits, GatherAwaits, LoopAwaits
  <2>2. MovesTo(t, "delay")
    BY <1>3, <2>1 DEF MovesTo, AwaitOnly, gatherVars
  <2> QED BY <2>2 DEF WorkShape, Moves, Awaits
<1> QED BY <1>2, <1>3, DispatchWork DEF CheckReachable

\* Every step of a coroutine has one of the shapes while the workflow is at work.
LEMMA ResumeWork ==
  ASSUME Loopless, Contained, TypeOK, PcFits, StaysReachable, WorkInv, NEW t \in Tasks, Resume(t)
  PROVE  WorkShape(t)
<1>1. Suits(t, pc[t]) /\ Fits(t, pc[t]) /\ FinalAt(t)
  BY DEF WorkInv, PcSuits, PcFits, Finals
<1>2. pc[t] \notin LoopAwaits
  BY <1>1 DEF Suits
<1>3. CASE Schedule(t)
  <2>1. Active(t) /\ pc[t] \notin Collecting
    BY <1>3 DEF Schedule, Active, Running, Collecting
  <2>2. CASE SkipShouldPropagate(t) /\ SkipPath(t)
    BY <2>1, <2>2, SkipWork
  <2>3. CASE ~SkipShouldPropagate(t) /\ AwaitOnly(t, "run_if")
    <3>1. Suits(t, "run_if")
      BY DEF Suits, GatherAwaits, LoopAwaits
    <3>2. MovesTo(t, "run_if")
      BY <2>1, <2>3, <3>1 DEF MovesTo, AwaitOnly, gatherVars, PastCheck
    <3> QED BY <3>2 DEF WorkShape, Moves, Awaits
  <2>4. CASE ~SkipShouldPropagate(t) /\ CheckReachable(t)
    BY <2>1, <2>4, CheckWork
  <2> QED BY <1>3, <2>2, <2>3, <2>4 DEF Schedule
<1>4. CASE RunIfHolds(t) \/ RunIfSkips(t) \/ RunIfFails(t)
  <2>1. pc[t] = "run_if"
    BY <1>4 DEF RunIfHolds, RunIfSkips, RunIfFails
  <2>2. Active(t) /\ pc[t] \notin Collecting /\ ~SkipShouldPropagate(t)
    BY <2>1 DEF Active, Running, Collecting, WorkInv, Alive
  <2>3. CASE CheckReachable(t)
    BY <2>2, <2>3, CheckWork
  <2>4. CASE SkipPath(t)
    BY <2>2, <2>4, SkipWork
  <2>5. CASE t[1] \in CanFail /\ Fail(t)
    BY <2>2, <2>5, FailWork DEF Fail, gatherVars, MayFail
  <2> QED BY <1>4, <2>3, <2>4, <2>5 DEF RunIfHolds, RunIfSkips, RunIfFails
<1>5. CASE Delay(t)
  <2>1. pc[t] = "delay" /\ Dispatch(t)
    BY <1>5 DEF Delay
  <2>2. Active(t) /\ pc[t] \notin Collecting /\ ~SkipShouldPropagate(t) /\ IsReachable(t)
    BY <2>1 DEF Active, Running, Collecting, WorkInv, Alive, StaysReachable, PastCheck
  <2> QED BY <2>1, <2>2, DispatchWork
<1>6. CASE Execute(t) \/ ExecuteFails(t) \/ ExecuteFailsPlatform(t)
  <2>1. pc[t] = "execute"
    BY <1>2, <1>6 DEF Execute, ExecuteFails, ExecuteFailsPlatform, LoopAwaits
  <2>2. Active(t) /\ ~SkipShouldPropagate(t) /\ Kind[t[1]] = "action"
    BY <1>1, <2>1 DEF Active, Running, WorkInv, Alive, Suits, PastCheck
  <2>3. CASE Execute(t)
    <3>1. /\ QueueTasks(t[1], t[2], OutEdges(t[1]) \ SuccessEdges(t[1])) /\ Finish(t)
          /\ UNCHANGED <<streamVars, gatherVars>>
      BY <2>3 DEF Execute, SuccessPath
    <3>2. t[1] \in Refs /\ t[2] \in Streams /\ FedIn(t[1], t[2]) /\ Placed /\ Root \in streams
      BY <2>2, TaskFacts DEF WorkInv, MarkInv, Owned, OwnedAt, Tree
    <3>3. Skipping(t[2]) \/ Len(t[2]) > Outer(t[1]) =>
            InEdges(t[1]) # {} /\ \A e \in InEdges(t[1]) : edges[<<e, t[2]>>] = "SKIPPED"
      BY <3>2, FedPlaces
    <3>4. ~(Skipping(t[2]) \/ Len(t[2]) > Depth(t[1]))
      BY <2>2, <3>3 DEF SkipShouldPropagate, Outer
    <3>5. OwnEnd(t)
      BY <2>2, <3>1, <3>4 DEF OwnEnd, streamVars
    <3> QED BY <3>1, <3>5 DEF WorkShape, Owns, gatherVars
  <2>4. CASE ~Execute(t)
    <3>1. PICK platform : ErrorPath(t, platform, {}) /\ UNCHANGED <<streamVars, gatherVars>>
      BY <1>6, <2>4 DEF ExecuteFails, ExecuteFailsPlatform, Fail
    <3> QED BY <2>2, <3>1, FailWork DEF gatherVars
  <2> QED BY <2>3, <2>4
<1>7. CASE Scatter(t)
  BY <1>7, ScatterWork
<1>8. CASE ScatterFails(t)
  <2>1. pc[t] = "scatter" /\ t[1] \in CanFail /\ Fail(t)
    BY <1>8 DEF ScatterFails
  <2>2. Active(t) /\ ~SkipShouldPropagate(t)
    BY <2>1 DEF Active, Running, WorkInv, Alive, PastCheck
  <2> QED BY <2>1, <2>2, FailWork DEF Fail, gatherVars, MayFail
<1>9. CASE GatherItem(t) \/ GatherItemFails(t)
  <2>1. pc[t] = "gather_item"
    BY <1>9 DEF GatherItem, GatherItemFails
  <2>2. /\ Active(t) /\ ~IsSkipStream(t[2]) /\ Kind[t[1]] = "gather" /\ pc[t] \notin Collecting
    BY <1>1, <2>1 DEF Active, Running, Suits, Fits, GatherAwaits, Collecting
  <2>3. CASE CloseStream(t, "item")
    BY <2>2, <2>3, CloseWork DEF WorkShape
  <2>4. CASE t[1] \in CanFail /\ Fail(t)
    BY <2>2, <2>4, FailWork DEF Fail, gatherVars, MayFail
  <2> QED BY <1>9, <2>3, <2>4 DEF GatherItem, GatherItemFails
<1>10. CASE GatherFinalize(t) \/ GatherFinalizeFails(t)
  <2>1. pc[t] \in {"gather_finalize", "gather_exec", "gather_empty"}
    BY <1>10 DEF GatherFinalize, GatherFinalizeFails
  <2>2. Active(t) /\ Kind[t[1]] = "gather"
    BY <1>1, <2>1 DEF Active, Running, Suits, GatherAwaits
  <2>3. ~IsSkipStream(t[2]) \/ Opener(t[2]) \in DOMAIN openStreams
    BY <1>1, <2>1 DEF FinalAt, Collecting
  <2>4. CASE GatherFinalizeFails(t)
    BY <2>2, <2>3, <2>4, FailWork DEF GatherFinalizeFails, Fail, gatherVars, MayFail
  <2>5. CASE /\ t[1] \in RaiseErrors /\ ErrorPath(t, FALSE, {t[1]})
             /\ UNCHANGED <<gathered, streamVars>>
    BY <2>2, <2>3, <2>5, FailWork DEF MayFail
  <2>6. CASE /\ pc[t] = "gather_finalize" /\ Await(t, "gather_exec") /\ UNCHANGED <<graphVars, streamVars>>
             /\ \E v : gathered' = Put(gathered, ParentGather(t), v)
    <3>1. Suits(t, "gather_exec")
      BY <2>2 DEF Suits, LoopAwaits
    <3>2. Wrote(t)
      BY <2>6 DEF Wrote, Put
    <3>3. MovesTo(t, "gather_exec")
      BY <2>6, <3>1, <3>2 DEF MovesTo, PastCheck
    <3> QED BY <3>3 DEF WorkShape, Moves, Awaits
  <2> QED BY <1>10, <2>4, <2>5, <2>6 DEF GatherFinalize
<1>11. CASE GatherExec(t) \/ GatherEmpty(t)
  <2>1. /\ pc[t] \in {"gather_exec", "gather_empty"} /\ Finish(t) /\ UNCHANGED streamVars
        /\ QueueTasks(t[1], Front(t[2]), {})
    BY <1>11 DEF GatherExec, GatherEmpty
  <2>2. gathered' = gathered \/ \E v : gathered' = Put(gathered, ParentGather(t), v)
    BY <1>11 DEF GatherExec, GatherEmpty, gatherVars
  <2>3. Wrote(t)
    BY <2>2 DEF Wrote, Put
  <2> QED BY <2>1, <2>3 DEF WorkShape, Lifts
<1>12. ~(LoopCondition(t) \/ LoopContinue(t) \/ LoopStop(t) \/ LoopFails(t))
  BY <1>2 DEF LoopCondition, LoopContinue, LoopStop, LoopFails, LoopAwaits
<1> QED BY <1>3, <1>4, <1>5, <1>6, <1>7, <1>8, <1>9, <1>10, <1>11, <1>12 DEF Resume

-----------------------------------------------------------------------------
(* What the invariant says of every state.                                 *)

\* An action's edges are marked only where all the edges into it are.
ActOrder ==
  \A e \in Edges : \A s \in Streams : MarkedIn(e, s) /\ Kind[e.src] = "action" => AllIn(e.src, s)

\* A running task has marked none of its edges in its stream.
RunOwn == \A t \in Tasks : Running(t) => \A e \in OutEdges(t[1]) : ~MarkedIn(e, t[2])

\* A task that waits or runs does so once.
LEMMA WorkSingle ==
  ASSUME WorkInv
  PROVE  SingleDispatch /\ ActOrder /\ RunOwn
<1>1. SingleDispatch
  BY DEF WorkInv, MarkInv, Owned, OwnedAt, SingleDispatch, FedIn, AllIn, MarkedIn
<1>2. ActOrder
  BY DEF WorkInv, MarkInv, Sourced, SourcedAt, ActOrder, FedIn
<1>3. RunOwn
  BY DEF WorkInv, MarkInv, Owned, OwnedAt, RunOwn, Active
<1> QED BY <1>1, <1>2, <1>3

\* The barrier of a gather that puts its result together.
LEMMA WorkBarrier ==
  ASSUME Loopless, TypeOK, WorkInv
  PROVE  GatherBarrier
<1> SUFFICES ASSUME NEW t \in Tasks, pc[t] \in Collecting, NEW u \in Tasks, u # t,
                    NEW s \in StreamsOf(ParentScatter(t)), IsPrefix(s, u[2]),
                    u[1] \in Upstream[t[1]] \cup {t[1]}, Active(u)
             PROVE  FALSE
  BY DEF GatherBarrier, Collecting
<1>1. Active(t) /\ AllAt(t) /\ MarkInv /\ Kind[t[1]] = "gather" /\ ~IsSkipStream(t[2])
  BY CollectAllAt DEF Active, Running, Collecting, WorkInv, PcSuits, Suits, GatherAwaits,
                      Finals, FinalAt
<1>2. FedIn(t[1], t[2]) /\ FedIn(u[1], u[2]) /\ u[2] \in streams
  BY <1>1, ActiveStreams
<1>3. /\ t[1] \in Refs /\ t[2] \in Streams /\ u[1] \in Refs /\ u[2] \in Streams
      /\ u = <<u[1], u[2]>>
  BY TaskFacts
<1>4. ParentScatter(t) = Opener(t[2]) /\ t[2] # Root
  BY <1>1, <1>2, GatherPlace
<1> DEFINE o == Opener(t[2])
<1>5. o \in Tasks /\ o[1] \in Scatters /\ o[2] \in Streams
  BY <1>3, <1>4, StreamFacts, TaskFacts
<1> HIDE DEF o
<1>6. PICK i \in 0..(taskStreams[o] - 1) : s = Child(o[2], o[1], i)
  BY <1>4 DEF StreamsOf, o
<1>7. taskStreams[o] \in Nat /\ i \in Nat
  BY <1>5, <1>6 DEF TypeOK
<1>8. <<o[1], i>> \in Element /\ o[2] \in Seq(Element)
  BY <1>5, <1>7, StreamFacts DEF Element
<1>9. s \in Seq(Element) /\ s # Root /\ Last(s) = <<o[1], i>> /\ Front(s) = o[2]
  <2>1. s = Append(o[2], <<o[1], i>>)
    BY <1>6 DEF Child
  <2> QED BY <1>8, <2>1, AppendParts DEF Root
<1>10. s \in Streams /\ s \in streams
  BY <1>1, <1>2, <1>3, <1>9, StreamsClosed DEF MarkInv, Tree
<1>11. Opener(s) = o
  BY <1>5, <1>9, TaskFacts DEF Opener
<1>12. u[1] \in Above(t[1])
  BY DEF Above
<1>13. <<u[1], u[2]>> = t
  BY <1>1, <1>3, <1>4, <1>9, <1>10, <1>11, <1>12, AllAtQuiet DEF o
<1> QED BY <1>3, <1>13

-----------------------------------------------------------------------------
(* What a step leaves alone.                                               *)

\* Markers stay, and what is fed and quiet stays quiet.
Keeps(t) ==
  /\ MarkInv' /\ IndegreeAccounting'
  /\ \A e \in Edges : \A s \in Streams : MarkedIn(e, s) => edges'[<<e, s>>] = edges[<<e, s>>]
  /\ \A u \in Tasks : AllIn(u[1], u[2]) /\ ~Active(u) => ~Active(u)'
  /\ pc'[t] = "done" => ~Active(t)'

\* The coroutine's await, or its end.
Ends(t, label) == /\ pc' = [pc EXCEPT ![t] = label]
                  /\ completed' = completed \cup (IF label = "done" THEN {t} ELSE {})

\* Marking in streams where nothing of the task is marked.
LEMMA FeedSpread ==
  ASSUME TypeOK, IndegreeAccounting, SingleDispatch, NEW t \in Tasks, Running(t), Finish(t),
         NEW S, NEW skip, NEW late, QueueTasksIn(t[1], S, skip, late),
         \A e \in OutEdges(t[1]) : \A s \in Streams : s \in S => ~MarkedIn(e, s),
         streams \subseteq streams', \A c \in streams' \ streams : c # Root /\ Opener(c) = t,
         DOMAIN openStreams \subseteq DOMAIN openStreams',
         DOMAIN openStreams' \subseteq DOMAIN openStreams \cup {t},
         \A u \in Tasks : u # t => taskStreams'[u] = taskStreams[u]
  PROVE  /\ IndegreeAccounting' /\ Spread(t, S)
         /\ \A e \in Edges : \A s \in Streams : MarkedIn(e, s) => edges'[<<e, s>>] = edges[<<e, s>>]
<1>1. /\ IndegreeAccounting'
      /\ \A u \in Tasks : Active(u)' <=> (Active(u) /\ u # t) \/ NewlyFed(u)
      /\ \A u \in Tasks : Active(u)' => queued'[u] = (IF Running(u)' THEN 0 ELSE 1)
  BY FeedStep
<1>2. \A e \in Edges : \A s \in Streams :
        MarkedIn(e, s)' <=> MarkedIn(e, s) \/ (e.src = t[1] /\ s \in S)
  BY FeedMarks
<1>3. ASSUME NEW e \in Edges, NEW s \in Streams, ~(e.src = t[1] /\ s \in S)
      PROVE  edges'[<<e, s>>] = edges[<<e, s>>]
  BY <1>3 DEF QueueTasksIn, OutEdges
<1>4. \A e \in Edges : e.src = t[1] => e \in OutEdges(t[1])
  BY DEF OutEdges
<1>5. \A e \in Edges : \A s \in Streams : edges'[<<e, s>>] # edges[<<e, s>>] => e.src = t[1] /\ s \in S
  BY <1>3
<1>6. \A e \in Edges : \A s \in Streams : MarkedIn(e, s) => edges'[<<e, s>>] = edges[<<e, s>>]
  BY <1>3, <1>4
<1>7. Spread(t, S)
  BY <1>1, <1>2, <1>5 DEF Spread
<1> QED BY <1>1, <1>6, <1>7

\* A step that spreads markers soundly.
LEMMA SpreadKeeps ==
  ASSUME Loopless, TypeOK, MarkInv, NEW t \in Tasks, Active(t), NEW S, Spread(t, S), Sound(t, S),
         Grown(t), IndegreeAccounting',
         \A e \in Edges : \A s \in Streams : MarkedIn(e, s) => edges'[<<e, s>>] = edges[<<e, s>>]
  PROVE  Keeps(t)
<1>1. MarkInv'
  BY SpreadInv
<1>2. \A u \in Tasks : AllIn(u[1], u[2]) /\ ~Active(u) => ~Active(u)'
  BY SpreadQuiet
<1>3. ~Active(t)'
  BY SpreadQuiet DEF MarkInv, Owned, OwnedAt, FedIn
<1> QED BY <1>1, <1>2, <1>3 DEF Keeps

\* A step that marks nothing.
LEMMA StillKeeps ==
  ASSUME TypeOK, WorkInv, IndegreeAccounting, NEW t \in Tasks, Running(t), UNCHANGED graphVars,
         UNCHANGED <<streams, taskStreams>>, DOMAIN openStreams' = DOMAIN openStreams,
         NEW label \in Awaits \cup {"done"}, pc' = [pc EXCEPT ![t] = label]
  PROVE  Keeps(t)
<1>1. UNCHANGED <<queued, edges, indegrees>> /\ pc'[t] = label
  BY DEF graphVars, TypeOK
<1>2. \A u \in Tasks : Running(u)' <=> Running(u) /\ (u = t => label # "done")
  BY DEF Running, Awaits, TypeOK
<1>3. queued[t] = 0 /\ \A u \in Tasks : Active(u) => queued[u] = (IF Running(u) THEN 0 ELSE 1)
  BY DEF WorkInv, MarkInv, Owned, OwnedAt, Active
<1>4. \A u \in Tasks : Active(u)' => Active(u) /\ queued'[u] = (IF Running(u)' THEN 0 ELSE 1)
  BY <1>1, <1>2, <1>3 DEF Active
<1>5. MarkInv'
  BY <1>1, <1>4, StillInv DEF WorkInv
<1>6. IndegreeAccounting'
  BY <1>1 DEF IndegreeAccounting
<1>7. pc'[t] = "done" => ~Active(t)'
  BY <1>1, <1>2, <1>3 DEF Active
<1> QED BY <1>1, <1>4, <1>5, <1>6, <1>7 DEF Keeps

-----------------------------------------------------------------------------
(* A coroutine's step keeps the invariant while the workflow is at work.   *)

\* Tasks stay past their checks, and what completed stays so.
LEMMA KeepsWork ==
  ASSUME TypeOK, StaysReachable, WorkInv, NEW t \in Tasks, Running(t), Keeps(t),
         NEW label \in Awaits \cup {"done"}, Ends(t, label), Suits(t, label),
         label \in PastCheck \cup {"run_if"} => ~SkipShouldPropagate(t),
         label \in PastCheck => IsReachable(t)
  PROVE  MarkInv' /\ PcSuits' /\ Alive' /\ Completed' /\ StaysReachable' /\ IndegreeAccounting'
<1>1. pc'[t] = label /\ \A u \in Tasks : u # t => pc'[u] = pc[u]
  BY DEF Ends, TypeOK
<1>2. PcSuits'
  <2>1. ASSUME NEW u \in Tasks PROVE Suits(u, pc'[u])
    BY <1>1 DEF WorkInv, PcSuits
  <2>2. \A u \in Tasks : Suits(u, pc[u])'
    BY <2>1 DEF Suits
  <2> QED BY <2>2 DEF PcSuits
<1>3. ASSUME NEW u \in Tasks, Active(u)
      PROVE  /\ \A e \in InEdges(u[1]) : edges'[<<e, u[2]>>] = edges[<<e, u[2]>>]
             /\ FedIn(u[1], u[2]) /\ FedIn(u[1], u[2])'
  <2>1. FedIn(u[1], u[2]) /\ u[2] \in Streams
    BY <1>3, TaskFacts DEF WorkInv, MarkInv, Owned, OwnedAt
  <2>2. \A e \in InEdges(u[1]) : e \in Edges /\ MarkedIn(e, u[2])
    BY <2>1 DEF FedIn, AllIn, InEdges
  <2>3. \A e \in InEdges(u[1]) : edges'[<<e, u[2]>>] = edges[<<e, u[2]>>]
    BY <2>1, <2>2 DEF Keeps
  <2> QED BY <2>1, <2>2, <2>3 DEF FedIn, AllIn, MarkedIn
<1>4. ASSUME NEW u \in Tasks, pc'[u] \in PastCheck \cup {"run_if"}
      PROVE  Active(u) /\ ~SkipShouldPropagate(u) /\ (pc'[u] \in PastCheck => IsReachable(u))
  <2>1. CASE u = t
    BY <1>1, <1>4, <2>1 DEF Active
  <2>2. CASE u # t
    BY <1>1, <1>4, <2>2 DEF WorkInv, Alive, StaysReachable, PastCheck, Active, Running
  <2> QED BY <2>1, <2>2
<1>5. Alive'
  <2>1. ASSUME NEW u \in Tasks, pc'[u] \in PastCheck \cup {"run_if"}
        PROVE  ~SkipShouldPropagate(u)'
    BY <1>3, <1>4, <2>1 DEF SkipShouldPropagate
  <2> QED BY <2>1 DEF Alive
<1>6. StaysReachable'
  <2>1. ASSUME NEW u \in Tasks, pc'[u] \in PastCheck PROVE IsReachable(u)'
    <3>1. IsReachable(u) /\ \A e \in InEdges(u[1]) : edges'[<<e, u[2]>>] = edges[<<e, u[2]>>]
      BY <1>3, <1>4, <2>1
    <3> QED BY <3>1, ReachableKept
  <2> QED BY <2>1 DEF StaysReachable, PastCheck
<1>7. Completed'
  <2>1. ASSUME NEW u \in completed' PROVE FedIn(u[1], u[2])' /\ ~Active(u)'
    <3>1. CASE u \in completed
      <4>1. u \in Tasks /\ u[2] \in Streams /\ FedIn(u[1], u[2]) /\ ~Active(u)
        BY <3>1, TaskFacts DEF TypeOK, WorkInv, Completed
      <4>2. ~Active(u)'
        BY <4>1 DEF Keeps, FedIn
      <4>3. \A e \in InEdges(u[1]) : e \in Edges /\ MarkedIn(e, u[2])
        BY <4>1 DEF FedIn, AllIn, InEdges
      <4>4. \A e \in InEdges(u[1]) : MarkedIn(e, u[2])'
        BY <4>1, <4>3 DEF Keeps, MarkedIn
      <4> QED BY <4>1, <4>2, <4>4 DEF FedIn, AllIn
    <3>2. CASE u \notin completed
      <4>1. u = t /\ label = "done"
        BY <2>1, <3>2 DEF Ends
      <4>2. Active(t)
        BY DEF Active
      <4> QED BY <1>1, <1>3, <4>1, <4>2 DEF Keeps
    <3> QED BY <3>1, <3>2
  <2> QED BY <2>1 DEF Completed
<1> QED BY <1>2, <1>5, <1>6, <1>7 DEF Keeps

\* Who closed their streams stays past.
LEMMA PastGrows ==
  ASSUME TypeOK, NEW t \in Tasks, NEW label, Ends(t, label),
         pc[t] \in Collecting => label \in Collecting \cup {"done"}
  PROVE  Past \subseteq Past'
<1>1. pc'[t] = label /\ \A u \in Tasks : u # t => pc'[u] = pc[u]
  BY DEF Ends, TypeOK
<1>2. completed \subseteq completed' /\ (label = "done" => t \in completed')
  BY DEF Ends
<1> QED BY <1>1, <1>2 DEF Past

\* The streams of a scatter still to close are not counted up.
LEMMA CountKept ==
  ASSUME TypeOK, Counted, Past \subseteq Past', NEW g \in Gathers, NEW s \in Streams,
         <<ClosedScope(g), s>> \in DOMAIN openStreams,
         taskStreams'[<<ClosedScope(g), s>>] = taskStreams[<<ClosedScope(g), s>>]
  PROVE  /\ NotPast(g, s)' \subseteq NotPast(g, s)
         /\ IsFiniteSet(NotPast(g, s)) /\ IsFiniteSet(NotPast(g, s)')
         /\ Cardinality(NotPast(g, s)) \in Nat /\ Cardinality(NotPast(g, s)') \in Nat
         /\ Cardinality(NotPast(g, s)') <= Cardinality(NotPast(g, s))
         /\ openStreams[<<ClosedScope(g), s>>] \in Int
         /\ Cardinality(NotPast(g, s)) <= openStreams[<<ClosedScope(g), s>>]
         /\ Cardinality(NotPast(g, s)') <= openStreams[<<ClosedScope(g), s>>]
<1>1. <<ClosedScope(g), s>> \in Tasks /\ openStreams[<<ClosedScope(g), s>>] \in Int
  BY DEF TypeOK
<1>2. NotPast(g, s)' \subseteq NotPast(g, s)
  BY DEF NotPast
<1>3. IsFiniteSet(NotPast(g, s)) /\ Cardinality(NotPast(g, s)) \in Nat
  BY <1>1, NotPastFacts
<1>4. IsFiniteSet(NotPast(g, s)') /\ Cardinality(NotPast(g, s)') <= Cardinality(NotPast(g, s))
  BY <1>2, <1>3, FS_Subset
<1>5. Cardinality(NotPast(g, s)') \in Nat
  BY <1>4, FS_CardinalityType
<1>6. Cardinality(NotPast(g, s)) <= openStreams[<<ClosedScope(g), s>>]
  BY DEF Counted
<1> QED BY <1>1, <1>2, <1>3, <1>4, <1>5, <1>6

\* A step that neither opens nor closes streams.
LEMMA StillCounted ==
  ASSUME TypeOK, Counted, Past \subseteq Past', UNCHANGED <<openStreams, taskStreams>>
  PROVE  Counted'
<1>1. ASSUME NEW g \in Gathers, NEW s \in Streams, <<ClosedScope(g), s>> \in DOMAIN openStreams
      PROVE  Cardinality(NotPast(g, s)') <= openStreams[<<ClosedScope(g), s>>]
  BY <1>1, CountKept
<1>2. \A g \in Gathers : \A s \in Streams : <<ClosedScope(g), s>> \in DOMAIN openStreams' =>
        Cardinality(NotPast(g, s)') <= openStreams'[<<ClosedScope(g), s>>]
  BY <1>1
<1> QED BY <1>2 DEF Counted

\* A step after which no other gather puts a result together.
LEMMA StillFinal ==
  ASSUME Loopless, TypeOK, WorkInv, NEW t \in Tasks, NEW label, Ends(t, label),
         label \in Collecting => pc[t] \in Collecting,
         label = "gather_empty" => IsSkipStream(t[2]) /\ Opener(t[2]) \in DOMAIN openStreams,
         DOMAIN openStreams \subseteq DOMAIN openStreams',
         \A x \in DOMAIN openStreams : openStreams'[x] = openStreams[x]
  PROVE  Finals'
<1>1. pc'[t] = label /\ \A u \in Tasks : u # t => pc'[u] = pc[u]
  BY DEF Ends, TypeOK
<1>2. \A u \in Tasks : pc'[u] \in Collecting => pc[u] \in Collecting
  BY <1>1
<1>3. ASSUME NEW u \in Tasks PROVE FinalAt(u)'
  <2>1. FinalAt(u)
    BY DEF WorkInv, Finals
  <2>2. pc'[u] = "gather_empty" => IsSkipStream(u[2]) /\ Opener(u[2]) \in DOMAIN openStreams'
    BY <1>1, <2>1 DEF FinalAt
  <2>3. pc'[u] \in Collecting => ~IsSkipStream(u[2]) /\ openStreams'[Opener(u[2])] <= 0
    <3>1. ASSUME pc[u] \in Collecting PROVE Opener(u[2]) \in DOMAIN openStreams
      BY <3>1, CollectAllAt DEF AllAt
    <3> QED BY <1>2, <2>1, <3>1 DEF FinalAt
  <2>4. \A v \in Tasks : /\ pc'[u] \in Collecting /\ pc'[v] \in Collecting
                         /\ v[1] = u[1] /\ Opener(v[2]) = Opener(u[2])
                         => v = u
    BY <1>2, <2>1 DEF FinalAt
  <2> QED BY <2>2, <2>3, <2>4 DEF FinalAt
<1> QED BY <1>3 DEF Finals

\* What a step that is shown to keep the rest leaves to show.
WorkNext == WorkInv' /\ StaysReachable' /\ IndegreeAccounting'

\* Writing a result whose streams are all closed.
LEMMA WroteClean ==
  ASSUME Clean, NEW t \in Tasks, AllAt(t), Wrote(t), UNCHANGED <<openStreams, taskStreams>>,
         TypeOK, openStreams[Opener(t[2])] <= 0
  PROVE  Clean'
<1>1. ASSUME NEW u \in DOMAIN gathered' PROVE CleanAt(u)'
  <2>1. CASE u = ParentGather(t)
    <3>1. u[1] = t[1] /\ u[2] = Front(t[2])
      BY <2>1 DEF ParentGather
    <3>2. t[1] \in Gathers /\ <<ClosedScope(u[1]), u[2]>> = Opener(t[2])
          /\ Opener(t[2]) \in DOMAIN openStreams
      BY <3>1 DEF AllAt
    <3>3. openStreams[Opener(t[2])] \in Int
      BY <3>2 DEF TypeOK
    <3>4. ~(openStreams[Opener(t[2])] > 0)
      BY <3>3
    <3> QED BY <3>1, <3>2, <3>4 DEF CleanAt
  <2>2. CASE u # ParentGather(t)
    <3>1. u \in DOMAIN gathered /\ gathered'[u] = gathered[u]
      BY <1>1, <2>2 DEF Wrote
    <3>2. CleanAt(u)
      BY <3>1 DEF Clean
    <3> QED BY <3>1, <3>2 DEF CleanAt
  <2> QED BY <2>1, <2>2
<1> QED BY <1>1 DEF Clean

\* Going on to the next await.
LEMMA MovesInv ==
  ASSUME Loopless, TypeOK, IndegreeAccounting, StaysReachable, WorkInv,
         NEW t \in Tasks, Running(t), Moves(t)
  PROVE  WorkNext
<1>1. PICK label \in Awaits : MovesTo(t, label)
  BY DEF Moves
<1>2. Ends(t, label) /\ label # "done"
  BY <1>1 DEF MovesTo, Await, Ends, Awaits
<1>3. UNCHANGED <<streams, taskStreams, openStreams>> /\ UNCHANGED graphVars
  BY <1>1 DEF MovesTo, streamVars
<1>4. Keeps(t)
  BY <1>2, <1>3, StillKeeps DEF Ends
<1>5. MarkInv' /\ PcSuits' /\ Alive' /\ Completed' /\ StaysReachable' /\ IndegreeAccounting'
  BY <1>1, <1>2, <1>4, KeepsWork DEF MovesTo
<1>6. /\ pc[t] \in Collecting => label \in Collecting
      /\ label \in Collecting => pc[t] \in Collecting
  BY <1>1 DEF MovesTo, Collecting
<1>7. Counted'
  BY <1>2, <1>3, <1>6, PastGrows, StillCounted DEF WorkInv
<1>8. Finals'
  <2>1. label = "gather_empty" => IsSkipStream(t[2]) /\ Opener(t[2]) \in DOMAIN openStreams
    BY <1>1 DEF MovesTo
  <2> QED BY <1>2, <1>3, <1>6, <2>1, StillFinal
<1>9. Clean'
  <2>1. CASE label = "gather_exec"
    <3>1. pc[t] \in Collecting /\ Wrote(t)
      BY <1>1, <2>1 DEF MovesTo, Collecting
    <3>2. openStreams[Opener(t[2])] <= 0 /\ AllAt(t)
      BY <3>1, CollectAllAt DEF WorkInv, Finals, FinalAt
    <3> QED BY <1>3, <3>1, <3>2, WroteClean DEF WorkInv
  <2>2. CASE label # "gather_exec"
    BY <1>1, <1>3, <2>2 DEF MovesTo, WorkInv, Clean, CleanAt
  <2> QED BY <2>1, <2>2
<1> QED BY <1>5, <1>7, <1>8, <1>9 DEF WorkNext, WorkInv

\* The end of a coroutine suits every task, and nothing is closed or opened by it.
LEMMA FinishEnds ==
  ASSUME TypeOK, NEW t \in Tasks, Finish(t)
  PROVE  /\ Ends(t, "done") /\ Suits(t, "done") /\ Past \subseteq Past'
         /\ "done" \notin PastCheck \cup {"run_if", "gather_empty"} \cup Collecting
<1>1. Ends(t, "done")
  BY DEF Ends, Finish
<1>2. Suits(t, "done")
  BY DEF Suits, GatherAwaits, LoopAwaits
<1> QED BY <1>1, <1>2, PastGrows DEF PastCheck, Collecting

\* Ending a coroutine keeps what is not about open streams.
LEMMA FinishKeeps ==
  ASSUME TypeOK, StaysReachable, WorkInv, NEW t \in Tasks, Running(t), Keeps(t), Finish(t)
  PROVE  MarkInv' /\ PcSuits' /\ Alive' /\ Completed' /\ StaysReachable' /\ IndegreeAccounting'
<1>1. /\ Ends(t, "done") /\ Suits(t, "done")
      /\ "done" \notin PastCheck \cup {"run_if", "gather_empty"} \cup Collecting
  BY FinishEnds
<1> DEFINE label == "done"
<1>2. label \in Awaits \cup {"done"} /\ label \notin PastCheck \cup {"run_if"}
  BY <1>1
<1> QED BY <1>1, <1>2, KeepsWork

\* Ending without a change to streams and results.
LEMMA FinishStill ==
  ASSUME Loopless, TypeOK, StaysReachable, WorkInv, NEW t \in Tasks, Running(t), Keeps(t),
         Finish(t), UNCHANGED <<taskStreams, openStreams>>, Clean'
  PROVE  WorkNext
<1>1. MarkInv' /\ PcSuits' /\ Alive' /\ Completed' /\ StaysReachable' /\ IndegreeAccounting'
  BY FinishKeeps
<1>2. /\ Ends(t, "done") /\ Past \subseteq Past'
      /\ "done" \notin PastCheck \cup {"run_if", "gather_empty"} \cup Collecting
  BY FinishEnds
<1>3. Counted'
  BY <1>2, StillCounted DEF WorkInv
<1>4. Finals'
  BY <1>2, StillFinal
<1> QED BY <1>1, <1>3, <1>4 DEF WorkNext, WorkInv

\* Stopping with the workflow.
LEMMA StopsInv ==
  ASSUME Loopless, TypeOK, IndegreeAccounting, StaysReachable, WorkInv,
         NEW t \in Tasks, Running(t), Stops(t)
  PROVE  WorkNext
<1>1. Finish(t) /\ UNCHANGED <<streams, taskStreams, openStreams, gathered>> /\ UNCHANGED graphVars
  BY DEF Stops, streamVars
<1>2. Keeps(t)
  <2> DEFINE label == "done"
  <2>1. pc' = [pc EXCEPT ![t] = label] /\ label \in Awaits \cup {"done"}
    BY <1>1 DEF Finish
  <2> HIDE DEF label
  <2> QED BY <1>1, <2>1, StillKeeps
<1>3. Clean'
  BY <1>1 DEF WorkInv, Clean, CleanAt
<1> QED BY <1>1, <1>2, <1>3, FinishStill

\* Marking edges in the task's own stream.
LEMMA OwnsInv ==
  ASSUME Loopless, TypeOK, IndegreeAccounting, StaysReachable, WorkInv,
         NEW t \in Tasks, Running(t), Owns(t)
  PROVE  WorkNext
<1>1. /\ Finish(t) /\ UNCHANGED <<streams, taskStreams, openStreams, gathered>> /\ OwnEnd(t)
      /\ MarkInv /\ Active(t)
  BY DEF Owns, streamVars, WorkInv, Active
<1>2. PICK skip : QueueTasksIn(t[1], {t[2]}, skip, {})
  BY DEF Owns, QueueTasks
<1>3. \A e \in OutEdges(t[1]) : \A s \in Streams : s \in {t[2]} => ~MarkedIn(e, s)
  BY <1>1 DEF MarkInv, Owned, OwnedAt
<1> DEFINE S == {t[2]}
           late == {}
<1>4. /\ QueueTasksIn(t[1], S, skip, late)
      /\ \A e \in OutEdges(t[1]) : \A s \in Streams : s \in S => ~MarkedIn(e, s)
  BY <1>2, <1>3
<1> HIDE DEF S, late
<1>5. /\ IndegreeAccounting' /\ Spread(t, S)
      /\ \A e \in Edges : \A s \in Streams : MarkedIn(e, s) => edges'[<<e, s>>] = edges[<<e, s>>]
  BY <1>1, <1>4, WorkSingle, FeedSpread
<1>6. Sound(t, S) /\ Grown(t)
  BY <1>1, <1>5, OwnSound DEF S
<1>7. Keeps(t)
  BY <1>1, <1>5, <1>6, SpreadKeeps
<1>8. Clean'
  BY <1>1 DEF WorkInv, Clean, CleanAt
<1> QED BY <1>1, <1>7, <1>8, FinishStill

\* Going back up.
LEMMA LiftsInv ==
  ASSUME Loopless, TypeOK, IndegreeAccounting, StaysReachable, WorkInv,
         NEW t \in Tasks, Running(t), Lifts(t)
  PROVE  WorkNext
<1>1. /\ Finish(t) /\ UNCHANGED <<streams, taskStreams, openStreams>> /\ Wrote(t)
      /\ MarkInv /\ Active(t) /\ QueueTasks(t[1], Front(t[2]), {})
  BY DEF Lifts, streamVars, WorkInv, Active
<1>2. AllAt(t) /\ openStreams[Opener(t[2])] <= 0
  <2>1. CASE pc[t] = "gather_empty"
    BY <2>1, EmptyAllAt
  <2>2. CASE pc[t] = "gather_exec"
    <3>1. pc[t] \in Collecting
      BY <2>2 DEF Collecting
    <3> QED BY <3>1, CollectAllAt DEF WorkInv, Finals, FinalAt
  <2> QED BY <2>1, <2>2 DEF Lifts
<1>3. \A e \in OutEdges(t[1]) : ~MarkedIn(e, Front(t[2]))
  BY <1>1, <1>2, LiftUnmarked
<1> DEFINE S == {Front(t[2])}
           skip == {}
           late == {}
<1>4. /\ QueueTasksIn(t[1], S, skip, late)
      /\ \A e \in OutEdges(t[1]) : \A s \in Streams : s \in S => ~MarkedIn(e, s)
  BY <1>1, <1>3 DEF QueueTasks
<1> HIDE DEF S, late, skip
<1>5. /\ IndegreeAccounting' /\ Spread(t, S)
      /\ \A e \in Edges : \A s \in Streams : MarkedIn(e, s) => edges'[<<e, s>>] = edges[<<e, s>>]
  BY <1>1, <1>4, WorkSingle, FeedSpread
<1>6. LiftEnd(t)
  BY <1>1, <1>2 DEF LiftEnd
<1>7. Sound(t, S) /\ Grown(t)
  BY <1>1, <1>5, <1>6, LiftSound DEF S
<1>8. Keeps(t)
  BY <1>1, <1>5, <1>7, SpreadKeeps
<1>9. Clean'
  BY <1>1, <1>2, WroteClean DEF WorkInv
<1> QED BY <1>1, <1>8, <1>9, FinishStill

\* Opening streams.
LEMMA PartsInv ==
  ASSUME Loopless, TypeOK, IndegreeAccounting, StaysReachable, WorkInv,
         NEW t \in Tasks, Running(t), Parts(t)
  PROVE  WorkNext
<1>1. PICK S, skip, late : QueueTasksIn(t[1], S, skip, late) /\ SplitEnd(t, S)
  BY DEF Parts
<1>2. PICK n \in Nat : /\ taskStreams' = [taskStreams EXCEPT ![t] = n]
                       /\ openStreams' = openStreams \/ openStreams' = Put(openStreams, t, n)
  BY DEF Parts
<1>3. Finish(t) /\ MarkInv /\ Active(t)
  BY DEF Parts, WorkInv, Active
<1>4. /\ DOMAIN gathered' \subseteq DOMAIN gathered
      /\ \A u \in DOMAIN gathered' : gathered'[u] = gathered[u]
  BY DEF Parts
<1>5. t \notin DOMAIN openStreams
  BY <1>3 DEF MarkInv, Opened, OpenAt
<1>6. \A x \in DOMAIN openStreams : x \in DOMAIN openStreams' /\ openStreams'[x] = openStreams[x]
  BY <1>2, <1>5 DEF Put
<1>7. /\ DOMAIN openStreams' \subseteq DOMAIN openStreams \cup {t}
      /\ t \in DOMAIN openStreams' => openStreams'[t] = n
  BY <1>2, <1>5 DEF Put
<1>8. taskStreams'[t] = n /\ \A u \in Tasks : u # t => taskStreams'[u] = taskStreams[u]
  BY <1>2 DEF TypeOK
<1>9. \A c \in S : c \notin streams /\ c # Root /\ Opener(c) = t
  BY <1>1, <1>3, SplitStream
<1>10. \A e \in OutEdges(t[1]) : \A s \in Streams : s \in S => ~MarkedIn(e, s)
  BY <1>3, <1>9, MarkedStreams DEF OutEdges
<1>11. streams \subseteq streams' /\ \A c \in streams' \ streams : c # Root /\ Opener(c) = t
  BY <1>1, <1>9 DEF SplitEnd
<1>12. DOMAIN openStreams \subseteq DOMAIN openStreams'
  BY <1>6
<1>13. /\ IndegreeAccounting' /\ Spread(t, S)
       /\ \A e \in Edges : \A s \in Streams : MarkedIn(e, s) => edges'[<<e, s>>] = edges[<<e, s>>]
  BY <1>1, <1>3, <1>7, <1>8, <1>10, <1>11, <1>12, WorkSingle, FeedSpread
<1>14. Sound(t, S) /\ Grown(t)
  BY <1>1, <1>3, <1>13, SplitSound
<1>15. Keeps(t)
  BY <1>3, <1>13, <1>14, SpreadKeeps
<1>16. MarkInv' /\ PcSuits' /\ Alive' /\ Completed' /\ StaysReachable' /\ IndegreeAccounting'
  BY <1>3, <1>15, FinishKeeps
<1>17. /\ Ends(t, "done") /\ Past \subseteq Past'
       /\ "done" \notin PastCheck \cup {"run_if", "gather_empty"} \cup Collecting
  BY <1>3, FinishEnds
<1>18. Finals'
  BY <1>6, <1>12, <1>17, StillFinal
<1>19. Counted'
  <2>1. ASSUME NEW g \in Gathers, NEW s \in Streams, <<ClosedScope(g), s>> \in DOMAIN openStreams'
        PROVE  Cardinality(NotPast(g, s)') <= openStreams'[<<ClosedScope(g), s>>]
    <3> DEFINE q == <<ClosedScope(g), s>>
    <3>1. CASE q = t
      <4>1. NotPast(g, s)' \in SUBSET (0..(n - 1))
        BY <1>8, <3>1 DEF NotPast
      <4>2. Cardinality(NotPast(g, s)') <= n
        BY <4>1, SomeOf
      <4> QED BY <1>7, <2>1, <3>1, <4>2
    <3>2. CASE q # t
      <4>1. q \in DOMAIN openStreams /\ q \in Tasks
        BY <1>7, <2>1, <3>2 DEF TypeOK
      <4>2. Cardinality(NotPast(g, s)') <= openStreams[q]
        BY <1>8, <1>17, <3>2, <4>1, CountKept DEF WorkInv
      <4> QED BY <1>6, <4>1, <4>2
    <3> QED BY <3>1, <3>2
  <2>2. \A u \in DOMAIN openStreams' : openStreams'[u] <= taskStreams'[u]
    <3>1. \A u \in DOMAIN openStreams : u \in Tasks /\ openStreams[u] <= taskStreams[u]
      BY DEF WorkInv, Counted, TypeOK
    <3> QED BY <1>5, <1>6, <1>7, <1>8, <3>1
  <2> QED BY <2>1, <2>2 DEF Counted
<1>20. Clean'
  <2>1. ASSUME NEW u \in DOMAIN gathered' PROVE CleanAt(u)'
    <3>1. u \in DOMAIN gathered /\ gathered'[u] = gathered[u] /\ CleanAt(u)
      BY <1>4, <2>1 DEF WorkInv, Clean
    <3> DEFINE q == <<ClosedScope(u[1]), u[2]>>
    <3>2. q \in DOMAIN openStreams /\ q \in Tasks /\ q # t
      BY <1>5, <3>1 DEF CleanAt, TypeOK
    <3>3. q \in DOMAIN openStreams' /\ openStreams'[q] = openStreams[q] /\ taskStreams'[q] = taskStreams[q]
      BY <1>6, <1>8, <3>2
    <3> QED BY <3>1, <3>3 DEF CleanAt
  <2> QED BY <2>1 DEF Clean
<1> QED BY <1>16, <1>18, <1>19, <1>20 DEF WorkNext, WorkInv

\* Closing a stream.
LEMMA ClosesInv ==
  ASSUME Loopless, OneGather, TypeOK, IndegreeAccounting, StaysReachable, WorkInv,
         NEW t \in Tasks, Running(t), Closes(t)
  PROVE  WorkNext
<1> DEFINE sc == Opener(t[2])
           i  == Last(t[2])[2]
<1>1. Kind[t[1]] = "gather" /\ ~IsSkipStream(t[2]) /\ pc[t] \notin Collecting /\ Active(t) /\ MarkInv
      /\ FedIn(t[1], t[2])
  BY DEF Closes, Active, WorkInv, MarkInv, Owned, OwnedAt
<1>2. /\ t[1] \in Gathers /\ sc = <<ClosedScope(t[1]), Front(t[2])>> /\ sc \in DOMAIN openStreams
      /\ sc \in Tasks /\ ParentScatter(t) = sc
      /\ t[2] = Child(Front(t[2]), ClosedScope(t[1]), i) /\ t[2] # Root
  BY <1>1, GatherPlace
<1>3. i \in NotPast(t[1], Front(t[2])) /\ openStreams[sc] \in Int /\ openStreams[sc] >= 1
  BY <1>1, CloseCount
<1>4. t = <<t[1], t[2]>> /\ t[1] \in Refs /\ t[2] \in Streams /\ Front(t[2]) \in Streams
  BY <1>2, TaskFacts, StreamFacts
<1> HIDE DEF sc, i
<1>5. /\ UNCHANGED graphVars /\ UNCHANGED <<streams, taskStreams>> /\ Wrote(t)
      /\ openStreams' = [openStreams EXCEPT ![sc] = openStreams[sc] - 1]
  BY <1>2 DEF Closes
<1>6. PICK label \in {"gather_finalize", "done"} :
        Ends(t, label) /\ (label = "gather_finalize" => openStreams[sc] - 1 = 0)
  BY <1>2 DEF Closes, Ends, Await, Finish
<1>7. /\ DOMAIN openStreams' = DOMAIN openStreams /\ openStreams'[sc] = openStreams[sc] - 1
      /\ \A x \in DOMAIN openStreams : x # sc => openStreams'[x] = openStreams[x]
  BY <1>2, <1>5
<1>8. label \in Awaits \cup {"done"} /\ Suits(t, label) /\ label \notin PastCheck \cup {"run_if"}
      /\ label # "gather_empty" /\ label \in Collecting \cup {"done"}
  BY <1>1 DEF Awaits, Suits, GatherAwaits, LoopAwaits, PastCheck, Collecting
<1>9. Keeps(t)
  BY <1>5, <1>6, <1>7, <1>8, StillKeeps DEF Ends
<1>10. MarkInv' /\ PcSuits' /\ Alive' /\ Completed' /\ StaysReachable' /\ IndegreeAccounting'
  BY <1>6, <1>8, <1>9, KeepsWork
<1>11. pc'[t] = label /\ \A u \in Tasks : u # t => pc'[u] = pc[u]
  BY <1>6 DEF Ends, TypeOK
<1>12. Past \subseteq Past' /\ t \in Past'
  <2>1. t \in Past'
    BY <1>6, <1>8, <1>11 DEF Past, Ends
  <2> QED BY <1>6, <1>8, <2>1, PastGrows
\* no other gather closes the scatter, in the streams it was in or any other
<1>13. ASSUME NEW g \in Gathers, NEW s, <<ClosedScope(g), s>> = sc
       PROVE  g = t[1] /\ s = Front(t[2])
  BY <1>2, <1>13 DEF OneGather
<1>14. Counted'
  <2>1. ASSUME NEW g \in Gathers, NEW s \in Streams, <<ClosedScope(g), s>> \in DOMAIN openStreams'
        PROVE  Cardinality(NotPast(g, s)') <= openStreams'[<<ClosedScope(g), s>>]
    <3> DEFINE q == <<ClosedScope(g), s>>
    <3>1. q \in DOMAIN openStreams /\ q \in Tasks
      BY <1>7, <2>1 DEF TypeOK
    <3>2. /\ NotPast(g, s)' \subseteq NotPast(g, s) /\ IsFiniteSet(NotPast(g, s))
          /\ Cardinality(NotPast(g, s)) \in Nat /\ Cardinality(NotPast(g, s)') \in Nat
          /\ Cardinality(NotPast(g, s)) <= openStreams[q]
          /\ Cardinality(NotPast(g, s)') <= openStreams[q]
      BY <1>5, <1>12, <3>1, CountKept DEF WorkInv
    <3>3. CASE q = sc
      <4>1. g = t[1] /\ s = Front(t[2])
        BY <1>13, <3>3
      <4>2. i \in NotPast(g, s) /\ i \notin NotPast(g, s)'
        BY <1>2, <1>3, <1>4, <1>12, <4>1 DEF NotPast
      <4> DEFINE M == NotPast(g, s) \ {i}
      <4>3. IsFiniteSet(M) /\ Cardinality(M) = Cardinality(NotPast(g, s)) - 1
        BY <3>2, <4>2, FS_RemoveElement
      <4>4. NotPast(g, s)' \in SUBSET M
        BY <3>2, <4>2
      <4> HIDE DEF M
      <4>5. Cardinality(NotPast(g, s)') <= Cardinality(M)
        BY <4>3, <4>4, FS_Subset
      <4> QED BY <1>3, <1>7, <3>2, <3>3, <4>3, <4>5
    <3>4. CASE q # sc
      BY <1>7, <3>1, <3>2, <3>4
    <3> QED BY <3>3, <3>4
  <2>2. ASSUME NEW u \in DOMAIN openStreams' PROVE openStreams'[u] <= taskStreams'[u]
    <3>1. u \in DOMAIN openStreams /\ u \in Tasks /\ openStreams[u] <= taskStreams[u]
          /\ taskStreams[u] \in Nat
      BY <1>7, <2>2 DEF WorkInv, Counted, TypeOK
    <3> QED BY <1>3, <1>5, <1>7, <3>1
  <2> QED BY <2>1, <2>2 DEF Counted
\* a gather that puts a result together belongs to another scatter
<1>15. ASSUME NEW u \in Tasks, pc[u] \in Collecting
       PROVE  Opener(u[2]) # sc /\ Opener(u[2]) \in DOMAIN openStreams
  <2>1. openStreams[Opener(u[2])] <= 0 /\ Opener(u[2]) \in DOMAIN openStreams
    BY <1>15, CollectAllAt DEF AllAt, WorkInv, Finals, FinalAt
  <2> QED BY <1>3, <2>1
<1>16. Finals'
  <2>1. ASSUME NEW u \in Tasks PROVE FinalAt(u)'
    <3>1. FinalAt(u)
      BY DEF WorkInv, Finals
    <3>2. pc'[u] = "gather_empty" => IsSkipStream(u[2]) /\ Opener(u[2]) \in DOMAIN openStreams'
      BY <1>7, <1>8, <1>11, <3>1 DEF FinalAt
    <3>3. ASSUME pc'[u] \in Collecting
          PROVE  ~IsSkipStream(u[2]) /\ openStreams'[Opener(u[2])] <= 0
      <4>1. CASE u = t
        <5>1. label = "gather_finalize"
          BY <1>6, <1>11, <3>3, <4>1 DEF Collecting
        <5> QED BY <1>1, <1>3, <1>6, <1>7, <4>1, <5>1 DEF sc
      <4>2. CASE u # t
        <5>1. pc[u] \in Collecting
          BY <1>11, <3>3, <4>2
        <5> QED BY <1>7, <1>15, <3>1, <5>1 DEF FinalAt
      <4> QED BY <4>1, <4>2
    <3>4. ASSUME NEW v \in Tasks, pc'[u] \in Collecting, pc'[v] \in Collecting,
                 v[1] = u[1], Opener(v[2]) = Opener(u[2])
          PROVE  v = u
      <4>1. u # t => pc[u] \in Collecting /\ Opener(u[2]) # Opener(t[2])
        BY <1>11, <1>15, <3>4 DEF sc
      <4>2. v # t => pc[v] \in Collecting /\ Opener(v[2]) # Opener(t[2])
        BY <1>11, <1>15, <3>4 DEF sc
      <4> QED BY <3>1, <3>4, <4>1, <4>2 DEF FinalAt
    <3> QED BY <3>2, <3>3, <3>4 DEF FinalAt
  <2> QED BY <2>1 DEF Finals
<1>17. Clean'
  <2>1. ASSUME NEW u \in DOMAIN gathered' PROVE CleanAt(u)'
    <3> DEFINE q == <<ClosedScope(u[1]), u[2]>>
    <3>1. CASE u = ParentGather(t)
      <4>1. u[1] = t[1] /\ q = sc
        BY <1>2, <3>1 DEF ParentGather
      <4>2. openStreams[sc] - 1 > 0 =>
              /\ gathered'[u].kind = "inline" /\ Len(gathered'[u].slots) = taskStreams[sc]
              /\ \A k \in DOMAIN gathered'[u].slots : gathered'[u].slots[k] # "raw"
        BY <1>2, <2>1, <3>1 DEF Closes
      <4> QED BY <1>2, <1>5, <1>7, <4>1, <4>2 DEF CleanAt
    <3>2. CASE u # ParentGather(t)
      <4>1. u \in DOMAIN gathered /\ gathered'[u] = gathered[u] /\ CleanAt(u) /\ u \in Tasks
        BY <1>5, <2>1, <3>2 DEF WorkInv, Clean, Wrote, TypeOK
      <4>2. u[1] \in Gathers /\ q \in DOMAIN openStreams /\ u = <<u[1], u[2]>>
        BY <4>1, TaskFacts DEF CleanAt
      <4>3. q # sc
        BY <1>13, <3>2, <4>2 DEF ParentGather
      <4>4. openStreams'[q] = openStreams[q] /\ q \in DOMAIN openStreams' /\ taskStreams' = taskStreams
        BY <1>5, <1>7, <4>2, <4>3
      <4> QED BY <4>1, <4>4 DEF CleanAt
    <3> QED BY <3>1, <3>2
  <2> QED BY <2>1 DEF Clean
<1> QED BY <1>10, <1>14, <1>16, <1>17 DEF WorkNext, WorkInv

\* Whatever a coroutine does.
LEMMA WorkStep ==
  ASSUME Loopless, Contained, TypeOK, PcFits, IndegreeAccounting, StaysReachable, WorkInv,
         NEW t \in Tasks, Running(t), Resume(t)
  PROVE  WorkNext
<1>1. WorkShape(t)
  BY ResumeWork
<1> QED BY <1>1, MovesInv, StopsInv, OwnsInv, PartsInv, LiftsInv, ClosesInv DEF WorkShape, Contained

-----------------------------------------------------------------------------
(* The main coroutine, and the workflow after it failed.                   *)

\* What holds in every state, at work or cancelled.
Always == /\ IndegreeAccounting /\ SingleDispatch /\ StaysReachable /\ GatherBarrier
          /\ ActOrder /\ RunOwn

\* The main coroutine's steps while the workflow is at work.
LEMMA MainWork ==
  ASSUME TypeOK, IndegreeAccounting, StaysReachable, WorkInv,
         UNCHANGED <<completed, indegrees, edges, streams, taskStreams, openStreams, gathered>>,
         \A u \in Tasks : Active(u)' => Active(u) /\ queued'[u] = (IF Running(u)' THEN 0 ELSE 1),
         \A u \in Tasks : pc[u] \in Awaits \/ pc'[u] \in Awaits => pc'[u] = pc[u],
         \A u \in Tasks : pc'[u] \in Awaits \cup {"idle", "start", "done"}
  PROVE  WorkNext
<1>1. MarkInv'
  BY StillInv DEF WorkInv
<1>2. ASSUME NEW label \in PastCheck \cup {"run_if", "gather_empty"} \cup Collecting
      PROVE  label \in Awaits
  BY DEF PastCheck, Collecting, Awaits
<1>3. PcSuits'
  <2>1. ASSUME NEW u \in Tasks PROVE Suits(u, pc[u])'
    <3>1. CASE pc'[u] \in Awaits
      BY <3>1 DEF WorkInv, PcSuits, Suits
    <3>2. CASE pc'[u] \in {"idle", "start", "done"}
      BY <3>2 DEF Suits, GatherAwaits, LoopAwaits
    <3> QED BY <3>1, <3>2
  <2> QED BY <2>1 DEF PcSuits
<1>4. Alive'
  BY <1>2 DEF WorkInv, Alive, SkipShouldPropagate
<1>5. Completed'
  BY DEF WorkInv, Completed, FedIn, AllIn, MarkedIn, TypeOK
<1>6. Past' = Past
  BY <1>2 DEF Past
<1>7. Counted'
  BY <1>6 DEF WorkInv, Counted, NotPast
<1>8. Finals'
  <2>1. ASSUME NEW u \in Tasks PROVE FinalAt(u)'
    <3>1. FinalAt(u)
      BY DEF WorkInv, Finals
    <3>2. \A v \in Tasks : pc'[v] \in Collecting \cup {"gather_empty"} => pc'[v] = pc[v]
      BY <1>2
    <3> QED BY <3>1, <3>2 DEF FinalAt
  <2> QED BY <2>1 DEF Finals
<1>9. Clean'
  BY DEF WorkInv, Clean, CleanAt
<1>10. StaysReachable'
  <2>1. ASSUME NEW u \in Tasks, pc'[u] \in PastCheck PROVE IsReachable(u)'
    <3>1. pc'[u] = pc[u]
      BY <1>2, <2>1
    <3>2. IsReachable(u)
      BY <2>1, <3>1 DEF StaysReachable, PastCheck
    <3> QED BY <3>2, ReachableKept
  <2> QED BY <2>1 DEF StaysReachable, PastCheck
<1>11. IndegreeAccounting'
  BY DEF IndegreeAccounting
<1> QED BY <1>1, <1>3, <1>4, <1>5, <1>7, <1>8, <1>9, <1>10, <1>11 DEF WorkNext, WorkInv

\* Spawning coroutines.
LEMMA SpawnWork ==
  ASSUME TypeOK, IndegreeAccounting, StaysReachable, WorkInv, Spawn
  PROVE  WorkNext
<1>1. PICK S \in SUBSET Queued :
        /\ queued' = [t \in Tasks |-> IF t \in S THEN queued[t] - 1 ELSE queued[t]]
        /\ pc' = [t \in Tasks |-> IF t \in S THEN "start" ELSE IF pc[t] = "done" THEN "idle" ELSE pc[t]]
  BY DEF Spawn
<1>2. ASSUME NEW u \in Tasks
      PROVE  /\ queued[u] \in Nat /\ pc[u] \in Awaits \cup {"idle", "start", "done"}
             /\ Active(u) => queued[u] = (IF Running(u) THEN 0 ELSE 1)
             /\ u \in S => queued[u] > 0
  BY DEF TypeOK, WorkInv, MarkInv, Owned, OwnedAt, Queued
<1>3. ASSUME NEW u \in Tasks, u \in S
      PROVE  queued[u] = 1 /\ ~Running(u) /\ Active(u) /\ queued'[u] = 0 /\ pc'[u] = "start"
  BY <1>1, <1>2, <1>3 DEF Active
<1>4. ASSUME NEW u \in Tasks, u \notin S
      PROVE  queued'[u] = queued[u] /\ (Running(u)' <=> Running(u))
             /\ pc'[u] = IF pc[u] = "done" THEN "idle" ELSE pc[u]
  BY <1>1, <1>4 DEF Running
<1>5. ASSUME NEW u \in Tasks, Active(u)'
      PROVE  Active(u) /\ queued'[u] = (IF Running(u)' THEN 0 ELSE 1)
  <2>1. CASE u \in S
    BY <1>3, <2>1 DEF Running
  <2>2. CASE u \notin S
    BY <1>2, <1>4, <1>5, <2>2 DEF Active
  <2> QED BY <2>1, <2>2
<1>6. ASSUME NEW u \in Tasks
      PROVE  /\ pc[u] \in Awaits \/ pc'[u] \in Awaits => pc'[u] = pc[u]
             /\ pc'[u] \in Awaits \cup {"idle", "start", "done"}
  <2>1. CASE u \in S
    <3>1. pc[u] \in {"idle", "done"} /\ pc'[u] = "start"
      BY <1>3, <2>1 DEF Running
    <3> QED BY <3>1 DEF Awaits
  <2>2. CASE u \notin S
    BY <1>2, <1>4, <2>2 DEF Awaits
  <2> QED BY <2>1, <2>2
<1>7. UNCHANGED <<completed, indegrees, edges, streams, taskStreams, openStreams, gathered>>
  BY DEF Spawn, streamVars, gatherVars
<1> QED BY <1>5, <1>6, <1>7, MainWork

\* Returning when nothing is left.
LEMMA ReturnWork ==
  ASSUME TypeOK, IndegreeAccounting, StaysReachable, WorkInv, ReturnNone
  PROVE  WorkNext
<1>1. ASSUME NEW u \in Tasks
      PROVE  pc'[u] = "idle" /\ pc[u] \in {"idle", "done"} /\ queued'[u] = queued[u] /\ ~(queued[u] > 0)
  BY DEF ReturnNone, RunningTasks, Running, Queued, graphVars
<1>2. \A u \in Tasks : ~Active(u)'
  BY <1>1 DEF Active, Running
<1>3. ASSUME NEW u \in Tasks
      PROVE  /\ pc[u] \in Awaits \/ pc'[u] \in Awaits => pc'[u] = pc[u]
             /\ pc'[u] \in Awaits \cup {"idle", "start", "done"}
  BY <1>1 DEF Awaits
<1>4. UNCHANGED <<completed, indegrees, edges, streams, taskStreams, openStreams, gathered>>
  BY DEF ReturnNone, graphVars, streamVars, gatherVars
<1> QED BY <1>2, <1>3, <1>4, MainWork

\* A step that marks nothing and starts nothing keeps what always holds.
LEMMA QuietAlways ==
  ASSUME Always, UNCHANGED <<edges, indegrees, taskStreams>>,
         \A u \in Tasks : Active(u)' => Active(u) /\ queued'[u] = (IF Running(u)' THEN 0 ELSE 1),
         \A u \in Tasks : Running(u)' => Running(u) /\ pc'[u] = pc[u]
  PROVE  Always'
<1>1. IndegreeAccounting' /\ SingleDispatch' /\ ActOrder'
  BY DEF Always, IndegreeAccounting, SingleDispatch, ActOrder, AllIn, MarkedIn
<1>2. RunOwn'
  BY DEF Always, RunOwn, MarkedIn
<1>3. GatherBarrier'
  <2> SUFFICES ASSUME NEW t \in Tasks, pc'[t] \in {"gather_finalize", "gather_exec"},
                      NEW u \in Tasks \ {t},
                      \E s \in StreamsOf(ParentScatter(t)) : IsPrefix(s, u[2]),
                      u[1] \in Upstream[t[1]] \cup {t[1]}, Active(u)'
               PROVE  FALSE
    BY DEF GatherBarrier, StreamsOf, ParentScatter
  <2>1. Running(t)'
    BY DEF Running
  <2>2. pc[t] \in {"gather_finalize", "gather_exec"} /\ Active(u)
    BY <2>1
  <2> QED BY <2>2 DEF Always, GatherBarrier
<1>4. StaysReachable'
  <2>1. ASSUME NEW u \in Tasks, pc'[u] \in PastCheck PROVE IsReachable(u)'
    <3>1. Running(u)'
      BY <2>1 DEF Running, PastCheck
    <3>2. IsReachable(u)
      BY <2>1, <3>1 DEF Always, StaysReachable, PastCheck
    <3> QED BY <3>2, ReachableKept
  <2> QED BY <2>1 DEF StaysReachable, PastCheck
<1> QED BY <1>1, <1>2, <1>3, <1>4 DEF Always

\* A cancelled coroutine that fails and marks its edges.
LEMMA FeedAlways ==
  ASSUME Loopless, TypeOK, Always, NEW t \in Tasks, Running(t), Finish(t),
         NEW skip, QueueTasks(t[1], t[2], skip), UNCHANGED <<streams, taskStreams, openStreams>>
  PROVE  Always'
<1> DEFINE S == {t[2]}
           late == {}
<1>1. /\ QueueTasksIn(t[1], S, skip, late)
      /\ \A e \in OutEdges(t[1]) : \A s \in Streams : s \in S => ~MarkedIn(e, s)
  BY DEF QueueTasks, Always, RunOwn
<1>2. \A s : s \in S <=> s = t[2]
  OBVIOUS
<1>3. /\ t[1] \in Refs /\ t[2] \in Streams /\ t = <<t[1], t[2]>> /\ Active(t) /\ AllIn(t[1], t[2])
      /\ SingleDispatch /\ IndegreeAccounting
  BY TaskFacts DEF Active, Always, SingleDispatch, AllIn, MarkedIn
<1> HIDE DEF S, late
<1>4. /\ IndegreeAccounting' /\ Spread(t, S)
      /\ \A e \in Edges : \A s \in Streams : MarkedIn(e, s) => edges'[<<e, s>>] = edges[<<e, s>>]
  BY <1>1, <1>3, FeedSpread
<1>5. \A e \in Edges : \A s \in Streams :
        MarkedIn(e, s)' <=> MarkedIn(e, s) \/ (e.src = t[1] /\ s = t[2])
  BY <1>2, <1>4 DEF Spread
<1>6. /\ \A u \in Tasks : Active(u)' <=> (Active(u) /\ u # t) \/ NewlyFed(u)
      /\ \A u \in Tasks : Active(u)' => queued'[u] = (IF Running(u)' THEN 0 ELSE 1)
  BY <1>4 DEF Spread
<1>7. ASSUME NEW u \in Tasks
      PROVE  u[1] \in Refs /\ u[2] \in Streams /\ u = <<u[1], u[2]>>
             /\ (AllIn(u[1], u[2]) => AllIn(u[1], u[2])')
  BY <1>4, TaskFacts, SpreadFed
<1>8. ASSUME NEW u \in Tasks, Active(u)
      PROVE  AllIn(u[1], u[2]) /\ \A e \in InEdges(u[1]) : edges'[<<e, u[2]>>] = edges[<<e, u[2]>>]
  <2>1. AllIn(u[1], u[2])
    BY <1>3, <1>8 DEF SingleDispatch, AllIn, MarkedIn
  <2>2. \A e \in InEdges(u[1]) : e \in Edges /\ MarkedIn(e, u[2])
    BY <2>1 DEF AllIn, InEdges
  <2> QED BY <1>4, <1>7, <2>1, <2>2
<1>9. \A u \in Tasks : Running(u)' => Running(u) /\ u # t /\ pc'[u] = pc[u]
  BY DEF Finish, Running, TypeOK
\* only the task's own edges are marked, and only in its stream
<1>10. ASSUME NEW u \in Tasks, u # t, NEW e \in OutEdges(u[1]), MarkedIn(e, u[2])'
       PROVE  MarkedIn(e, u[2]) /\ e \in Edges /\ e.src = u[1]
  <2>1. e \in Edges /\ e.src = u[1]
    BY <1>7, OwnEdges
  <2>2. u[1] # t[1] \/ u[2] # t[2]
    BY <1>3, <1>7, <1>10
  <2> QED BY <1>5, <1>7, <1>10, <2>1, <2>2
<1>11. SingleDispatch'
  <2>1. ASSUME NEW u \in Tasks, Active(u)'
        PROVE  /\ AllIn(u[1], u[2])'
               /\ Kind[u[1]] \notin {"scatter", "gather"} =>
                    \A e \in OutEdges(u[1]) : ~MarkedIn(e, u[2])'
    <3>1. CASE Active(u) /\ u # t
      <4>1. Kind[u[1]] \notin {"scatter", "gather"} => \A e \in OutEdges(u[1]) : ~MarkedIn(e, u[2])
        BY <1>3, <3>1 DEF SingleDispatch, MarkedIn
      <4> QED BY <1>7, <1>8, <1>10, <3>1, <4>1
    <3>2. CASE NewlyFed(u)
      <4>1. ~AllIn(u[1], u[2]) /\ AllIn(u[1], u[2])' /\ u # t
        BY <1>3, <3>2 DEF NewlyFed
      <4>2. Kind[u[1]] \in {"action", "scatter", "gather"}
        BY <1>7, LooplessGraph
      <4>3. ASSUME Kind[u[1]] \notin {"scatter", "gather"}, NEW e \in OutEdges(u[1]), MarkedIn(e, u[2])'
            PROVE  FALSE
        <5>1. MarkedIn(e, u[2]) /\ e \in Edges /\ e.src = u[1]
          BY <1>10, <4>1, <4>3
        <5> QED BY <1>7, <4>1, <4>2, <4>3, <5>1 DEF Always, ActOrder
      <4> QED BY <4>1, <4>3
    <3> QED BY <1>6, <2>1, <3>1, <3>2
  <2> QED BY <1>6, <2>1 DEF SingleDispatch, AllIn, MarkedIn
<1>12. ActOrder'
  <2>1. ASSUME NEW e \in Edges, NEW s \in Streams, MarkedIn(e, s)', Kind[e.src] = "action"
        PROVE  AllIn(e.src, s)'
    <3>1. AllIn(e.src, s)
      BY <1>3, <1>5, <2>1 DEF Always, ActOrder
    <3> QED BY <1>4, <3>1, SpreadFed
  <2> QED BY <2>1 DEF ActOrder
<1>13. RunOwn'
  <2>1. ASSUME NEW u \in Tasks, Running(u)', NEW e \in OutEdges(u[1]) PROVE ~MarkedIn(e, u[2])'
    <3>1. Running(u) /\ u # t
      BY <1>9, <2>1
    <3>2. ~MarkedIn(e, u[2])
      BY <3>1 DEF Always, RunOwn
    <3> QED BY <1>10, <3>1, <3>2
  <2> QED BY <2>1 DEF RunOwn
<1>14. StaysReachable'
  <2>1. ASSUME NEW u \in Tasks, pc'[u] \in PastCheck PROVE IsReachable(u)'
    <3>1. Running(u)'
      BY <2>1 DEF Running, PastCheck
    <3>2. IsReachable(u) /\ Active(u)
      BY <1>9, <2>1, <3>1 DEF Always, StaysReachable, PastCheck, Active
    <3> QED BY <1>8, <3>2, ReachableKept
  <2> QED BY <2>1 DEF StaysReachable, PastCheck
<1>15. GatherBarrier'
  <2> SUFFICES ASSUME NEW x \in Tasks, pc'[x] \in {"gather_finalize", "gather_exec"},
                      NEW u \in Tasks \ {x},
                      NEW s \in StreamsOf(ParentScatter(x)), IsPrefix(s, u[2]),
                      u[1] \in Upstream[x[1]] \cup {x[1]}, Active(u)'
               PROVE  FALSE
    BY DEF GatherBarrier, StreamsOf, ParentScatter
  <2>1. Running(x)'
    BY DEF Running
  <2>2. pc[x] \in {"gather_finalize", "gather_exec"} /\ x # t
    BY <1>9, <2>1
  <2>3. \A v \in Tasks \ {x} : /\ IsPrefix(s, v[2]) /\ v[1] \in Upstream[x[1]] \cup {x[1]}
                               => ~Active(v)
    BY <2>2 DEF Always, GatherBarrier
  <2>4. NewlyFed(u)
    BY <1>6, <2>3
  <2>5. u[2] = t[2] /\ t[1] \in Upstream[u[1]]
    BY <1>2, <1>4, <2>4, LooplessGraph, SpreadNew
  <2>6. t[1] \in Upstream[x[1]]
    <3>1. u[1] \in Refs /\ x[1] \in Refs
      BY TaskFacts
    <3> QED BY <2>5, <3>1, UpstreamTransitive
  <2> QED BY <1>3, <2>2, <2>3, <2>5, <2>6
<1> QED BY <1>4, <1>11, <1>12, <1>13, <1>14, <1>15 DEF Always

\* Cancelling a coroutine.
LEMMA CancelAlways ==
  ASSUME Loopless, TypeOK, Always, NEW t \in Tasks, Running(t), Cancelled(t) \/ CancelledAsError(t)
  PROVE  Always'
<1>1. pc' = [pc EXCEPT ![t] = "done"] /\ UNCHANGED <<streams, taskStreams, openStreams>>
  BY DEF Cancelled, CancelledAsError, Fail, ErrorPath, Finish, streamVars
<1>2. \A u \in Tasks : Running(u)' <=> Running(u) /\ u # t
  BY <1>1 DEF Running, TypeOK
<1>3. \A u \in Tasks : Running(u)' => pc'[u] = pc[u]
  BY <1>1, <1>2 DEF TypeOK
<1>4. \A u \in Tasks : Active(u) => queued[u] = (IF Running(u) THEN 0 ELSE 1)
  BY DEF Always, SingleDispatch
<1>5. CASE UNCHANGED graphVars
  <2>1. UNCHANGED <<queued, indegrees, edges>>
    BY <1>5 DEF graphVars
  <2>2. queued[t] = 0
    BY <1>4 DEF Active
  <2>3. \A u \in Tasks : Active(u)' => Active(u) /\ queued'[u] = (IF Running(u)' THEN 0 ELSE 1)
    BY <1>2, <1>4, <2>1, <2>2 DEF Active
  <2> QED BY <1>1, <1>2, <1>3, <2>1, <2>3, QuietAlways
<1>6. CASE CancelledAsError(t) /\ ~UNCHANGED graphVars
  <2>1. PICK skip : QueueTasks(t[1], t[2], skip)
    BY <1>6 DEF CancelledAsError, Fail, ErrorPath
  <2>2. Finish(t)
    BY <1>6 DEF CancelledAsError, Fail, ErrorPath
  <2> QED BY <1>1, <2>1, <2>2, FeedAlways
<1> QED BY <1>5, <1>6 DEF Cancelled

-----------------------------------------------------------------------------
(* The theorems.                                                           *)

AtWork == main \notin {"cancel", "failed"}

\* The inductive invariant.
ScatterInv ==
  /\ AtWork => WorkInv /\ StaysReachable /\ IndegreeAccounting
  /\ ~AtWork => Always
  /\ main = "failed" => \A t \in Tasks : ~Running(t)

\* It implies what always holds.
LEMMA ScatterAlways ==
  ASSUME Loopless, TypeOK, ScatterInv
  PROVE  Always
  BY WorkSingle, WorkBarrier DEF Always, ScatterInv

\* The initial state: the roots of the graph wait, and nothing is marked.
LEMMA ScatterInit ==
  ASSUME Loopless, TypeOK, Init
  PROVE  ScatterInv
<1>1. \A u \in Tasks : pc[u] = "idle" /\ ~Running(u) /\ taskStreams[u] = 0
  BY DEF Init, Running
<1>2. \A e \in Edges : \A s \in Streams : ~MarkedIn(e, s)
  BY DEF Init, MarkedIn
<1>3. ASSUME NEW u \in Tasks, Active(u)
      PROVE  queued[u] = 1 /\ u[2] = Root /\ InEdges(u[1]) = {} /\ u[1] \in Refs
  <2>1. u[2] = Root /\ NDeps(u[1]) = 0 /\ queued[u] = 1 /\ u[1] \in Refs
    BY <1>1, <1>3, TaskFacts DEF Init, Active
  <2>2. IsFiniteSet(InEdges(u[1]))
    BY GraphAssumption, FS_Subset DEF InEdges
  <2> QED BY <2>1, <2>2, FS_EmptySet DEF NDeps
<1>4. streams = {Root} /\ DOMAIN openStreams = {} /\ DOMAIN gathered = {} /\ completed = {}
  BY DEF Init
<1>5. Placed /\ Sourced /\ Line /\ Settled
  BY <1>2 DEF Placed, Sourced, Line, Settled
<1>6. Tree
  <2>1. \A x \in Streams : IsPrefix(x, Root) => x = Root
    <3>1. ASSUME NEW x \in Streams, IsPrefix(x, Root) PROVE x = Root
      <4>1. Root \in Streams
        BY SchedulerAssumption
      <4>2. x \in Seq(Element) /\ Root \in Seq(Element) /\ Len(x) \in Nat /\ Len(Root) = 0
        BY <4>1, StreamFacts
      <4>3. Len(x) <= Len(Root)
        BY <3>1, <4>2, PrefixElements
      <4> QED BY <4>2, <4>3, StreamFacts
    <3> QED BY <3>1
  <2> QED BY <1>4, <2>1 DEF Tree
<1>7. Opened
  BY <1>1, <1>4 DEF Opened
<1>8. Owned
  <2>1. ASSUME NEW u \in Tasks, Active(u) PROVE OwnedAt(u)
    <3>1. \A e \in OutEdges(u[1]) : ~MarkedIn(e, u[2])
      BY <1>2, TaskFacts DEF OutEdges
    <3> QED BY <1>1, <1>3, <2>1, <3>1 DEF OwnedAt, FedIn, AllIn
  <2> QED BY <2>1 DEF Owned
<1>9. PcSuits /\ Alive /\ Finals /\ StaysReachable
  BY <1>1 DEF PcSuits, Suits, GatherAwaits, LoopAwaits, Alive, PastCheck, Finals, FinalAt,
              Collecting, StaysReachable
<1>10. Completed /\ Counted /\ Clean
  BY <1>4 DEF Completed, Counted, Clean
<1>11. IndegreeAccounting
  <2>1. ASSUME NEW u \in Tasks
        PROVE  indegrees[u] = Cardinality({e \in InEdges(u[1]) : edges[<<e, u[2]>>] = "PENDING"})
    <3>1. {e \in InEdges(u[1]) : edges[<<e, u[2]>>] = "PENDING"} = InEdges(u[1])
      BY <1>2, TaskFacts DEF InEdges, MarkedIn
    <3> QED BY <3>1 DEF Init, NDeps
  <2> QED BY <2>1 DEF IndegreeAccounting
<1>12. WorkInv
  BY <1>5, <1>6, <1>7, <1>8, <1>9, <1>10 DEF WorkInv, MarkInv
<1> QED BY <1>9, <1>11, <1>12 DEF ScatterInv, AtWork, Init

\* The main coroutine keeps the invariant.
LEMMA ScatterMain ==
  ASSUME Loopless, TypeOK, ScatterInv, Main
  PROVE  ScatterInv'
<1>1. CASE Spawn \/ ReturnNone
  <2>1. AtWork /\ AtWork' /\ main' # "failed"
    BY <1>1 DEF Spawn, ReturnNone, Awake, AtWork
  <2>2. WorkNext
    BY <1>1, <2>1, SpawnWork, ReturnWork DEF ScatterInv
  <2> QED BY <2>1, <2>2 DEF ScatterInv, WorkNext
<1>2. CASE CancelPending \/ ReturnExceptions
  <2>1. /\ UNCHANGED <<queued, indegrees, edges, taskStreams>> /\ main' \in {"cancel", "failed"}
        /\ \A u \in Tasks : Running(u)' => Running(u) /\ pc'[u] = pc[u]
        /\ \A u \in Tasks : Running(u) => Running(u)'
        /\ main' = "failed" => \A u \in Tasks : ~Running(u)'
    BY <1>2 DEF CancelPending, ReturnExceptions, graphVars, streamVars, RunningTasks, Running
  <2>2. Always
    BY ScatterAlways
  <2>3. \A u \in Tasks : Active(u)' => Active(u) /\ queued'[u] = (IF Running(u)' THEN 0 ELSE 1)
    BY <2>1, <2>2 DEF Always, SingleDispatch, Active
  <2>4. Always'
    BY <2>1, <2>2, <2>3, QuietAlways
  <2> QED BY <2>1, <2>4 DEF ScatterInv, AtWork
<1> QED BY <1>1, <1>2 DEF Main

\* Every step keeps it.
LEMMA ScatterNext ==
  ASSUME Loopless, Contained, TypeOK, PcFits, ScatterInv, [Next]_vars
  PROVE  ScatterInv'
<1>1. ASSUME NEW t \in Tasks, Step(t) PROVE ScatterInv'
  <2>1. Running(t) /\ main' = main
    BY <1>1, StepMovesOne, StepKeepsMain
  <2>2. main # "failed" /\ (AtWork' <=> AtWork)
    BY <2>1 DEF ScatterInv, AtWork
  <2>3. CASE AtWork
    <3>1. Resume(t)
      BY <1>1, <2>3 DEF Step, Cancelled, CancelledAsError, AtWork
    <3>2. WorkNext
      BY <2>1, <2>3, <3>1, WorkStep DEF ScatterInv
    <3> QED BY <2>1, <2>2, <2>3, <3>2 DEF ScatterInv, WorkNext
  <2>4. CASE ~AtWork
    <3>1. Cancelled(t) \/ CancelledAsError(t)
      BY <1>1, <2>2, <2>4 DEF Step, AtWork
    <3>2. Always'
      BY <2>1, <2>4, <3>1, CancelAlways DEF ScatterInv
    <3> QED BY <2>1, <2>2, <2>4, <3>2 DEF ScatterInv
  <2> QED BY <2>3, <2>4
<1>2. CASE UNCHANGED vars
  <2>1. /\ UNCHANGED <<main, pc, queued, indegrees, edges, completed, gathered>>
        /\ UNCHANGED <<streams, taskStreams, openStreams>>
    BY <1>2 DEF vars, graphVars, streamVars, gatherVars
  <2>2. \A u \in Tasks : (Running(u)' <=> Running(u)) /\ (Active(u)' <=> Active(u))
    BY <2>1 DEF Running, Active
  <2>3. \A u \in Tasks : Active(u)' => Active(u) /\ queued'[u] = (IF Running(u)' THEN 0 ELSE 1)
    BY <2>1, <2>2, ScatterAlways DEF Always, SingleDispatch
  <2>4. \A u \in Tasks : pc'[u] \in Awaits \cup {"idle", "start", "done"}
    BY <2>1 DEF TypeOK
  <2>5. CASE AtWork
    <3>1. WorkNext
      BY <2>1, <2>3, <2>4, <2>5, MainWork DEF ScatterInv
    <3> QED BY <2>1, <2>2, <2>5, <3>1 DEF ScatterInv, AtWork, WorkNext
  <2>6. CASE ~AtWork
    <3>1. Always'
      BY <2>1, <2>2, <2>3, <2>6, QuietAlways DEF ScatterInv
    <3> QED BY <2>1, <2>2, <2>6, <3>1 DEF ScatterInv, AtWork
  <2> QED BY <2>5, <2>6
<1> QED BY <1>1, <1>2, ScatterMain DEF Next, Terminated

\* It holds throughout.
LEMMA ScatterInvariant ==
  ASSUME Loopless, Contained
  PROVE  Spec => []Always
<1>1. Init => TypeOK /\ PcFits /\ ScatterInv
  BY InitType, ScatterInit
<1>2. TypeOK /\ PcFits /\ ScatterInv /\ [Next]_vars => (TypeOK /\ PcFits /\ ScatterInv)'
  BY NextType, ScatterNext
<1>3. TypeOK /\ PcFits /\ ScatterInv => Always
  BY ScatterAlways
<1> QED BY <1>1, <1>2, <1>3, PTL DEF Spec

\* A gather is a synchronisation barrier: when it puts its result together, no stream
\* of its scatter has the gather, or anything the gather waits for, still to run, and
\* no other coroutine does the same; also while the workflow is being cancelled.
THEOREM BarrierHolds ==
  ASSUME LoopStarts = {}, Contained
  PROVE  Spec => []GatherBarrier
<1>1. CASE Scatters = {}
  <2>1. TypeOK /\ PcFits => GatherBarrier
    <3>1. \A t \in Tasks : t[2] = Root
      BY <1>1, PlainGraph
    <3> QED BY <3>1 DEF PcFits, Fits, GatherBarrier
  <2>2. Init => TypeOK /\ PcFits
    BY InitType
  <2>3. TypeOK /\ PcFits /\ [Next]_vars => (TypeOK /\ PcFits)'
    BY NextType
  <2> QED BY <2>1, <2>2, <2>3, PTL DEF Spec
<1>2. CASE Scatters # {}
  <2>1. Loopless
    BY <1>2 DEF Loopless
  <2>2. Always => GatherBarrier
    BY DEF Always
  <2> QED BY <2>1, <2>2, ScatterInvariant, PTL
<1> QED BY <1>1, <1>2

\* The indegree counters never drift from the edge markers, in any stream.
THEOREM ScatteredCounters ==
  ASSUME LoopStarts = {}, Contained
  PROVE  Spec => []IndegreeAccounting
<1>1. CASE Scatters = {}
  BY <1>1, CountersExact, PTL
<1>2. CASE Scatters # {}
  <2>1. Loopless
    BY <1>2 DEF Loopless
  <2>2. Always => IndegreeAccounting
    BY DEF Always
  <2> QED BY <2>1, <2>2, ScatterInvariant, PTL
<1> QED BY <1>1, <1>2

\* No task waits or runs twice, in any stream, and one that does has every dependency
\* processed and none of its own outcomes published.
THEOREM ScatteredDispatch ==
  ASSUME LoopStarts = {}, Contained
  PROVE  Spec => []SingleDispatch
<1>1. CASE Scatters = {}
  BY <1>1, DispatchedOnce, PTL
<1>2. CASE Scatters # {}
  <2>1. Loopless
    BY <1>2 DEF Loopless
  <2>2. Always => SingleDispatch
    BY DEF Always
  <2> QED BY <2>1, <2>2, ScatterInvariant, PTL
<1> QED BY <1>1, <1>2

\* A task past its reachability check stays reachable, in any stream, whatever the
\* coroutines of other streams mark meanwhile.
THEOREM ScatteredReachability ==
  ASSUME LoopStarts = {}, Contained
  PROVE  Spec => []StaysReachable
<1>1. CASE Scatters = {}
  BY <1>1, ReachabilityKept, PTL
<1>2. CASE Scatters # {}
  <2>1. Loopless
    BY <1>2 DEF Loopless
  <2>2. Always => StaysReachable
    BY DEF Always
  <2> QED BY <2>1, <2>2, ScatterInvariant, PTL
<1> QED BY <1>1, <1>2
=============================================================================

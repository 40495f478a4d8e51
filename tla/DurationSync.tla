---------------------------- MODULE DurationSync ----------------------------
(***************************************************************************)
(* Asynchronous materialisation of case durations in one workspace: the    *)
(* publish that follows a commit and its inline fallback (sync_queue.py,   *)
(* session_events.py), the Redis stream with its consumer group, the       *)
(* consumers (consumer.py) and the locked sync of one case                 *)
(* (materialization.py).                                                   *)
(*                                                                         *)
(* What durations a case has is abstracted to versions: version[c] counts  *)
(* the committed changes that its duration rows depend on, synced[c] is    *)
(* the version the rows were computed from.                                *)
(***************************************************************************)
EXTENDS Integers, FiniteSets, FiniteSetsExt

CONSTANTS
  NCases,         \* cases 1..NCases, in the order of their surrogate ids
  Consumer,
  EventType,
  Definitions,    \* the event types that the definitions may use
  BackfillBatch,  \* cases of one backfill page
  SyncAttempts,   \* attempts of a consumer before it requeues
  InlineAttempts, \* attempts of the inline fallback
  MaxEvents,      \* bound on changes and faults together
  MaxCopies,      \* bound on equal jobs in the stream
  None

Case == 1..NCases
Task == 1..MaxEvents        \* after-commit callbacks, one per change
Worker == Consumer \cup Task

Event(c, ty) == [kind |-> "event", case |-> c, type |-> ty]
CaseJob(c) == [kind |-> "case", case |-> c, type |-> None]
Cursor(c)  == [kind |-> "cursor", case |-> c, type |-> None]
Definition == [kind |-> "definition", case |-> 0, type |-> None]

Job == {Event(c, ty) : c \in Case, ty \in EventType} \cup {CaseJob(c) : c \in Case}
         \cup {Cursor(c) : c \in Case} \cup {Definition}

\* A stream entry: equal jobs are told apart by a number, which stands for the
\* message id.
Entry == [job : Job, n : 1..MaxCopies]

ASSUME SyncConstants ==
  /\ {NCases, MaxEvents} \subseteq Nat \ {0} /\ MaxCopies \in Nat
  /\ {BackfillBatch, SyncAttempts, InlineAttempts} \subseteq Nat \ {0}
  /\ Definitions \subseteq SUBSET EventType /\ Definitions # {}
  /\ Consumer \cap Int = {}
  /\ None \notin Consumer \cup EventType \cup Int \cup {"pending", "done"}

VARIABLES
  version, synced, defs,  \* the database
  lock,                   \* case -> worker whose transaction holds its lock
  new, pending,           \* stream entries to deliver, delivered and not acked
  marker,                 \* rollout marker: None, "pending", "done"
  con,                    \* consumers
  task,                   \* after-commit callbacks
  changes, faults,
  lost                    \* cases whose sync was given up

dbVars == <<version, synced, defs>>
stream == <<new, pending>>
vars == <<dbVars, lock, stream, marker, con, task, changes, faults, lost>>

IdleConsumer ==
  [pc |-> "idle", batch |-> {}, job |-> None, acks |-> {}, types |-> {}, out |-> {},
   tries |-> 0, read |-> 0]
IdleTask == [pc |-> "none", job |-> None, todo |-> {}, missed |-> FALSE,
             tries |-> 0, read |-> 0]

TypeOK ==
  /\ version \in [Case -> Nat] /\ synced \in [Case -> Nat]
  /\ \A c \in Case : synced[c] <= version[c]
  /\ defs \in Definitions
  /\ lock \in [Case -> Worker \cup {None}]
  /\ new \subseteq Entry /\ pending \subseteq Entry /\ new \cap pending = {}
  /\ marker \in {None, "pending", "done"}
  /\ \A w \in Consumer :
       /\ con[w].pc \in {"idle", "rollout", "mark", "page", "sync",
                         "computed", "requeue", "ack"}
       /\ con[w].batch \cup con[w].acks \subseteq Entry
       /\ con[w].job \in Job \cup {None}
       /\ con[w].out \subseteq Job /\ con[w].tries \in 0..SyncAttempts
  /\ \A i \in Task :
       /\ task[i].pc \in {"none", "publish", "inline", "computed", "over"}
       /\ task[i].todo \subseteq Case /\ task[i].tries \in 0..InlineAttempts
  /\ changes \in 0..MaxEvents /\ faults \in 0..MaxEvents
  /\ lost \subseteq Case

\* A deployment whose durations are not materialised yet, which counts as a
\* change, or one whose rollout is behind it.
Init ==
  /\ marker \in {None, "done"}
  /\ changes = IF marker = None THEN 1 ELSE 0
  /\ version = [c \in Case |-> changes] /\ synced = [c \in Case |-> 0]
  /\ defs \in Definitions
  /\ lock = [c \in Case |-> None]
  /\ new = {} /\ pending = {}
  /\ con = [w \in Consumer |-> IdleConsumer]
  /\ task = [i \in Task |-> IdleTask]
  /\ faults = 0 /\ lost = {}

Fault == changes + faults < MaxEvents /\ faults' = faults + 1

-----------------------------------------------------------------------------
(* The stream.                                                             *)

InHand == UNION {con[w].batch \cup con[w].acks : w \in Consumer}

\* A fresh entry: Redis never gives an id twice.
Publish(j) ==
  LET used == {e.n : e \in {f \in new \cup pending \cup InHand : f.job = j}}
  IN /\ used # 1..MaxCopies
     /\ new' = new \cup {[job |-> j, n |-> Min((1..MaxCopies) \ used)]}
     /\ UNCHANGED pending

-----------------------------------------------------------------------------
(* Syncing one case.                                                       *)

\* An empty set of event types stands for an unconditional sync.
RequiresSync(types) == types = {} \/ types \cap defs # {}

\* The transaction reads what it computes from at some time after it got the
\* lock; the earliest is modelled.
Computed(c, w) == lock' = [lock EXCEPT ![c] = w]

SyncedTo(c, v) ==
  /\ synced' = [synced EXCEPT ![c] = v]
  /\ lock' = [lock EXCEPT ![c] = None]

-----------------------------------------------------------------------------
(* Changes and their after-commit callbacks.                               *)

NewTask(j, C) ==
  /\ changes + faults < MaxEvents /\ changes' = changes + 1
  /\ task' = [task EXCEPT ![changes'] = [IdleTask EXCEPT !.pc = "publish", !.job = j,
                                                         !.todo = C]]

CaseEvent(c, ty) ==
  /\ NewTask(Event(c, ty), {c})
  /\ version' = IF ty \in defs THEN [version EXCEPT ![c] = @ + 1] ELSE version
  /\ UNCHANGED <<synced, defs, lock, stream, marker, con, faults, lost>>

ChangeDefinitions(D) ==
  /\ D # defs /\ defs' = D
  /\ NewTask(Definition, Case)
  /\ version' = [c \in Case |-> version[c] + 1]
  /\ UNCHANGED <<synced, lock, stream, marker, con, faults, lost>>

InlineScope(i) == IF task[i].job = Definition THEN Case ELSE {task[i].job.case}

TaskOver(i) == task' = [task EXCEPT ![i] = [IdleTask EXCEPT !.pc = "over"]]

PublishChange(i) ==
  /\ task[i].pc = "publish"
  /\ Publish(task[i].job)
  /\ TaskOver(i)
  /\ UNCHANGED <<dbVars, lock, marker, con, changes, faults, lost>>

PublishFails(i) ==
  /\ task[i].pc = "publish"
  /\ task' = [task EXCEPT ![i].pc = "inline"]
  /\ UNCHANGED <<dbVars, lock, stream, marker, con, changes, faults, lost>>

\* The process dies before the callback is through.
ProcessDies(i) ==
  /\ task[i].pc \in {"publish", "inline", "computed"} /\ Fault
  /\ lost' = lost \cup InlineScope(i)
  /\ lock' = [c \in Case |-> IF lock[c] = i THEN None ELSE lock[c]]
  /\ TaskOver(i)
  /\ UNCHANGED <<dbVars, stream, marker, con, changes>>

InlineTypes(i) == IF task[i].job = Definition THEN {} ELSE {task[i].job.type}

\* One pass is over: done, tried again, or given up.
EndPass(i, missed) ==
  IF ~ missed THEN TaskOver(i) /\ UNCHANGED lost
  ELSE IF task[i].tries + 1 < InlineAttempts
  THEN /\ task' = [task EXCEPT ![i].tries = @ + 1, ![i].pc = "inline",
                               ![i].todo = InlineScope(i), ![i].missed = FALSE]
       /\ UNCHANGED lost
  ELSE TaskOver(i) /\ lost' = lost \cup InlineScope(i)

NextCase(i, c, missed) ==
  IF task[i].todo = {c} THEN EndPass(i, missed)
  ELSE /\ task' = [task EXCEPT ![i].todo = @ \ {c}, ![i].missed = missed,
                               ![i].pc = "inline"]
       /\ UNCHANGED lost

\* The fallback takes its cases in order: skipped, locked out or computed.
InlineSync(i) ==
  LET c == Min(task[i].todo)
  IN /\ task[i].pc = "inline"
     /\ IF ~ RequiresSync(InlineTypes(i))
        THEN NextCase(i, c, task[i].missed) /\ UNCHANGED lock
        ELSE IF lock[c] # None
        THEN NextCase(i, c, TRUE) /\ UNCHANGED lock
        ELSE /\ Computed(c, i)
             /\ task' = [task EXCEPT ![i].pc = "computed", ![i].read = version[c]]
             /\ UNCHANGED lost
     /\ UNCHANGED <<dbVars, stream, marker, con, changes, faults>>

InlineCommit(i) ==
  LET c == Min(task[i].todo)
  IN /\ task[i].pc = "computed"
     /\ SyncedTo(c, task[i].read)
     /\ NextCase(i, c, task[i].missed)
     /\ UNCHANGED <<version, defs, stream, marker, con, changes, faults>>

\* An exception ends the pass.
InlineError(i) ==
  LET c == Min(task[i].todo)
  IN /\ task[i].pc = "computed"
     /\ lock' = [lock EXCEPT ![c] = None]
     /\ EndPass(i, TRUE)
     /\ UNCHANGED <<dbVars, stream, marker, con, changes, faults>>

-----------------------------------------------------------------------------
(* The consumers.                                                          *)

Set(w, r) == con' = [con EXCEPT ![w] = r]
At(w, pc) == con[w].pc = pc

\* The page of cases after k, and a cursor if it is full.
PageJobs(k) ==
  LET P == {c \in Case : c > k /\ c <= k + BackfillBatch}
  IN {CaseJob(c) : c \in P} \cup
       (IF Cardinality(P) = BackfillBatch THEN {Cursor(Max(P))} ELSE {})

\* Variant: a backfill entry does not force the sync of coalesced events.
TypesIgnoringForce(E) == {e.job.type : e \in E} \ {None}

\* The event types of coalesced entries; one backfill entry forces the sync.
TypesOf(E) ==
  IF \E e \in E : e.job.kind = "case" THEN {} ELSE {e.job.type : e \in E}

\* The entries E of batch B are taken up as the work j.
PageWork(B, E, j) ==
  [IdleConsumer EXCEPT
     !.pc = IF PageJobs(j.case) = {} THEN "ack" ELSE "page", !.batch = B \ E,
     !.acks = E, !.job = j, !.out = PageJobs(j.case)]
CaseWork(B, E, c) ==
  [IdleConsumer EXCEPT
     !.pc = "sync", !.batch = B \ E, !.acks = E, !.job = CaseJob(c),
     !.types = TypesOf(E)]

\* _handle_entries: a cursor, else the definition jobs as one, else the entries
\* of one case; with nothing left, back to the loop.
NextWork(B) ==
  LET Of(kind) == {e \in B : e.job.kind = kind}
      case == Min({e.job.case : e \in B})
  IN IF B = {} THEN IdleConsumer
     ELSE IF Of("cursor") # {}
     THEN LET e == CHOOSE e \in Of("cursor") : TRUE IN PageWork(B, {e}, e.job)
     ELSE IF Of("definition") # {}
     THEN PageWork(B, Of("definition"), Definition)
     ELSE CaseWork(B, {e \in B : e.job.case = case}, case)

\* enqueue_rollout_backfill_once: the lease, the stream, the permanent marker.
\* (A replica that has seen the marker set stops asking, and nothing within the
\* bounds unsets it.)
TakeLease(w) ==
  /\ At(w, "idle") /\ marker = None
  /\ marker' = "pending" /\ Set(w, [con[w] EXCEPT !.pc = "rollout"])
  /\ UNCHANGED <<dbVars, lock, stream, task, changes, faults, lost>>

RolloutPublish(w) ==
  /\ At(w, "rollout")
  /\ Publish(Definition)
  /\ Set(w, [con[w] EXCEPT !.pc = "mark"])
  /\ UNCHANGED <<dbVars, lock, marker, task, changes, faults, lost>>

RolloutFails(w) ==
  /\ At(w, "rollout") /\ Fault
  /\ marker' = None /\ Set(w, [con[w] EXCEPT !.pc = "idle"])
  /\ UNCHANGED <<dbVars, lock, stream, task, changes, lost>>

RolloutMark(w) ==
  /\ At(w, "mark")
  /\ marker' = "done" /\ Set(w, [con[w] EXCEPT !.pc = "idle"])
  /\ UNCHANGED <<dbVars, lock, stream, task, changes, faults, lost>>

InRollout == \E w \in Consumer : con[w].pc \in {"rollout", "mark"}

\* The lease expires; while its replica is still at work only if that is slow.
LeaseLapses ==
  /\ marker = "pending" /\ marker' = None
  /\ ~ InRollout /\ UNCHANGED faults
  /\ UNCHANGED <<dbVars, lock, stream, con, task, changes, lost>>

SlowLease ==
  /\ marker = "pending" /\ marker' = None
  /\ InRollout /\ Fault
  /\ UNCHANGED <<dbVars, lock, stream, con, task, changes, lost>>

NothingIdle == {}                            \* variant: nothing is claimed
Idle == pending \ InHand

Deliver(w, B) ==
  /\ B # {}
  /\ new' = new \ B /\ pending' = pending \cup B
  /\ Set(w, NextWork(B))
  /\ UNCHANGED <<dbVars, lock, marker, task, changes, lost>>

\* All new entries, as long as they are fewer than the batch size.  A replica
\* that waits for another one's lease reads as well.
ReadGroup(w) == At(w, "idle") /\ Deliver(w, new) /\ UNCHANGED faults

\* _claim_idle_messages: what was left pending by any consumer, this one too.
ClaimIdle(w) == At(w, "idle") /\ Deliver(w, Idle) /\ UNCHANGED faults

\* Entries that a consumer has in hand count as idle when it is slow.
ClaimFromSlow(w, v) ==
  /\ At(w, "idle") /\ Fault
  /\ Deliver(w, pending \cap (con[v].batch \cup con[v].acks))

\* _process_backfill_job publishes its page job by job.
PublishPage(w) ==
  LET out == con[w].out
      case == {j \in out : j.kind = "case"}
  IN /\ At(w, "page")
     /\ \E j \in IF case # {} THEN case ELSE out :
          /\ Publish(j)
          /\ Set(w, [con[w] EXCEPT !.out = @ \ {j},
                                   !.pc = IF out = {j} THEN "ack" ELSE "page"])
     /\ UNCHANGED <<dbVars, lock, marker, task, changes, faults, lost>>

Unbounded(w) ==   \* variant: the attempts are not counted out
  [con[w] EXCEPT !.tries = @ + 1, !.pc = IF con[w].job.kind = "case" THEN "sync" ELSE "page"]

\* An attempt failed: the next one, or the work is queued anew.
Failed(w) ==
  IF con[w].tries + 1 = SyncAttempts
  THEN [con[w] EXCEPT !.pc = "requeue"]
  ELSE IF con[w].job.kind = "case"
  THEN [con[w] EXCEPT !.pc = "sync", !.tries = @ + 1, !.read = 0]
  ELSE [con[w] EXCEPT !.pc = "page", !.tries = @ + 1, !.out = PageJobs(con[w].job.case)]

PageFails(w) ==
  /\ At(w, "page") /\ Fault
  /\ Set(w, Failed(w))
  /\ UNCHANGED <<dbVars, lock, stream, marker, task, changes, lost>>

\* sync_case_duration: skipped, locked out, or computed.
SyncCase(w) ==
  LET c == con[w].job.case
  IN /\ At(w, "sync")
     /\ IF ~ RequiresSync(con[w].types)
        THEN Set(w, [con[w] EXCEPT !.pc = "ack"]) /\ UNCHANGED lock
        ELSE IF lock[c] # None
        THEN Set(w, Failed(w)) /\ UNCHANGED lock
        ELSE /\ Computed(c, w)
             /\ Set(w, [con[w] EXCEPT !.pc = "computed", !.read = version[c]])
     /\ UNCHANGED <<dbVars, stream, marker, task, changes, faults, lost>>

CommitCase(w) ==
  /\ At(w, "computed")
  /\ SyncedTo(con[w].job.case, con[w].read)
  /\ Set(w, [con[w] EXCEPT !.pc = "ack"])
  /\ UNCHANGED <<version, defs, stream, marker, task, changes, faults, lost>>

SyncError(w) ==
  /\ At(w, "computed") /\ Fault
  /\ lock' = [lock EXCEPT ![con[w].job.case] = None]
  /\ Set(w, Failed(w))
  /\ UNCHANGED <<dbVars, stream, marker, task, changes, lost>>

Requeue(w) ==
  /\ At(w, "requeue")
  /\ Publish(con[w].job)
  /\ Set(w, [con[w] EXCEPT !.pc = "ack"])
  /\ UNCHANGED <<dbVars, lock, marker, task, changes, faults, lost>>

\* Not acknowledged: the entries stay pending.
RequeueFails(w) ==
  /\ At(w, "requeue")
  /\ Set(w, NextWork(con[w].batch))
  /\ UNCHANGED <<dbVars, lock, stream, marker, task, changes, faults, lost>>

AckAndDelete(w) ==
  /\ At(w, "ack")
  /\ new' = new \ con[w].acks /\ pending' = pending \ con[w].acks
  /\ Set(w, NextWork(con[w].batch))
  /\ UNCHANGED <<dbVars, lock, marker, task, changes, faults, lost>>

\* The acknowledgement fails: the loop drops the rest of the batch.
AckFails(w) ==
  /\ At(w, "ack") /\ Fault
  /\ Set(w, IdleConsumer)
  /\ UNCHANGED <<dbVars, lock, stream, marker, task, changes, lost>>

\* The consumer's process dies and is started again.
Crash(w) ==
  /\ Fault
  /\ Set(w, IdleConsumer) /\ con' # con
  /\ lock' = [c \in Case |-> IF lock[c] = w THEN None ELSE lock[c]]
  /\ UNCHANGED <<dbVars, stream, marker, task, changes, lost>>

\* The consumer group is gone; _ensure_group starts it at the first entry.
GroupRecreated ==
  /\ Fault /\ pending # {}
  /\ new' = new \cup pending /\ pending' = {}
  /\ UNCHANGED <<dbVars, lock, marker, con, task, changes, lost>>

-----------------------------------------------------------------------------
Change ==
  \/ \E c \in Case, ty \in EventType : CaseEvent(c, ty)
  \/ \E D \in Definitions : ChangeDefinitions(D)

Callback(i) == PublishChange(i) \/ InlineSync(i) \/ InlineCommit(i)

Consume(w) ==
  \/ TakeLease(w) \/ RolloutPublish(w) \/ RolloutMark(w)
  \/ ReadGroup(w)
  \/ PublishPage(w) \/ SyncCase(w) \/ CommitCase(w) \/ Requeue(w) \/ AckAndDelete(w)

Faulty ==
  \/ \E i \in Task : PublishFails(i) \/ ProcessDies(i) \/ InlineError(i)
  \/ \E w \in Consumer : \/ RolloutFails(w) \/ PageFails(w) \/ SyncError(w)
                         \/ RequeueFails(w) \/ AckFails(w) \/ Crash(w)
                         \/ \E v \in Consumer : ClaimFromSlow(w, v)
  \/ SlowLease \/ GroupRecreated

Next ==
  \/ Change \/ \E i \in Task : Callback(i)
  \/ \E w \in Consumer : Consume(w) \/ ClaimIdle(w)
  \/ LeaseLapses \/ Faulty

Spec == Init /\ [][Next]_vars

\* Callbacks and consumers run, an idle consumer comes round to claiming what
\* stays pending, and a lease lapses; nobody has to change anything.
Fairness ==
  /\ \A i \in Task : WF_vars(Callback(i))
  /\ \A w \in Consumer : WF_vars(Consume(w)) /\ SF_vars(ClaimIdle(w))
  /\ WF_vars(LeaseLapses)

FairSpec == Spec /\ Fairness

-----------------------------------------------------------------------------
(* Properties.                                                             *)

\* Job j leads to a sync of case c.
Covers(j, c) ==
  \/ j.kind = "definition"
  \/ j.kind = "cursor" /\ j.case < c
  \/ j.kind = "case" /\ j.case = c
  \/ j.kind = "event" /\ j.case = c /\ j.type \in defs

\* A committed change that the duration rows do not show yet is still in
\* somebody's hands: in the stream, in an after-commit callback or in the
\* rollout; unless a callback gave up on the case or died.  Lock contention,
\* coalescing, duplicates, crashes and requeues lose none.
NoLostChange ==
  \A c \in Case \ lost : synced[c] < version[c] =>
    \/ \E e \in new \cup pending : Covers(e.job, c)
    \/ \E i \in Task : task[i].pc \in {"publish", "inline", "computed"}
                       /\ Covers(task[i].job, c)
    \/ marker # "done"

\* The rows catch up with every change, or a callback gave up on the case.
EventuallySynced ==
  \A c \in Case : synced[c] < version[c] ~> synced[c] = version[c] \/ c \in lost
=============================================================================

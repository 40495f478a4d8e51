---------------------------- MODULE CaseTriggers ----------------------------
(***************************************************************************)
(* Workflows started by one case event: the publish that follows its       *)
(* commit (cases/events.py, cases/service.py, triggers/publisher.py), the  *)
(* Redis stream with its consumer group, and the consumers that take a     *)
(* lock per event and workflow, start the workflow and leave a done marker *)
(* (triggers/consumer.py).                                                 *)
(*                                                                         *)
(* The event may come from a comment that names a workflow, `explicit`,    *)
(* which is started under an execution id fixed by the comment.            *)
(***************************************************************************)
EXTENDS Naturals, FiniteSetsExt

CONSTANTS
  Consumer,
  Workflow,
  Explicit,      \* workflows a comment may name, and None
  Configured,    \* workflows with an online trigger for the event
  Definitions,   \* what the published definitions may be
  NMessages,     \* stream entries of the event: a publish may be repeated
  MaxExtra,      \* repeated publishes and claims from a slow consumer
  MaxFaults,     \* errors, crashes and expiries
  None

Message == 1..NMessages

ASSUME TriggerConstants ==
  /\ Configured \subseteq Workflow /\ None \notin Workflow
  /\ None \notin {"running", "failed"}
  /\ Explicit \subseteq Workflow \cup {None} /\ Explicit # {}
  /\ Definitions \subseteq [Workflow -> {"valid", "missing", "invalid"}]
  /\ NMessages \in Nat \ {0} /\ MaxExtra \in Nat /\ MaxFaults \in Nat

VARIABLES
  \* the event and the database
  explicit, entitled,
  origin,        \* "workflow" stands also for an event or case that is gone
  defn,          \* published definition per workflow
  online,        \* triggers that are online
  status,        \* workflow_status of the comment
  \* Redis: stream entries, markers and locks of the event
  msg, done, lock,
  con,
  begun,         \* Temporal has the execution of the comment's workflow
  dispatched,    \* starts made per consumer and workflow (auxiliary)
  extra, faults

eventVars == <<explicit, origin, entitled, defn>>
dbVars    == <<online, status>>
redisVars == <<msg, done, lock>>
runVars   == <<begun, dispatched>>
vars == <<eventVars, dbVars, redisVars, con, runVars, extra, faults>>

IdleConsumer ==
  [pc |-> "idle", batch |-> {}, msg |-> 0, cur |-> None, todo |-> {}, ack |-> TRUE,
   off |-> {}, failed |-> FALSE]

TypeOK ==
  /\ explicit \in Explicit /\ origin \in {"user", "workflow"} /\ entitled \in BOOLEAN
  /\ defn \in Definitions
  /\ online \subseteq Configured /\ done \cup lock \subseteq Workflow
  /\ status \in {None, "running", "failed"} /\ (status # None <=> explicit # None)
  /\ msg \in [Message -> {"none", "new", "pending", "acked", "lost"}]
  /\ \A w \in Consumer :
       /\ con[w].pc \in {"idle", "begin", "lock", "dispatch", "flushed", "mark", "raise",
                         "unlock", "next", "ack", "stopped"}
       /\ con[w].batch \subseteq Message
       /\ con[w].pc \notin {"idle", "stopped"} => msg[con[w].msg] \notin {"none", "new"}
       /\ con[w].pc \in {"lock", "dispatch", "flushed", "mark", "raise", "unlock"}
            => con[w].cur \in Workflow
       /\ con[w].todo \subseteq Configured \ {explicit}
       /\ con[w].off \subseteq Configured \ {explicit}
  /\ begun \in BOOLEAN /\ dispatched \in [Consumer -> [Workflow -> Nat]]
  /\ extra \in 0..MaxExtra /\ faults \in 0..MaxFaults

\* The event is committed and not published.
Init ==
  /\ explicit \in Explicit /\ origin \in {"user", "workflow"} /\ entitled \in BOOLEAN
  /\ explicit # None => origin = "user"
  /\ defn \in Definitions
  /\ online = Configured
  /\ status = IF explicit = None THEN None ELSE "running"
  /\ msg = [m \in Message |-> "none"] /\ done = {} /\ lock = {}
  /\ con = [w \in Consumer |-> IdleConsumer]
  /\ begun = FALSE /\ dispatched = [w \in Consumer |-> [wf \in Workflow |-> 0]]
  /\ extra = 0 /\ faults = 0

Fault == faults < MaxFaults /\ faults' = faults + 1
Extra == extra < MaxExtra /\ extra' = extra + 1

-----------------------------------------------------------------------------
(* Publishing.                                                             *)

Unpublished == \A m \in Message : msg[m] = "none"

Add(m) == msg' = [msg EXCEPT ![m] = "new"]

PublishEvent ==
  /\ Unpublished /\ status # "failed" /\ Add(1)
  /\ UNCHANGED <<eventVars, dbVars, done, lock, con, runVars, extra, faults>>

\* xadd is tried again although its first entry was stored.
PublishRepeated(m) ==
  /\ ~ Unpublished /\ msg[m] = "none" /\ Extra /\ Add(m)
  /\ UNCHANGED <<eventVars, dbVars, done, lock, con, runVars, faults>>

\* The publish fails for good.  A comment is marked, with or without an entry
\* stored; a plain event is only logged.
PublishFails ==
  /\ explicit # None /\ status = "running" /\ Unpublished /\ Fault
  /\ status' = "failed"
  /\ \/ Add(1) \/ UNCHANGED msg
  /\ UNCHANGED <<eventVars, online, done, lock, con, runVars, extra>>

-----------------------------------------------------------------------------
(* The consumer's loop.                                                    *)

Set(w, r) == con' = [con EXCEPT ![w] = r]
At(w, pc) == con[w].pc = pc
Goto(w, pc) == Set(w, [con[w] EXCEPT !.pc = pc])

InHand(w) == IF At(w, "idle") \/ At(w, "stopped") THEN {}
             ELSE con[w].batch \cup {con[w].msg}

\* The entries of a batch are handled in order; then back to the loop.
Handle(B) ==
  IF B = {} THEN IdleConsumer
  ELSE [IdleConsumer EXCEPT !.pc = "begin", !.msg = Min(B), !.batch = B \ {Min(B)}]

Deliver(w, M) ==
  /\ At(w, "idle") /\ M # {}
  /\ msg' = [m \in Message |-> IF m \in M THEN "pending" ELSE msg[m]]
  /\ Set(w, Handle(M))
  /\ UNCHANGED <<eventVars, dbVars, done, lock, runVars>>

New == {m \in Message : msg[m] = "new"}
Pending == {m \in Message : msg[m] = "pending"}

ReadGroup(w) == Deliver(w, New) /\ UNCHANGED <<extra, faults>>

NothingIdle == {}                                   \* variant: nothing is claimed
Idle == Pending \ UNION {InHand(v) : v \in Consumer}

\* _claim_idle_messages, after a read that returned nothing.
ClaimIdle(w) == New = {} /\ Deliver(w, Idle) /\ UNCHANGED <<extra, faults>>

ClaimFromSlow(w, v) ==
  /\ New = {} /\ Extra /\ Deliver(w, Pending \cap InHand(v))
  /\ UNCHANGED faults

\* _ensure_group recreates a lost group behind the last entry of the stream.
GroupRecreated ==
  /\ Fault /\ New \cup Pending # {}
  /\ msg' = [m \in Message |-> IF m \in New \cup Pending THEN "lost" ELSE msg[m]]
  /\ UNCHANGED <<eventVars, dbVars, done, lock, con, runVars, extra>>

-----------------------------------------------------------------------------
(* _process_message.                                                       *)

AllTriggers == online \cap Configured               \* variant: the comment's too
DueTriggers == (online \cap Configured) \ {explicit}

\* The configured triggers are loaded, where the organisation may use them.
Loaded(r) ==
  [r EXCEPT !.pc = "next", !.todo = IF entitled THEN DueTriggers ELSE {}]

\* An event made by a workflow is acknowledged and no more; else the workflow of a
\* comment comes first, unless its marker is there.
Begin(w) ==
  LET r == con[w]
  IN /\ At(w, "begin")
     /\ Set(w, IF origin = "workflow" THEN [r EXCEPT !.pc = "ack"]
               ELSE IF explicit = None \/ explicit \in done THEN Loaded(r)
               ELSE [r EXCEPT !.pc = "lock", !.cur = explicit])
     /\ UNCHANGED <<eventVars, dbVars, redisVars, runVars, extra, faults>>

\* exists(done_key) of the next trigger
CheckDone(w, wf) ==
  LET r == [con[w] EXCEPT !.todo = @ \ {wf}]
  IN /\ At(w, "next") /\ wf \in con[w].todo
     /\ Set(w, IF wf \in done THEN r ELSE [r EXCEPT !.pc = "lock", !.cur = wf])
     /\ UNCHANGED <<eventVars, dbVars, redisVars, runVars, extra, faults>>

\* Workflow cur is through: on to the triggers, or to the next one.
After(r) == IF r.cur = explicit THEN Loaded(r) ELSE [r EXCEPT !.pc = "next"]

RefusedQuietly(r) == After(r)                       \* variant: acknowledged anyway
Refused(r) == After([r EXCEPT !.ack = FALSE])

TakeLock(w) ==
  LET r == con[w]
  IN /\ At(w, "lock")
     /\ lock' = lock \cup {r.cur}
     /\ Set(w, IF r.cur \in lock THEN Refused(r) ELSE [r EXCEPT !.pc = "dispatch"])
     /\ UNCHANGED <<eventVars, dbVars, msg, done, runVars, extra, faults>>

\* set_if_not_exists is tried again and finds its own key: a lock of nobody.
LockReplyLost(w) ==
  LET r == con[w]
  IN /\ At(w, "lock") /\ r.cur \notin lock /\ Fault
     /\ lock' = lock \cup {r.cur}
     /\ Set(w, Refused(r))
     /\ UNCHANGED <<eventVars, dbVars, msg, done, runVars, extra>>

Counted(w) == [dispatched EXCEPT ![w][con[w].cur] = @ + 1]

\* _dispatch_selected_workflow.  Invalid content raises; Temporal refuses an
\* execution id that was used.
DispatchExplicit(w) ==
  LET r == con[w]
  IN /\ At(w, "dispatch") /\ r.cur = explicit
     /\ Set(w, CASE defn[r.cur] = "invalid" -> [r EXCEPT !.pc = "raise"]
                 [] defn[r.cur] = "missing" -> [r EXCEPT !.pc = "flushed", !.failed = TRUE]
                 [] OTHER -> [r EXCEPT !.pc = "flushed"])
     /\ begun' = (begun \/ defn[r.cur] = "valid")
     /\ dispatched' = IF begun' /\ ~ begun THEN Counted(w) ELSE dispatched
     /\ UNCHANGED <<eventVars, dbVars, redisVars, extra, faults>>

\* The start fails or its reply is lost: the comment is marked.
ExplicitStartFails(w) ==
  LET r == con[w]
  IN /\ At(w, "dispatch") /\ r.cur = explicit /\ defn[r.cur] = "valid" /\ Fault
     /\ Set(w, [r EXCEPT !.pc = "flushed", !.failed = TRUE])
     /\ begun' \in {begun, TRUE}
     /\ UNCHANGED <<eventVars, dbVars, redisVars, dispatched, extra>>

\* The commit before the marker of a comment's workflow.
CommitExplicit(w) ==
  LET r == con[w]
  IN /\ At(w, "flushed")
     /\ status' = IF r.failed THEN "failed" ELSE status
     /\ Goto(w, "mark")
     /\ UNCHANGED <<eventVars, online, redisVars, runVars, extra, faults>>

\* _dispatch_workflow: the start is left to a background task, whose failure is
\* only logged; a trigger without a current, valid definition goes offline.
DispatchTrigger(w) ==
  LET r == con[w]
  IN /\ At(w, "dispatch") /\ r.cur # explicit
     /\ IF defn[r.cur] = "valid"
        THEN dispatched' = Counted(w) /\ Goto(w, "mark")
        ELSE /\ Set(w, [r EXCEPT !.pc = "mark", !.off = @ \cup {r.cur}])
             /\ UNCHANGED dispatched
     /\ UNCHANGED <<eventVars, dbVars, redisVars, begun, extra, faults>>

Unmarked(w) == UNCHANGED done                       \* variant
MarkDone(w) == done' = done \cup {con[w].cur}

Mark(w) ==
  /\ At(w, "mark") /\ MarkDone(w)
  /\ Goto(w, "unlock")
  /\ UNCHANGED <<eventVars, dbVars, msg, lock, runVars, extra, faults>>

\* finally: the lock is deleted by its key, whoever holds it now.  What the
\* comment's workflow raised goes on to _handle_message.
Unlock(w) ==
  LET r == con[w]
  IN /\ At(w, "unlock") \/ At(w, "raise")
     /\ lock' = lock \ {r.cur}
     /\ Set(w, IF At(w, "raise") THEN Handle(r.batch) ELSE After(r))
     /\ UNCHANGED <<eventVars, dbVars, msg, done, runVars, extra, faults>>

\* The final commit; the entry stays pending unless every workflow was done.
Commit(w) ==
  LET r == con[w]
  IN /\ At(w, "next") /\ r.todo = {}
     /\ online' = online \ r.off
     /\ Set(w, IF r.ack THEN [r EXCEPT !.pc = "ack"] ELSE Handle(r.batch))
     /\ UNCHANGED <<eventVars, status, redisVars, runVars, extra, faults>>

Acked(m) == IF msg[m] = "pending" THEN "acked" ELSE msg[m]

Acknowledge(w) ==
  LET r == con[w]
  IN /\ At(w, "ack")
     /\ msg' = [msg EXCEPT ![r.msg] = Acked(r.msg)]
     /\ Set(w, Handle(r.batch))
     /\ UNCHANGED <<eventVars, dbVars, done, lock, runVars, extra, faults>>

-----------------------------------------------------------------------------
(* Faults.                                                                 *)

\* A call to Redis, the database or Temporal raises.  A trigger's own block
\* catches what dispatch and marker raise; an error of the loop itself ends
\* the consumer; anything else ends the message.
Error(w) ==
  LET r == con[w]
      caught == r.cur # explicit
  IN /\ Fault
     /\ CASE r.pc \in {"idle", "ack"} -> Set(w, [IdleConsumer EXCEPT !.pc = "stopped"])
          [] r.pc \in {"dispatch", "mark"} /\ caught ->
               Set(w, [r EXCEPT !.pc = "unlock", !.ack = FALSE])
          [] r.pc \in {"dispatch", "flushed", "mark"} /\ ~ caught -> Goto(w, "raise")
          [] r.pc \in {"begin", "next", "lock", "unlock", "raise"} ->
               Set(w, Handle(r.batch))
          [] OTHER -> FALSE
     /\ UNCHANGED <<eventVars, dbVars, redisVars, runVars, extra>>

\* The process dies and is started again.
Crash(w) ==
  /\ Fault
  /\ Set(w, IdleConsumer) /\ con' # con
  /\ UNCHANGED <<eventVars, dbVars, redisVars, runVars, extra>>

InSection(w, wf) ==
  con[w].pc \in {"dispatch", "flushed", "mark", "unlock", "raise"} /\ con[w].cur = wf

Guarded(wf) == \E w \in Consumer : InSection(w, wf)

\* A lock that an error or a crash left behind expires, ...
ExpireLock(wf) ==
  /\ wf \in lock /\ ~ Guarded(wf) /\ lock' = lock \ {wf}
  /\ UNCHANGED <<eventVars, dbVars, msg, done, con, runVars, extra, faults>>

\* ... one in use only when its consumer is slow, ...
ExpireSlowLock(wf) ==
  /\ wf \in lock /\ Guarded(wf) /\ Fault /\ lock' = lock \ {wf}
  /\ UNCHANGED <<eventVars, dbVars, msg, done, con, runVars, extra>>

\* ... and a marker after hours.
ExpireDone(wf) ==
  /\ wf \in done /\ Fault /\ done' = done \ {wf}
  /\ UNCHANGED <<eventVars, dbVars, msg, lock, con, runVars, extra>>

-----------------------------------------------------------------------------
Consume(w) ==
  \/ ReadGroup(w) \/ Begin(w)
  \/ \E wf \in Workflow : CheckDone(w, wf)
  \/ TakeLock(w) \/ DispatchExplicit(w) \/ CommitExplicit(w) \/ DispatchTrigger(w)
  \/ Mark(w) \/ Unlock(w) \/ Commit(w) \/ Acknowledge(w)

Faulty ==
  \/ PublishFails \/ GroupRecreated
  \/ \E w \in Consumer : LockReplyLost(w) \/ ExplicitStartFails(w) \/ Error(w) \/ Crash(w)
  \/ \E wf \in Workflow : ExpireSlowLock(wf) \/ ExpireDone(wf)

Next ==
  \/ PublishEvent \/ \E m \in Message : PublishRepeated(m)
  \/ \E w \in Consumer : Consume(w) \/ ClaimIdle(w)
  \/ \E w, v \in Consumer : ClaimFromSlow(w, v)
  \/ \E wf \in Workflow : ExpireLock(wf)
  \/ Faulty

Spec == Init /\ [][Next]_vars

\* A consumer that runs goes on, and comes round to claiming what stays
\* pending; locks expire.  Nothing restarts a consumer.
Fairness ==
  /\ \A w \in Consumer : WF_vars(Consume(w)) /\ SF_vars(ClaimIdle(w))
  /\ WF_vars(\E wf \in Workflow : ExpireLock(wf))

FairSpec == Spec /\ Fairness

-----------------------------------------------------------------------------
(* Properties.                                                             *)

\* The workflows that the event has to start.
Due == IF origin = "workflow" THEN {}
       ELSE ({explicit} \ {None})
              \cup {wf \in Configured : entitled /\ wf # explicit /\ defn[wf] = "valid"}

\* An entry is acknowledged only when every due workflow was dispatched, by
\* this consumer or another one, and the workflow of a comment was started or
\* the comment marked as failed: neither a lock that somebody else holds, nor
\* an error, nor a marker left too early lets the event go.
AckedIsHandled ==
  (\E m \in Message : msg[m] = "acked") =>
    \A wf \in Due :
      IF wf = explicit THEN begun \/ status = "failed"
      ELSE \E w \in Consumer : dispatched[w][wf] > 0

\* However often the event is published, delivered and claimed, a consumer
\* dispatches each workflow once, and once more per error, crash or expiry.
\* Two consumers that look at the marker before either sets it may each start
\* the workflow.
OncePerConsumer ==
  \A w \in Consumer, wf \in Workflow : dispatched[w][wf] <= 1 + faults

\* No healthy consumer is left, or the comment's workflow raises each time.
Stuck ==
  \/ \A w \in Consumer : con[w].pc = "stopped"
  \/ explicit # None /\ defn[explicit] = "invalid"

\* A published event is acknowledged in the end: no lock, claim or pending
\* entry keeps it for ever.
EventuallyHandled ==
  \A m \in Message :
    msg[m] \in {"new", "pending"} ~> msg[m] \in {"acked", "lost"} \/ Stuck
=============================================================================

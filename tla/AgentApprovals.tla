--------------------------- MODULE AgentApprovals ---------------------------
(***************************************************************************)
(* Human approval of the tool calls of one agent session: the durable      *)
(* workflow that asks and resumes (workflows/durable.py with the           *)
(* ApprovalManager of approvals/service.py), the requests that submit      *)
(* decisions (agent/session/service.py) and the state they share: approval *)
(* rows and turn pointers in the database, dedup keys in Redis, and        *)
(* Temporal's record of the updates.                                       *)
(*                                                                         *)
(* One run is modelled in full.  A newer turn may take the session over;   *)
(* it is modelled by the pointers it writes and by refusing every update.  *)
(* A continuation stream is named after the submission that created it.    *)
(***************************************************************************)
EXTENDS Naturals, Functions

CONSTANTS
  Tool,          \* tool call ids
  Submitter,     \* requests that submit decisions
  Submissions,   \* the decisions a request may carry: subsets of Tool -> Decision
  MaxFaults,     \* lost calls, retried or failed activities, Redis errors,
                 \* cancellation or termination of the run
  Run, Newer,    \* run ids, which also name the first stream of each run
  None

Decision == {"approve", "deny"}
Stream == Submitter \cup {Run, Newer}

ASSUME ApprovalConstants ==
  /\ \A m \in Submissions : /\ DOMAIN m \in (SUBSET Tool) \ {{}}
                            /\ m \in [DOMAIN m -> Decision]
  /\ Run # Newer /\ {Run, Newer, None} \cap Submitter = {}
  /\ None \notin {Run, Newer} /\ None \notin Tool
  /\ None \notin Decision \cup {"pending"} /\ None \notin BOOLEAN
  /\ MaxFaults \in Nat

VARIABLES
  \* DurableAgentWorkflow and its ApprovalManager
  wpc, expected, decisions, cancel,
  recorded,      \* requests persisted by the running activity
  payload,       \* decisions captured for apply_approval_decisions
  todo, active,  \* approved calls not started, the call being executed
  answered,      \* tool results of the current round, per call
  executed,      \* calls whose tool was started
  asked,         \* calls of this and earlier rounds
  \* database, Redis, Temporal
  rows, currRun, activeStream, dedup, updates,
  given,         \* decisions that each handled update carried (auxiliary)
  stop,          \* whether Temporal's cancellation was delivered, or the run
                 \* was cut off in an open approval round
  orphans,       \* places whose activity outlives the run that awaited it
  \* requests
  sub, turn,
  faults

wfVars   == <<wpc, expected, decisions, recorded, payload, todo, active,
              answered, executed, asked>>
dbVars   == <<rows, currRun, activeStream>>
updateVars == <<updates, given>>
subVars  == <<sub, dedup, updateVars>>
stopVars == <<stop, orphans>>
userVars == <<cancel, turn, stopVars>>
vars     == <<wfVars, dbVars, subVars, userVars, faults>>

NoDecision == [t \in Tool |-> None]
IdleSub == [pc |-> "idle", map |-> <<>>, run |-> None, seen |-> None,
            attempt |-> None, claimed |-> FALSE]

Key(q) == <<q.run, DOMAIN q.map>>

TypeOK ==
  /\ wpc \in {"executing", "recording", "waiting", "persisting", "tools",
              "finishing", "ended"}
  /\ expected \subseteq asked /\ asked \subseteq Tool
  /\ decisions \in [Tool -> Decision \cup {None}]
  /\ payload \in [Tool -> Decision \cup {None}]
  /\ recorded \subseteq expected /\ todo \subseteq expected
  /\ active \in expected \cup {None} /\ executed \subseteq asked
  /\ answered \in [Tool -> Nat]
  /\ cancel \in {"none", "sent", "requested"}
  /\ rows \in [Tool -> Decision \cup {"pending", None}]
  /\ currRun \in {Run, Newer, None}
  /\ activeStream \in Stream \cup {None} /\ (activeStream = None <=> currRun = None)
  /\ \A s \in Submitter :
       /\ sub[s].pc \in {"idle", "read", "validated", "claimed", "lost", "update",
                         "rejected", "unclaim", "apply", "accepted", "noop",
                         "skipped", "refused", "failed"}
       /\ sub[s].pc \in {"update", "rejected", "apply", "accepted"}
            => sub[s].attempt \in Submitter
  /\ dedup \subseteq {Key(sub[s]) : s \in Submitter}
  /\ updates \in [Submitter -> {None, TRUE, FALSE}]
  /\ \A a \in Submitter : /\ DOMAIN given[a] \subseteq Tool
                          /\ \A t \in DOMAIN given[a] : given[a][t] \in Decision
  /\ stop \in {"none", "delivered", "cut"}
  /\ orphans \subseteq {"recording", "persisting", "finishing"}
  /\ turn \in {"none", "validated", "started"}
  /\ faults \in 0..MaxFaults

Init ==
  /\ wpc = "executing" /\ expected = {} /\ decisions = NoDecision
  /\ cancel = "none" /\ recorded = {} /\ payload = NoDecision
  /\ todo = {} /\ active = None /\ answered = [t \in Tool |-> 0]
  /\ executed = {} /\ asked = {}
  /\ rows = [t \in Tool |-> None] /\ currRun = Run /\ activeStream = Run
  /\ dedup = {} /\ updates = [s \in Submitter |-> None]
  /\ given = [s \in Submitter |-> <<>>] /\ stop = "none" /\ orphans = {}
  /\ sub = [s \in Submitter |-> IdleSub] /\ turn = "none"
  /\ faults = 0

Fault == faults < MaxFaults /\ faults' = faults + 1

CancelRequested == cancel = "requested"

\* Decisions or rows f overwritten by those that g makes.
Merge(f, g) ==
  [t \in Tool |-> IF t \in DOMAIN g /\ g[t] # None THEN g[t] ELSE f[t]]

-----------------------------------------------------------------------------
(* The workflow: executor turns, approval rounds and the end of the run.   *)

\* ApprovalManager.is_ready: set() recomputes the status from both maps,
\* prepare() clears it.
Ready(d) == expected # {} /\ \A t \in expected : d[t] # None

\* The executor succeeded, failed or was cancelled: the run is over.
TurnEnds ==
  /\ wpc = "executing"
  /\ wpc' = "finishing"
  /\ UNCHANGED <<expected, decisions, recorded, payload, todo, active,
                 answered, executed, asked, dbVars, subVars, userVars, faults>>

\* ApprovalManager.prepare, up to its activity.
Prepare(C) ==
  /\ expected' = C
  /\ decisions' = NoDecision

RequestApprovals(C) ==
  /\ wpc = "executing" /\ C # {} /\ C \cap asked = {}
  /\ Prepare(C)
  /\ wpc' = "recording" /\ recorded' = {} /\ asked' = asked \cup C
  /\ answered' = [t \in Tool |-> 0]
  /\ UNCHANGED <<payload, todo, active, executed, dbVars, subVars, userVars, faults>>

\* record_approval_requests commits row by row, and a row that an earlier try
\* left is reset to pending.
RecordRequest(t) ==
  /\ wpc = "recording" /\ t \in expected \ recorded
  /\ rows' = [rows EXCEPT ![t] = "pending"]
  /\ recorded' = recorded \cup {t}
  /\ wpc' = IF recorded' = expected THEN "waiting" ELSE wpc
  /\ UNCHANGED <<expected, decisions, payload, todo, active, answered,
                 executed, asked, currRun, activeStream, subVars,
                 userVars, faults>>

\* Variant: the whole of prepare is tried again.
PrepareRetried ==
  /\ wpc = "recording" /\ recorded # {} /\ Fault
  /\ recorded' = {} /\ decisions' = NoDecision
  /\ UNCHANGED <<wpc, expected, payload, todo, active, answered, executed, asked,
                 dbVars, subVars, userVars>>

\* The activity is tried again from its first row.
RecordRetried ==
  /\ wpc = "recording" /\ recorded # {} /\ Fault
  /\ recorded' = {}
  /\ UNCHANGED <<wpc, expected, decisions, payload, todo, active,
                 answered, executed, asked, dbVars, subVars, userVars>>

LeaveUndecided == decisions   \* variant: a cancel decides nothing

\* A cancel in the wait denies every call of the round.
DenyAll == [t \in Tool |-> IF t \in expected THEN "deny" ELSE decisions[t]]

ReadyOnly == Ready(decisions)   \* variant: the wait does not look at the cancel
Resumable == Ready(decisions) \/ CancelRequested

\* The wait ends and handle_decisions captures the decisions for its activity.
Resume ==
  /\ wpc = "waiting" /\ Resumable
  /\ decisions' = IF CancelRequested THEN DenyAll ELSE decisions
  /\ payload' = decisions'
  /\ wpc' = "persisting"
  /\ UNCHANGED <<expected, recorded, todo, active, answered, executed,
                 asked, dbVars, subVars, userVars, faults>>

Truthy(d) == d # None         \* variant: any decision object counts
IsApproval(d) == d = "approve"

Approved == {t \in expected : IsApproval(decisions[t])}

AnswerAll(C) == [t \in Tool |-> IF t \in C THEN answered[t] + 1 ELSE answered[t]]

\* apply_approval_decisions upserts the captured decisions; then the cancel is
\* looked at again and the tool lists are built from the decisions as they are
\* now.  Denied calls get their result after the approved ones.
ApplyDecisions ==
  /\ wpc = "persisting"
  /\ rows' = Merge(rows, payload)
  /\ IF CancelRequested
     THEN wpc' = "finishing" /\ UNCHANGED <<todo, answered>>
     ELSE /\ wpc' = "tools" /\ todo' = Approved
          /\ answered' = AnswerAll(expected \ Approved)
  /\ payload' = NoDecision
  /\ UNCHANGED <<expected, decisions, recorded, active, executed, asked,
                 currRun, activeStream, subVars, userVars, faults>>

StartTool(t) ==
  /\ wpc = "tools" /\ active = None /\ t \in todo /\ ~ CancelRequested
  /\ active' = t /\ todo' = todo \ {t} /\ executed' = executed \cup {t}
  /\ UNCHANGED <<wpc, expected, decisions, recorded, payload, answered,
                 asked, dbVars, subVars, userVars, faults>>

\* The activity returns or fails: either way the call has a result.
ToolReturns ==
  /\ wpc = "tools" /\ active # None
  /\ answered' = AnswerAll({active}) /\ active' = None
  /\ UNCHANGED <<wpc, expected, decisions, recorded, payload, todo,
                 executed, asked, dbVars, subVars, userVars, faults>>

SkippedFromNext == todo   \* variant: the call in flight is forgotten
Interrupted == todo \cup ({active} \ {None})

\* A cancel stops the call in flight and every call that was not started;
\* each gets a cancelled result.
CancelTools ==
  /\ wpc = "tools" /\ CancelRequested /\ (active # None \/ todo # {})
  /\ answered' = AnswerAll(Interrupted) /\ active' = None /\ todo' = {}
  /\ UNCHANGED <<wpc, expected, decisions, recorded, payload, executed,
                 asked, dbVars, subVars, userVars, faults>>

\* The transcript is reconciled; then the next executor turn, or the end.
ReconcileResults ==
  /\ wpc = "tools" /\ active = None /\ todo = {}
  /\ wpc' = IF CancelRequested THEN "finishing" ELSE "executing"
  /\ UNCHANGED <<expected, decisions, recorded, payload, todo, active,
                 answered, executed, asked, dbVars, subVars, userVars, faults>>

ReconcileFails ==
  /\ wpc = "tools" /\ active = None /\ todo = {} /\ Fault
  /\ wpc' = "finishing"
  /\ UNCHANGED <<expected, decisions, recorded, payload, todo, active,
                 answered, executed, asked, dbVars, subVars, userVars>>

\* Variant: cleared without comparing the run.
ClearAlways == currRun' = None /\ activeStream' = None

\* Variant: only curr_run_id is cleared.
ClearRunOnly ==
  currRun' = (IF currRun = Run THEN None ELSE currRun) /\ UNCHANGED activeStream

\* clear_turn_pointers
ClearTurnPointers ==
  IF currRun = Run THEN currRun' = None /\ activeStream' = None
  ELSE UNCHANGED <<currRun, activeStream>>

FinalizeTurn ==
  /\ wpc = "finishing"
  /\ ClearTurnPointers
  /\ wpc' = "ended"
  /\ UNCHANGED <<expected, decisions, recorded, payload, todo, active,
                 answered, executed, asked, rows, subVars, userVars,
                 faults>>

\* The final activity gives up: only logged.
FinalizeFails ==
  /\ wpc = "finishing" /\ Fault
  /\ wpc' = "ended"
  /\ UNCHANGED <<expected, decisions, recorded, payload, todo, active,
                 answered, executed, asked, dbVars, subVars, userVars>>

-----------------------------------------------------------------------------
(* Temporal stops the run: the workflow that started it is cancelled or    *)
(* ends, or its time is up.                                                *)

\* The decisions of a round are asked for and not yet applied.
RoundOpen == wpc \in {"recording", "waiting", "persisting"}

\* The code of the run goes no further.  The activity it awaited may still be
\* executed.
GiveUp(to) ==
  /\ wpc' = to
  /\ orphans' = orphans \cup ({wpc} \cap {"recording", "persisting", "finishing"})
  /\ stop' = IF RoundOpen \/ stop = "cut" THEN "cut" ELSE "delivered"
  /\ todo' = {} /\ active' = None
  /\ UNCHANGED <<expected, decisions, recorded, payload, answered, executed, asked,
                 dbVars, subVars, cancel, turn>>

\* A cancellation is raised once, where the run waits; run catches at most an
\* ActivityError and its finally block is what remains.  The events it emits in
\* the wait and at the end, and the wait for an activity that request_cancel
\* already cancelled, swallow it.
CancelRun ==
  /\ stop = "none" /\ wpc # "ended" /\ Fault
  /\ \/ GiveUp(IF wpc = "finishing" THEN "ended" ELSE "finishing")
     \/ /\ \/ wpc \in {"waiting", "finishing"}
           \/ CancelRequested /\ (wpc = "executing" \/ active # None)
        /\ stop' = "delivered"
        /\ UNCHANGED <<wfVars, dbVars, subVars, cancel, turn, orphans>>

\* A termination or a timeout runs no code of the workflow.
TerminateRun == wpc # "ended" /\ Fault /\ GiveUp("ended")

OrphanRecord(t) ==
  /\ "recording" \in orphans /\ t \in expected \ recorded
  /\ rows' = [rows EXCEPT ![t] = "pending"]
  /\ recorded' = recorded \cup {t}
  /\ UNCHANGED <<wpc, expected, decisions, payload, todo, active, answered, executed,
                 asked, currRun, activeStream, subVars, userVars, faults>>

OrphanApply ==
  /\ "persisting" \in orphans /\ orphans' = orphans \ {"persisting"}
  /\ rows' = Merge(rows, payload) /\ payload' = NoDecision
  /\ UNCHANGED <<wpc, expected, decisions, recorded, todo, active, answered, executed,
                 asked, currRun, activeStream, subVars, cancel, turn, stop, faults>>

OrphanFinalize ==
  /\ "finishing" \in orphans /\ orphans' = orphans \ {"finishing"}
  /\ ClearTurnPointers
  /\ UNCHANGED <<wfVars, rows, subVars, cancel, turn, stop, faults>>

-----------------------------------------------------------------------------
(* Submissions: _continue_with_approvals.                                  *)

Goto(s, q, pc) == sub' = [sub EXCEPT ![s] = [q EXCEPT !.pc = pc]]

\* The request ends and leaves nothing behind.
Drop(s, pc) == sub' = [sub EXCEPT ![s] = [IdleSub EXCEPT !.pc = pc]]

\* get_session: the run and the stream the request will work with.
ReadSession(s, m) ==
  /\ sub[s].pc = "idle"
  /\ IF currRun = None THEN Drop(s, "refused")
     ELSE Goto(s, [sub[s] EXCEPT !.map = m, !.run = currRun, !.seen = activeStream],
               "read")
  /\ UNCHANGED <<wfVars, dbVars, dedup, updateVars, userVars, faults>>

Pending == {t \in Tool : rows[t] = "pending"}

\* Only the pending part is submitted; a settled call must agree.
Validate(s) ==
  LET m == sub[s].map
  IN /\ sub[s].pc = "read"
     /\ IF \E t \in DOMAIN m \ Pending : rows[t] # m[t]
        THEN Drop(s, "refused")
        ELSE IF DOMAIN m \cap Pending = {}
        THEN Drop(s, "noop")
        ELSE Goto(s, [sub[s] EXCEPT !.map = Restrict(m, DOMAIN m \cap Pending)],
                  "validated")
     /\ UNCHANGED <<wfVars, dbVars, dedup, updateVars, userVars, faults>>

\* The marker on stream st is of a submission of the same calls to the same run.
SameSubmission(st, q) == st \in Submitter /\ Key(sub[st]) = Key(q)

\* The request reuses the attempt it finds or claims its calls in Redis.
Claim(s) ==
  LET q == sub[s]
  IN /\ q.pc = "validated"
     /\ \/ /\ SameSubmission(q.seen, q)
           /\ Goto(s, [q EXCEPT !.attempt = q.seen], "update")
           /\ UNCHANGED <<dedup, faults>>
        \/ /\ ~ SameSubmission(q.seen, q) /\ Key(q) \notin dedup
           /\ dedup' = dedup \cup {Key(q)}
           /\ Goto(s, [q EXCEPT !.claimed = TRUE], "claimed")
           /\ UNCHANGED faults
        \/ /\ ~ SameSubmission(q.seen, q) /\ Key(q) \in dedup
           /\ Drop(s, "skipped")
           /\ UNCHANGED <<dedup, faults>>
        \/ /\ ~ SameSubmission(q.seen, q) /\ Fault     \* Redis is unavailable
           /\ Goto(s, q, "claimed")
           /\ UNCHANGED dedup
     /\ UNCHANGED <<wfVars, dbVars, updateVars, userVars>>

\* The compare-and-swap of _prepare_approval_continuation_attempt.
Install(s) ==
  LET q == sub[s]
  IN /\ q.pc = "claimed"
     /\ IF currRun = q.run /\ activeStream = q.seen
        THEN /\ activeStream' = s
             /\ Goto(s, [q EXCEPT !.attempt = s], "update")
        ELSE Goto(s, q, "lost") /\ UNCHANGED activeStream
     /\ UNCHANGED <<wfVars, rows, currRun, dedup, updateVars, userVars, faults>>

\* The swap was lost: use the stream that is installed, if it is of the same
\* submission.
Reuse(s) ==
  LET q == sub[s]
  IN /\ q.pc = "lost"
     /\ IF SameSubmission(activeStream, q)
        THEN Goto(s, [q EXCEPT !.attempt = activeStream], "update")
        ELSE Goto(s, q, "unclaim")
     /\ UNCHANGED <<wfVars, dbVars, dedup, updateVars, userVars, faults>>

\* validate_responses of the run the submission is addressed to.
Valid(q) == q.run = Run /\ expected # {} /\ DOMAIN q.map \subseteq expected

\* set_approvals
SetApprovals(q) ==
  /\ decisions' = Merge(decisions, q.map)
  /\ updates' = [updates EXCEPT ![q.attempt] = Ready(decisions')]
  /\ given' = [given EXCEPT ![q.attempt] = q.map]

Answer(s, q, resumed) == Goto(s, q, IF resumed THEN "accepted" ELSE "apply")

\* execute_update with the attempt as its id: an id that was handled before
\* gets its first result.
Update(s) ==
  LET q == sub[s]
  IN /\ q.pc = "update"
     /\ IF updates[q.attempt] # None
        THEN Answer(s, q, updates[q.attempt]) /\ UNCHANGED <<decisions, updateVars>>
        ELSE IF wpc = "ended" /\ q.run = Run       \* not found: an RPC error
        THEN Goto(s, q, "failed") /\ UNCHANGED <<decisions, updateVars>>
        ELSE IF ~ Valid(q)
        THEN Goto(s, q, "rejected") /\ UNCHANGED <<decisions, updateVars>>
        ELSE SetApprovals(q) /\ Answer(s, q, updates'[q.attempt])
     /\ UNCHANGED <<wpc, expected, recorded, payload, todo, active, answered,
                    executed, asked, dbVars, dedup, userVars, faults>>

\* The call fails in transit, before or after the workflow handled it.  The
\* attempt is kept.
UpdateLost(s) ==
  LET q == sub[s]
  IN /\ q.pc = "update" /\ Fault
     /\ Goto(s, q, "failed")
     /\ \/ UNCHANGED <<decisions, updateVars>>
        \/ /\ updates[q.attempt] = None /\ wpc # "ended" /\ Valid(q)
           /\ SetApprovals(q)
     /\ UNCHANGED <<wpc, expected, recorded, payload, todo, active, answered,
                    executed, asked, dbVars, dedup, userVars>>

\* _rollback_rejected_approval_continuation
Rollback(s) ==
  LET q == sub[s]
  IN /\ q.pc = "rejected"
     /\ activeStream' = IF currRun = q.run /\ activeStream = q.attempt
                        THEN sub[q.attempt].seen ELSE activeStream
     /\ Goto(s, q, "unclaim")
     /\ UNCHANGED <<wfVars, rows, currRun, dedup, updateVars, userVars, faults>>

Unclaim(s) ==
  LET q == sub[s]
  IN /\ q.pc = "unclaim"
     /\ dedup' = IF q.claimed THEN dedup \ {Key(q)} ELSE dedup
     /\ IF q.attempt = None THEN Drop(s, "refused")
        ELSE Goto(s, [q EXCEPT !.claimed = FALSE], "refused")
     /\ UNCHANGED <<wfVars, dbVars, updateVars, userVars, faults>>

\* _apply_submitted_approval_decisions, when the set is still incomplete.
Apply(s) ==
  LET q == sub[s]
  IN /\ q.pc = "apply"
     /\ rows' = Merge(rows, Restrict(q.map, DOMAIN q.map \cap Pending))
     /\ Goto(s, q, "accepted")
     /\ UNCHANGED <<wfVars, currRun, activeStream, dedup, updateVars, userVars, faults>>

\* The dedup key expires.
ExpireClaim(k) ==
  /\ k \in dedup /\ dedup' = dedup \ {k}
  /\ UNCHANGED <<wfVars, dbVars, sub, updateVars, userVars, faults>>

-----------------------------------------------------------------------------
(* Other requests: cancel the turn, start a new one.                       *)

\* request_cancel goes to the run the session points at.
SendCancel ==
  /\ cancel = "none" /\ currRun = Run /\ wpc # "ended"
  /\ cancel' = "sent"
  /\ UNCHANGED <<wfVars, dbVars, subVars, turn, stopVars, faults>>

DeliverCancel ==
  /\ cancel = "sent" /\ wpc # "ended"
  /\ cancel' = "requested"
  /\ UNCHANGED <<wfVars, dbVars, subVars, turn, stopVars, faults>>

\* validate_turn_request only looks for pending approvals.
ValidateTurn ==
  /\ turn = "none" /\ Pending = {}
  /\ turn' = "validated"
  /\ UNCHANGED <<wfVars, dbVars, subVars, cancel, stopVars, faults>>

\* run_turn overwrites the pointers.
StartTurn ==
  /\ turn = "validated"
  /\ turn' = "started" /\ currRun' = Newer /\ activeStream' = Newer
  /\ UNCHANGED <<wfVars, rows, subVars, cancel, stopVars, faults>>

-----------------------------------------------------------------------------
Workflow ==
  \/ TurnEnds \/ \E C \in SUBSET Tool : RequestApprovals(C)
  \/ \E t \in Tool : RecordRequest(t) \/ StartTool(t)
  \/ Resume \/ ApplyDecisions \/ ToolReturns \/ CancelTools
  \/ ReconcileResults \/ FinalizeTurn

Submission(s) ==
  \/ Validate(s) \/ Claim(s) \/ Install(s) \/ Reuse(s) \/ Update(s)
  \/ Rollback(s) \/ Unclaim(s) \/ Apply(s)

Stopping ==
  \/ CancelRun \/ TerminateRun
  \/ (\E t \in Tool : OrphanRecord(t)) \/ OrphanApply \/ OrphanFinalize

Next ==
  \/ Workflow \/ RecordRetried \/ ReconcileFails \/ FinalizeFails \/ Stopping
  \/ \E s \in Submitter : \/ \E m \in Submissions : ReadSession(s, m)
                          \/ Submission(s) \/ UpdateLost(s)
  \/ \E k \in dedup : ExpireClaim(k)
  \/ SendCancel \/ DeliverCancel \/ ValidateTurn \/ StartTurn

Spec == Init /\ [][Next]_vars

\* Workers execute the workflow and its activities.  Nobody has to send a
\* request, and none that was sent has to go on.
Fairness == WF_vars(Workflow)

FairSpec == Spec /\ Fairness

-----------------------------------------------------------------------------
(* Properties.                                                             *)

\* The decisions on t that the workflow took over.
Handled(t) ==
  {given[a][t] : a \in {b \in Submitter : t \in DOMAIN given[b]}}

\* A tool runs only after an update with its approval was handled, whoever
\* sent it and whatever became of the answer: no cancel, retry or missing
\* decision resumes it.
RunsOnlyApproved == \A t \in executed : "approve" \in Handled(t)

\* When the tool phase of a round is over each of its calls has exactly one
\* result, however a cancel cut the phase short: the transcript the model
\* continues from has neither a dangling nor a doubled call.
AnsweredOnce ==
  wpc = "tools" /\ active = None /\ todo = {}
    => \A t \in Tool : answered[t] = (IF t \in expected THEN 1 ELSE 0)

\* A run that ends by itself or by request_cancel leaves no approval pending,
\* whether it was cancelled before, between or after partial decisions: a
\* pending row would refuse every later message of the session.  Excepted is a
\* run that Temporal stops in an open round: the code leaves its rows.
NoOrphanPending ==
  wpc \in {"finishing", "ended"} /\ stop # "cut" => Pending = {}

\* The decision on t as it stands: that of the row or, while the round is open,
\* the one it will get.
Outcome(t) ==
  IF rows[t] \in Decision THEN rows[t]
  ELSE IF RoundOpen /\ t \in expected THEN decisions[t] ELSE None

\* The decisions on t that somebody has made: in a handled update, in a
\* submission reported as accepted, or by the cancel, which denies.
Made(t) ==
  Handled(t) \cup (IF CancelRequested THEN {"deny"} ELSE {})
    \cup {sub[s].map[t] : s \in {r \in Submitter : /\ sub[r].pc = "accepted"
                                                  /\ t \in DOMAIN sub[r].map}}

\* A decision that was reported as accepted stands, in the row or in the open
\* round, unless the turn was cancelled or another submission on the same call
\* was handled or accepted too: then the one that stands is one of these.  Rows
\* written late, a retry that resets them, a duplicate or a contradiction do not
\* leave the call undecided.  Excepted is a run that Temporal stops in the round.
AcceptedIsRecorded ==
  \A s \in Submitter : sub[s].pc = "accepted" /\ stop # "cut" =>
    \A t \in DOMAIN sub[s].map : Outcome(t) \in Made(t)

\* Once a newer turn owns the session, neither the end of the old run, a
\* finalisation that outlives it nor a submission addressed to it moves the
\* pointers.
NewerTurnKept ==
  [][currRun = Newer =>
       /\ currRun' = Newer
       /\ activeStream' # activeStream =>
            \E s \in Submitter : sub[s].run = Newer /\ sub'[s] # sub[s]]_vars

\* A cancel that reached the workflow ends the run, wherever it was: no wait
\* for a decision and no further tool call outlives it.
CancelEnds == cancel = "requested" ~> wpc = "ended"

\* The recorded decision permits every tool call that was started, as
\* docs/security/architecture.mdx says.  The code does not keep it: a decision
\* that reaches the workflow while apply_approval_decisions writes the ones
\* captured before it changes the tool list and not the row.
ExecutedAsRecorded == \A t \in executed : rows[t] = "approve"
=============================================================================

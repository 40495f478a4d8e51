---------------------------- MODULE TierPermits -----------------------------
(***************************************************************************)
(* Concurrency permits of one organisation: the Redis semaphore            *)
(* (tiers/semaphore.py), the service that picks the limit (tiers/permits.py*)
(* and tiers/limits_cache.py) and the workflow code that acquires,         *)
(* heartbeats and releases permits (dsl/workflow.py).                      *)
(*                                                                         *)
(* A holder is a workflow run or an action inside one.  Time is relative:  *)
(* a permit's score is kept as its age, a request carries the time since   *)
(* its activity started, in which the activity read the clock at some      *)
(* point, and Tick ages everything by one unit.                            *)
(***************************************************************************)
EXTENDS Integers, FiniteSets

CONSTANTS
  Holder,
  Scope,              \* Holder -> {"workflow", "action"}
  Parent,             \* the holder whose run contains this one, or NoHolder
  Rounds,             \* how often a holder runs: loops and retry_until reuse
                      \* the permit id of an action
  Limits,             \* the effective limits an administrator may set
  TTL, HeartbeatInterval, CacheTTL,
  MaxWait,            \* scope -> longest wait for a permit
  MaxLag,             \* longest run of a permit activity
  MaxFaults,          \* activities that fail or are cancelled, and limit changes
  NoLimit, NoHolder, None

Scopes == {"workflow", "action"}

ASSUME PermitConstants ==
  /\ Scope \in [Holder -> Scopes]
  /\ Parent \in [Holder -> Holder \cup {NoHolder}] /\ NoHolder \notin Holder
  /\ \A h \in Holder : Scope[h] = "action" => Parent[h] # NoHolder
  /\ Rounds \in [Holder -> Nat]
  /\ Limits \subseteq [Scopes -> Int \cup {NoLimit}] /\ Limits # {}
  /\ NoLimit \notin Int /\ None \notin Nat /\ None \notin Limits
  /\ TTL \in Nat /\ HeartbeatInterval \in Nat \ {0} /\ CacheTTL \in Nat
  /\ MaxWait \in [Scopes -> Nat]
  /\ MaxLag \in Nat /\ MaxFaults \in Nat

VARIABLES
  \* Redis and the database
  age,        \* semaphore entries: holder -> age of its score, or None
  cache,      \* cached limits and their age, or None
  limit,      \* effective limits in the database
  invalidating,  \* changes committed whose cache invalidation is to come
  recent,     \* limits replaced at most Window ago (auxiliary)
  \* requests of activities that a worker is executing
  inflight,
  \* the workflow code, per holder
  pc, waited, round, tier, acquired, heartbeat,
  missed,     \* heartbeats lost since the last refresh, TTL after a release
              \* (auxiliary)
  \* bounds
  faults

redisVars  == <<age, cache, limit, invalidating, recent>>
driverVars == <<pc, waited, round, tier, acquired, heartbeat, missed>>
vars == <<redisVars, inflight, driverVars, faults>>

Off == -1            \* no heartbeat task
Waiting == -2        \* the heartbeat task awaits its activity
MaxAge == TTL + MaxLag
Window == CacheTTL + 2 * MaxLag

Older(n, max) == IF n < max THEN n + 1 ELSE max

Request(h, op) ==
  [holder |-> h, op |-> op, stage |-> IF op = "acquire" THEN "read" ELSE "ready",
   limits |-> None, lag |-> 0, live |-> TRUE]

Requests ==
  [holder : Holder, op : {"acquire", "heartbeat", "release"},
   stage : {"read", "fetched", "ready"}, limits : Limits \cup {None},
   lag : 0..MaxLag, live : BOOLEAN]

TypeOK ==
  /\ age \in [Holder -> 0..MaxAge \cup {None}]
  /\ cache \in [limits : Limits, age : 0..CacheTTL] \cup {None}
  /\ limit \in Limits /\ invalidating \in 0..MaxFaults
  /\ recent \subseteq [limits : Limits, age : 0..Window]
  /\ inflight \subseteq Requests
  /\ \A q \in inflight : q.op = "acquire" => (q.stage = "read" <=> q.limits = None)
  /\ pc \in [Holder -> {"idle", "acquiring", "backoff", "awake", "running",
                        "stopping", "releasing", "done"}]
  /\ waited \in [Holder -> Nat]
  /\ round \in [Holder -> Nat]
  /\ tier \in [Holder -> Limits]
  /\ acquired \in [Holder -> BOOLEAN]
  /\ heartbeat \in [Holder -> Waiting..HeartbeatInterval]
  /\ missed \in [Holder -> Nat]
  /\ faults \in 0..MaxFaults

Init ==
  /\ age = [h \in Holder |-> None]
  /\ cache = None /\ limit \in Limits /\ invalidating = 0 /\ recent = {}
  /\ inflight = {}
  /\ pc = [h \in Holder |-> "idle"]
  /\ waited = [h \in Holder |-> 0]
  /\ round = [h \in Holder |-> 0]
  /\ tier = [h \in Holder |-> limit]
  /\ acquired = [h \in Holder |-> FALSE]
  /\ heartbeat = [h \in Holder |-> Off]
  /\ missed = [h \in Holder |-> 0]
  /\ faults = 0

-----------------------------------------------------------------------------
(* The semaphore scripts.                                                  *)

Held(sc) == {h \in Holder : Scope[h] = sc /\ age[h] # None}

\* ZREMRANGEBYSCORE '-inf' now - ttl, where now was read `read` units ago.
Stale(h, read) == age[h] # None /\ age[h] >= TTL + read

Pruned(sc, read) ==
  [h \in Holder |-> IF Scope[h] = sc /\ Stale(h, read) THEN None ELSE age[h]]

AcquireScript(h, lim, read) ==
  LET p == Pruned(Scope[h], read)
      n == Cardinality({k \in Holder : Scope[k] = Scope[h] /\ p[k] # None})
      ok == p[h] # None \/ lim = NoLimit \/ n < lim
  IN [acquired |-> ok, age |-> IF ok THEN [p EXCEPT ![h] = read] ELSE p]

HeartbeatAdds(h, read) == [age EXCEPT ![h] = read]   \* variant: ZADD alone

\* The script refreshes a permit that is there and never adds one.
HeartbeatScript(h, read) ==
  IF age[h] = None THEN age ELSE [age EXCEPT ![h] = read]

-----------------------------------------------------------------------------
(* The acquire activity: limits from the cache or the database, then the   *)
(* script.                                                                 *)

Waits(h) == {q \in inflight : q.holder = h /\ q.live}

\* Variant: a cache miss goes on without limits.
ReadCacheOnly(q) ==
  /\ q.op = "acquire" /\ q.stage = "read"
  /\ inflight' = (inflight \ {q}) \cup
       {[q EXCEPT !.stage = "ready", !.limits = IF cache = None THEN None ELSE cache.limits]}
  /\ UNCHANGED <<redisVars, driverVars, faults>>

ReadLimits(q) ==
  /\ q.op = "acquire" /\ q.stage = "read"
  /\ \/ /\ cache # None
        /\ inflight' = (inflight \ {q}) \cup
                       {[q EXCEPT !.stage = "ready", !.limits = cache.limits]}
     \/ inflight' = (inflight \ {q}) \cup       \* a miss, or the read failed
                    {[q EXCEPT !.stage = "fetched", !.limits = limit]}
  /\ UNCHANGED <<redisVars, driverVars, faults>>

FreshCache(limits) == [limits |-> limits, age |-> 0]

SetLimitsCache(q) ==
  /\ q.stage = "fetched"
  /\ inflight' = (inflight \ {q}) \cup {[q EXCEPT !.stage = "ready"]}
  /\ cache' \in {cache, FreshCache(q.limits)}   \* a failed write is logged
  /\ UNCHANGED <<age, limit, invalidating, recent, driverVars, faults>>

\* normalize_concurrency_limit refuses a limit that is not positive.
InvalidLimit(lim) == lim # NoLimit /\ lim <= 0

-----------------------------------------------------------------------------
(* The workflow code.                                                      *)

\* A holder that ends may run again as long as its rounds last.
Ended(h) == IF round[h] < Rounds[h] THEN "idle" ELSE "done"

Send(h, op) == inflight' = inflight \cup {Request(h, op)}

\* run: a workflow fetches the limits, an action uses those of its workflow;
\* no permit is needed where there is no limit.
WorkflowTier(h) == IF Scope[h] = "workflow" THEN limit ELSE tier[Parent[h]]

Start(h) ==
  /\ pc[h] = "idle" /\ round[h] < Rounds[h]
  /\ Parent[h] # NoHolder => pc[Parent[h]] = "running"
  /\ round' = [round EXCEPT ![h] = @ + 1]
  /\ tier' = [tier EXCEPT ![h] = WorkflowTier(h)]
  /\ waited' = [waited EXCEPT ![h] = 0]
  /\ IF WorkflowTier(h)[Scope[h]] = NoLimit
     THEN pc' = [pc EXCEPT ![h] = "running"] /\ UNCHANGED inflight
     ELSE pc' = [pc EXCEPT ![h] = "acquiring"] /\ Send(h, "acquire")
  /\ UNCHANGED <<redisVars, acquired, heartbeat, missed, faults>>

WaitsForEver(h) == FALSE   \* variant
WaitedTooLong(h) == waited[h] >= MaxWait[Scope[h]]

\* The acquisition raises.  An action is inside its try block and releases; a
\* workflow is not, and leaves what it may have acquired to the TTL.
Raise(h, rest) ==
  IF Scope[h] = "action"
  THEN /\ pc' = [pc EXCEPT ![h] = "releasing"]
       /\ inflight' = rest \cup {Request(h, "release")}
  ELSE pc' = [pc EXCEPT ![h] = Ended(h)] /\ inflight' = rest

\* Variant: the heartbeat task is not started.
GrantedSilently(h, rest) ==
  /\ pc' = [pc EXCEPT ![h] = "running"] /\ inflight' = rest
  /\ acquired' = [acquired EXCEPT ![h] = TRUE]
  /\ UNCHANGED heartbeat

Granted(h, rest) ==
  /\ pc' = [pc EXCEPT ![h] = "running"] /\ inflight' = rest
  /\ acquired' = [acquired EXCEPT ![h] = TRUE]
  /\ heartbeat' = [heartbeat EXCEPT ![h] = 0]

Rejected(h, rest) ==
  /\ IF WaitedTooLong(h) THEN Raise(h, rest)
     ELSE pc' = [pc EXCEPT ![h] = "backoff"] /\ inflight' = rest
  /\ UNCHANGED <<acquired, heartbeat>>

\* The script runs and the workflow code, if it still waits, gets the reply.
RunAcquire(q, read) ==
  LET h == q.holder
      lim == q.limits[Scope[h]]
      r == AcquireScript(h, lim, read)
      rest == inflight \ {q}
  IN /\ q.op = "acquire" /\ q.stage = "ready"
     /\ IF InvalidLimit(lim)
        THEN /\ IF q.live THEN Raise(h, rest) ELSE inflight' = rest /\ UNCHANGED pc
             /\ UNCHANGED <<age, missed, acquired, heartbeat>>
        ELSE /\ age' = r.age
             /\ missed' = IF r.acquired THEN [missed EXCEPT ![h] = 0] ELSE missed
             /\ IF ~ q.live
                THEN inflight' = rest /\ UNCHANGED <<pc, acquired, heartbeat>>
                ELSE IF r.acquired THEN Granted(h, rest) ELSE Rejected(h, rest)
     /\ UNCHANGED <<cache, limit, invalidating, recent, waited, round, tier, faults>>

Retry(h) ==
  /\ pc[h] = "awake"
  /\ pc' = [pc EXCEPT ![h] = "acquiring"]
  /\ Send(h, "acquire")
  /\ UNCHANGED <<redisVars, waited, round, tier, acquired, heartbeat, missed,
                 faults>>

Fault == faults < MaxFaults /\ faults' = faults + 1

\* An activity the code stops waiting for may be lost or still be executed.
Abandon(Q) ==
  {inflight \ Q, (inflight \ Q) \cup {[q EXCEPT !.live = FALSE] : q \in Q}}

\* The acquire activity fails, times out or is cancelled, before or after its
\* script ran, or the run is cancelled between two attempts.
AcquireFails(h) ==
  /\ pc[h] \in {"acquiring", "backoff", "awake"}
  /\ Fault
  /\ \E rest \in Abandon(Waits(h)) : Raise(h, rest)
  /\ UNCHANGED <<redisVars, waited, round, tier, acquired, heartbeat, missed>>

KeepHeartbeat(h) == UNCHANGED heartbeat   \* variant

\* The end of the run, by success, error or cancellation: the heartbeat task
\* is cancelled and awaited, then an acquired permit is released.  A task that
\* sleeps ends by the cancel.
StopHeartbeat(h) == heartbeat' = [heartbeat EXCEPT ![h] = Off]

\* The loop's heartbeat failed, which it logs, and it sleeps again.
NextBeat(h) ==
  /\ heartbeat' = [heartbeat EXCEPT ![h] = 0]
  /\ missed' = [missed EXCEPT ![h] = Older(@, TTL)]
  /\ inflight' \in Abandon(Waits(h))

\* A task that is in its activity gets the cancel as an ActivityError, takes it
\* for a failed heartbeat and goes on, and the code that awaits it waits.
CancelSwallowed(h) == NextBeat(h) /\ pc' = [pc EXCEPT ![h] = "stopping"]

Finish(h) ==
  /\ pc[h] = "running"
  /\ \A k \in Holder : Parent[k] = h => pc[k] \in {"idle", "done"}
  /\ \/ heartbeat[h] = Waiting /\ CancelSwallowed(h)
     \/ /\ heartbeat[h] # Waiting
        /\ StopHeartbeat(h) /\ UNCHANGED missed
        /\ IF acquired[h]
           THEN pc' = [pc EXCEPT ![h] = "releasing"] /\ Send(h, "release")
           ELSE pc' = [pc EXCEPT ![h] = Ended(h)] /\ UNCHANGED inflight
  /\ UNCHANGED <<redisVars, waited, round, tier, acquired, faults>>

RunRelease(q) ==
  LET h == q.holder
  IN /\ q.op = "release"
     /\ inflight' = inflight \ {q}
     /\ age' = [age EXCEPT ![h] = None]
     /\ pc' = IF q.live THEN [pc EXCEPT ![h] = Ended(h)] ELSE pc
     /\ acquired' = IF q.live THEN [acquired EXCEPT ![h] = FALSE] ELSE acquired
     /\ missed' = [missed EXCEPT ![h] = TTL]
     /\ UNCHANGED <<cache, limit, invalidating, recent, waited, round, tier,
                    heartbeat, faults>>

\* Only logged: the permit is left to the TTL.  The flag dies with the run.
ReleaseFails(h) ==
  /\ pc[h] = "releasing"
  /\ Fault
  /\ pc' = [pc EXCEPT ![h] = Ended(h)]
  /\ acquired' = [acquired EXCEPT ![h] = FALSE]
  /\ inflight' \in Abandon(Waits(h))
  /\ UNCHANGED <<redisVars, waited, round, tier, heartbeat, missed>>

-----------------------------------------------------------------------------
(* The heartbeat task, which only StopHeartbeat ends.                      *)

Beat(h) ==
  /\ heartbeat[h] = HeartbeatInterval
  /\ heartbeat' = [heartbeat EXCEPT ![h] = Waiting]
  /\ Send(h, "heartbeat")
  /\ UNCHANGED <<redisVars, pc, waited, round, tier, acquired, missed, faults>>

RunHeartbeat(q, read) ==
  LET h == q.holder
  IN /\ q.op = "heartbeat"
     /\ inflight' = inflight \ {q}
     /\ age' = HeartbeatScript(h, read)
     /\ heartbeat' = IF q.live THEN [heartbeat EXCEPT ![h] = 0] ELSE heartbeat
     /\ missed' = IF q.live /\ age[h] # None THEN [missed EXCEPT ![h] = 0] ELSE missed
     /\ UNCHANGED <<cache, limit, invalidating, recent, pc, waited, round, tier, acquired,
                    faults>>

HeartbeatFails(h) ==
  /\ heartbeat[h] = Waiting
  /\ Fault
  /\ NextBeat(h)
  /\ UNCHANGED <<redisVars, pc, waited, round, tier, acquired>>

-----------------------------------------------------------------------------
(* The administrator and the clock.                                        *)

\* update_org_tier, update_tier: commit, then invalidate the cache.
SetLimit(l) ==
  /\ Fault
  /\ l # limit /\ limit' = l
  /\ invalidating' = invalidating + 1
  /\ recent' = recent \cup {[limits |-> limit, age |-> 0]}
  /\ UNCHANGED <<age, cache, inflight, driverVars>>

InvalidateCache ==
  /\ invalidating > 0 /\ invalidating' = invalidating - 1
  /\ cache' \in {None, cache}                  \* a failed delete is logged
  /\ UNCHANGED <<age, limit, recent, inflight, driverVars, faults>>

KeptCache == cache   \* variant: no expiry

\* Redis drops the cache key when its expiry is reached.
AgedCache == IF cache = None \/ cache.age + 1 >= CacheTTL THEN None
             ELSE [cache EXCEPT !.age = @ + 1]

\* Nothing is overdue: an activity ends within MaxLag, a timer that has fired
\* is handled before the next unit.
Timely ==
  /\ \A q \in inflight : q.lag < MaxLag
  /\ invalidating = 0
  /\ \A h \in Holder : pc[h] # "awake" /\ heartbeat[h] # HeartbeatInterval

Tick ==
  /\ Timely
  /\ age' = [h \in Holder |-> IF age[h] = None THEN None ELSE Older(age[h], MaxAge)]
  /\ cache' = AgedCache
  /\ recent' = {[r EXCEPT !.age = @ + 1] : r \in {s \in recent : s.age < Window}}
  /\ inflight' = {[q EXCEPT !.lag = @ + 1] : q \in inflight}
  /\ pc' = [h \in Holder |-> IF pc[h] = "backoff" THEN "awake" ELSE pc[h]]
  /\ waited' = [h \in Holder |-> IF pc[h] \in {"acquiring", "backoff"}
                                 THEN Older(waited[h], MaxWait[Scope[h]])
                                 ELSE waited[h]]
  /\ heartbeat' = [h \in Holder |-> IF heartbeat[h] \in {Off, Waiting}
                                    THEN heartbeat[h] ELSE heartbeat[h] + 1]
  /\ UNCHANGED <<limit, invalidating, round, tier, acquired, missed, faults>>

-----------------------------------------------------------------------------
Activity == \E q \in inflight :
  \/ ReadLimits(q) \/ SetLimitsCache(q) \/ RunRelease(q)
  \/ \E read \in 0..q.lag : RunAcquire(q, read) \/ RunHeartbeat(q, read)

Driver(h) == Retry(h) \/ Beat(h)

Faulty(h) == AcquireFails(h) \/ ReleaseFails(h) \/ HeartbeatFails(h)

Next ==
  \/ Activity
  \/ \E h \in Holder : Start(h) \/ Driver(h) \/ Finish(h) \/ Faulty(h)
  \/ \E l \in Limits : SetLimit(l)
  \/ InvalidateCache
  \/ Tick

Spec == Init /\ [][Next]_vars

\* Workers run, timers fire and the work between acquire and release ends;
\* nothing makes a run start, a fault happen or an administrator act.
Fairness ==
  /\ WF_vars(Activity) /\ WF_vars(InvalidateCache) /\ WF_vars(Tick)
  /\ \A h \in Holder : WF_vars(Driver(h)) /\ WF_vars(Finish(h))

FairSpec == Spec /\ Fairness

-----------------------------------------------------------------------------
(* Properties.                                                             *)

\* The limits that an acquisition may enforce now: the one in the database or
\* one replaced less than Window ago.
InForce(sc) == {limit[sc]} \cup {r.limits[sc] : r \in recent}

Lapsed  == {h \in Holder : age[h] # None /\ age[h] >= TTL}
Leaving == {q.holder : q \in {r \in inflight : r.op = "release"}}

WorkflowSem == INSTANCE Semaphore WITH
  holders <- Held("workflow"), lapsed <- Lapsed, leaving <- Leaving,
  inForce <- InForce("workflow")

ActionSem == INSTANCE Semaphore WITH
  holders <- Held("action"), lapsed <- Lapsed, leaving <- Leaving,
  inForce <- InForce("action")

\* The scripts, with their own clocks, the cached limits and the activities
\* that run late, implement the semaphore of each scope: nobody is admitted at
\* or above every limit that was in force within Window, and no permit is
\* taken from a holder that neither lapsed nor asked for its release.
SemaphoreSpec == WorkflowSem!Spec /\ ActionSem!Spec

\* A run that acquired its permit still holds it, so that it is counted, as
\* long as the heartbeats it lost in a row leave room in the TTL and no late
\* release of an earlier round hit it.
RunningHoldsPermit ==
  \A h \in Holder :
    pc[h] = "running" /\ acquired[h]
      /\ (missed[h] + 1) * (HeartbeatInterval + MaxLag) + MaxLag < TTL
    => age[h] # None

\* A run that is over comes back to the semaphore only by an acquisition that
\* was abandoned and is still executed, never by a late heartbeat.
Over(h) == pc[h] \in {"idle", "done"}

NoResurrection ==
  [][\A h \in Holder :
       Over(h) /\ age[h] = None /\ age'[h] # None
         => \E q \in inflight : q.holder = h /\ q.op = "acquire"]_vars

\* The runs inside the run of h, itself included.
Within(h) ==
  {k \in Holder : \A S \in SUBSET Holder :
     h \in S /\ (\A j \in Holder : Parent[j] \in S => j \in S) => k \in S}

\* A run that started ends, also when it waits for a permit that its own
\* ancestors hold: the wait is bounded.  The one thing that holds it up is a
\* run inside it, or itself, that waits for a heartbeat task it cannot stop.
EveryRunEnds ==
  \A h \in Holder :
    ~ Over(h) ~> Over(h) \/ \E k \in Within(h) : pc[k] = "stopping"

\* The permit of a run that is over is freed or lapses, whatever became of the
\* release: no heartbeat keeps it alive.
SlotsFree ==
  \A h \in Holder : pc[h] = "done" ~> age[h] = None \/ age[h] >= TTL

\* What _run_cancellation_safe_cleanup says of itself: cleanup runs to
\* completion.  It does not when the heartbeat task swallowed the cancel.
CleanupCompletes ==
  \A h \in Holder : pc[h] = "stopping" ~> pc[h] # "stopping"
=============================================================================

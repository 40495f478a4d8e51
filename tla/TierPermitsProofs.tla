-------------------------- MODULE TierPermitsProofs --------------------------
(***************************************************************************)
(* Theorems about TierPermits, for every set of holders, every set of      *)
(* limits and every value of the timing constants.                         *)
(***************************************************************************)
EXTENDS TierPermits, TLAPS

-----------------------------------------------------------------------------
(* The inductive invariant.                                                *)

\* A request as the code makes it: only an acquisition looks up limits, and it
\* has them once they were read.
WellFormed(q) ==
  /\ q \in Requests
  /\ q.op = "acquire" => (q.stage = "read" <=> q.limits = None)
  /\ q.op # "acquire" => q.stage = "ready"

\* A change that waits for its invalidation is one of the counted ones.
TypeInv ==
  TypeOK /\ (\A q \in inflight : WellFormed(q)) /\ invalidating <= faults

\* The workflow code awaits at most one permit activity per holder, the one
\* that its program counter stands at.
Awaits(h, op) ==
  /\ op = "acquire" => pc[h] = "acquiring"
  /\ op = "release" => pc[h] = "releasing"
  /\ op = "heartbeat" => heartbeat[h] = Waiting

LiveFits(h) ==
  /\ \A q \in Waits(h) : Awaits(h, q.op)
  /\ \A q, r \in Waits(h) : q = r

\* The flag and the heartbeat task belong to a run that holds a permit, and a
\* heartbeat that is awaited is on its way.
DriverFits(h) ==
  /\ acquired[h] => pc[h] \in {"running", "stopping", "releasing"}
  /\ pc[h] \in {"running", "stopping"} => (acquired[h] <=> heartbeat[h] # Off)
  /\ pc[h] \notin {"running", "stopping"} => heartbeat[h] = Off
  /\ heartbeat[h] = Waiting => \E q \in Waits(h) : q.op = "heartbeat"

\* How old a permit may be whose heartbeat task has waited `since`: each lost
\* heartbeat costs an interval and an activity's time.
Period == HeartbeatInterval + MaxLag

FreshUntil(h, since) == MaxLag + missed[h] * Period + since

Beating(h) ==
  /\ heartbeat[h] >= 0 => age[h] <= FreshUntil(h, heartbeat[h])
  /\ \A q \in Waits(h) :
       q.op = "heartbeat" => age[h] <= FreshUntil(h, HeartbeatInterval + q.lag)

\* The holder runs on a permit, and the lost heartbeats leave room in the TTL.
Covered(h) ==
  pc[h] = "running" /\ acquired[h] /\ (missed[h] + 1) * Period + MaxLag < TTL

PermitFresh(h) == Covered(h) => age[h] # None /\ Beating(h)

RunInv == \A h \in Holder : LiveFits(h) /\ DriverFits(h) /\ PermitFresh(h)

\* The limits l were in the database at most a ago, where L is there now and R
\* was replaced lately.
KnownIn(L, R, l, a) == l = L \/ \E r \in R : r.limits = l /\ r.age <= a

\* The limits that the cache or an acquire in flight carries are current, or were
\* replaced no longer ago than its age allows.
LimitsKnown ==
  /\ cache # None => KnownIn(limit, recent, cache.limits, cache.age + MaxLag)
  /\ \A q \in inflight : q.op = "acquire" =>
       /\ q.stage = "fetched" => KnownIn(limit, recent, q.limits, q.lag)
       /\ q.stage = "ready" => KnownIn(limit, recent, q.limits, CacheTTL + MaxLag + q.lag)

-----------------------------------------------------------------------------
(* Type correctness.                                                       *)

\* A request that the workflow code sends is well formed.
LEMMA RequestWellFormed ==
  ASSUME NEW h \in Holder, NEW op \in {"acquire", "heartbeat", "release"}
  PROVE  WellFormed(Request(h, op))
  BY PermitConstants DEF WellFormed, Request, Requests

\* Abandoning requests only drops them or marks them as not awaited.
LEMMA AbandonMembers ==
  ASSUME TypeInv, NEW Q \in SUBSET inflight, NEW rest \in Abandon(Q), NEW q \in rest
  PROVE  \/ q \in inflight \ Q
         \/ \E p \in Q : q = [p EXCEPT !.live = FALSE] /\ ~ q.live
<1>1. \A p \in Q : [p EXCEPT !.live = FALSE].live = FALSE
  BY DEF TypeInv, TypeOK, Requests
<1>2. q \in inflight \ Q \/ q \in {[p EXCEPT !.live = FALSE] : p \in Q}
  BY DEF Abandon
<1>3. ASSUME NEW p \in Q, q = [p EXCEPT !.live = FALSE] PROVE ~ q.live
  BY <1>1, <1>3
<1> QED BY <1>2, <1>3

\* So what is left is well formed.
LEMMA AbandonWellFormed ==
  ASSUME TypeInv, NEW Q \in SUBSET inflight, NEW rest \in Abandon(Q)
  PROVE  \A q \in rest : WellFormed(q)
<1>1. \A p \in inflight : WellFormed([p EXCEPT !.live = FALSE])
  BY DEF TypeInv, WellFormed, Requests
<1> QED BY <1>1, AbandonMembers DEF TypeInv

\* What TypeOK says of the requests in flight.
LEMMA InflightType ==
  ASSUME NEW S, \A q \in S : WellFormed(q)
  PROVE  /\ S \subseteq Requests
         /\ \A q \in S : q.op = "acquire" => (q.stage = "read" <=> q.limits = None)
  BY DEF WellFormed

\* The initial state has its types.
LEMMA InitType == Init => TypeInv
  BY PermitConstants
     DEF Init, TypeInv, TypeOK, Scopes, MaxAge, Window, Off, Waiting

USE DEF Scopes, Off, Waiting

\* The acquire script writes ages in their range.
LEMMA ScriptType ==
  ASSUME TypeInv, NEW h \in Holder, NEW lim, NEW read \in 0..MaxLag
  PROVE  /\ AcquireScript(h, lim, read).age \in [Holder -> 0..MaxAge \cup {None}]
         /\ HeartbeatScript(h, read) \in [Holder -> 0..MaxAge \cup {None}]
<1>1. read \in 0..MaxAge
  BY PermitConstants DEF MaxAge
<1> QED BY <1>1 DEF AcquireScript, HeartbeatScript, Pruned, TypeInv, TypeOK

\* Every step keeps the types.
LEMMA TypeStep ==
  ASSUME TypeInv, [Next]_vars
  PROVE  TypeInv'
<1> USE PermitConstants
<1>1. ASSUME NEW q \in inflight, ReadLimits(q) PROVE TypeInv'
  <2>1. WellFormed(q) /\ q.holder \in Holder
    BY DEF TypeInv, WellFormed, Requests
  <2>2. \A l \in Limits, st \in {"ready", "fetched"} :
          WellFormed([q EXCEPT !.stage = st, !.limits = l])
    BY <1>1, <2>1 DEF WellFormed, Requests, ReadLimits
  <2>3. cache # None => cache.limits \in Limits
    BY DEF TypeInv, TypeOK
  <2>4. \A r \in inflight' : WellFormed(r)
    <3>1. limit \in Limits
      BY DEF TypeInv, TypeOK
    <3>2. PICK l \in Limits, st \in {"ready", "fetched"} :
            inflight' = (inflight \ {q}) \cup {[q EXCEPT !.stage = st, !.limits = l]}
      BY <1>1, <2>3, <3>1 DEF ReadLimits
    <3> DEFINE n == [q EXCEPT !.stage = st, !.limits = l]
    <3>3. WellFormed(n)
      BY <2>2
    <3>4. inflight' = (inflight \ {q}) \cup {n}
      BY <3>2
    <3> HIDE DEF n
    <3> QED BY <3>3, <3>4 DEF TypeInv
  <2> QED BY <1>1, <2>4, InflightType
          DEF ReadLimits, TypeInv, TypeOK, redisVars, driverVars
<1>2. ASSUME NEW q \in inflight, SetLimitsCache(q) PROVE TypeInv'
  <2>1. WellFormed(q) /\ q.op = "acquire" /\ q.limits \in Limits
    BY <1>2 DEF TypeInv, WellFormed, Requests, SetLimitsCache
  <2>2. \A r \in inflight' : WellFormed(r)
    BY <1>2, <2>1 DEF SetLimitsCache, TypeInv, WellFormed, Requests
  <2>3. cache' \in [limits : Limits, age : 0..CacheTTL] \cup {None}
    BY <1>2, <2>1 DEF SetLimitsCache, FreshCache, TypeInv, TypeOK
  <2> QED BY <1>2, <2>2, <2>3, InflightType DEF SetLimitsCache, TypeInv, TypeOK, driverVars
<1>3. ASSUME NEW q \in inflight, RunRelease(q) PROVE TypeInv'
  <2>1. q.holder \in Holder
    BY DEF TypeInv, WellFormed, Requests
  <2>2. \A r \in inflight' : WellFormed(r)
    BY <1>3 DEF RunRelease, TypeInv
  <2> QED BY <1>3, <2>1, <2>2, InflightType
          DEF RunRelease, TypeInv, TypeOK, Ended
<1>4. ASSUME NEW q \in inflight, NEW read \in 0..q.lag, RunAcquire(q, read) PROVE TypeInv'
  <2>1. WellFormed(q) /\ q.holder \in Holder /\ read \in 0..MaxLag
    BY <1>4 DEF TypeInv, WellFormed, Requests
  <2>2. WellFormed(Request(q.holder, "release"))
    BY <2>1, RequestWellFormed
  <2>3. \A r \in inflight' : WellFormed(r)
    BY <1>4, <2>2 DEF RunAcquire, Raise, Granted, Rejected, TypeInv
  <2>4. age' \in [Holder -> 0..MaxAge \cup {None}]
    BY <1>4, <2>1, ScriptType DEF RunAcquire, TypeInv, TypeOK
  <2>5. pc' \in [Holder -> {"idle", "acquiring", "backoff", "awake", "running",
                            "stopping", "releasing", "done"}]
    BY <1>4, <2>1 DEF RunAcquire, Raise, Granted, Rejected, TypeInv, TypeOK, Ended
  <2>6. acquired' \in [Holder -> BOOLEAN]
    BY <1>4, <2>1 DEF RunAcquire, Granted, Rejected, TypeInv, TypeOK
  <2>7. heartbeat' \in [Holder -> Waiting..HeartbeatInterval]
    BY <1>4, <2>1 DEF RunAcquire, Granted, Rejected, TypeInv, TypeOK
  <2>8. missed' \in [Holder -> Nat]
    BY <1>4, <2>1 DEF RunAcquire, TypeInv, TypeOK
  <2> QED BY <1>4, <2>3, <2>4, <2>5, <2>6, <2>7, <2>8, InflightType DEF RunAcquire, TypeInv, TypeOK
<1>5. ASSUME NEW q \in inflight, NEW read \in 0..q.lag, RunHeartbeat(q, read) PROVE TypeInv'
  <2>1. q.holder \in Holder /\ read \in 0..MaxLag
    BY <1>5 DEF TypeInv, WellFormed, Requests
  <2>2. \A r \in inflight' : WellFormed(r)
    BY <1>5 DEF RunHeartbeat, TypeInv
  <2>3. age' \in [Holder -> 0..MaxAge \cup {None}]
    BY <1>5, <2>1, ScriptType DEF RunHeartbeat
  <2> QED BY <1>5, <2>1, <2>2, <2>3, InflightType DEF RunHeartbeat, TypeInv, TypeOK
<1>6. ASSUME NEW h \in Holder, Start(h) PROVE TypeInv'
  <2>1. \A r \in inflight' : WellFormed(r)
    BY <1>6, RequestWellFormed DEF Start, Send, TypeInv
  <2>2. WorkflowTier(h) \in Limits
    BY DEF WorkflowTier, TypeInv, TypeOK
  <2>3. pc' \in [Holder -> {"idle", "acquiring", "backoff", "awake", "running",
                            "stopping", "releasing", "done"}]
    <3>1. \E l \in {"running", "acquiring"} : pc' = [pc EXCEPT ![h] = l]
      BY <1>6 DEF Start
    <3> QED BY <3>1 DEF TypeInv, TypeOK
  <2> QED BY <1>6, <2>1, <2>2, <2>3, InflightType DEF Start, TypeInv, TypeOK, redisVars
<1>7. ASSUME NEW h \in Holder, Retry(h) PROVE TypeInv'
  <2>1. \A r \in inflight' : WellFormed(r)
    BY <1>7, RequestWellFormed DEF Retry, Send, TypeInv
  <2> QED BY <1>7, <2>1, InflightType DEF Retry, TypeInv, TypeOK, redisVars
<1>8. ASSUME NEW h \in Holder, Beat(h) PROVE TypeInv'
  <2>1. \A r \in inflight' : WellFormed(r)
    BY <1>8, RequestWellFormed DEF Beat, Send, TypeInv
  <2> QED BY <1>8, <2>1, InflightType DEF Beat, TypeInv, TypeOK, redisVars
<1>9. ASSUME NEW h \in Holder, Finish(h) PROVE TypeInv'
  <2>1. \A r \in inflight' : WellFormed(r)
    BY <1>9, RequestWellFormed, AbandonWellFormed
       DEF Finish, CancelSwallowed, NextBeat, Send, Waits, TypeInv
  <2>2. pc' \in [Holder -> {"idle", "acquiring", "backoff", "awake", "running",
                            "stopping", "releasing", "done"}]
    BY <1>9 DEF Finish, CancelSwallowed, Ended, TypeInv, TypeOK
  <2>3. Older(missed[h], TTL) \in Nat
    BY DEF Older, TypeInv, TypeOK
  <2>4. heartbeat' = [heartbeat EXCEPT ![h] = 0] \/ heartbeat' = [heartbeat EXCEPT ![h] = Off]
    BY <1>9 DEF Finish, CancelSwallowed, NextBeat, StopHeartbeat
  <2>5. missed' = [missed EXCEPT ![h] = Older(missed[h], TTL)] \/ missed' = missed
    BY <1>9 DEF Finish, CancelSwallowed, NextBeat
  <2>6. heartbeat' \in [Holder -> Waiting..HeartbeatInterval] /\ missed' \in [Holder -> Nat]
    <3>1. heartbeat \in [Holder -> Waiting..HeartbeatInterval] /\ missed \in [Holder -> Nat]
      BY DEF TypeInv, TypeOK
    <3>2. Off \in Waiting..HeartbeatInterval /\ 0 \in Waiting..HeartbeatInterval
      OBVIOUS
    <3> QED BY <2>3, <2>4, <2>5, <3>1, <3>2
  <2> QED BY <1>9, <2>1, <2>2, <2>6, InflightType DEF Finish, TypeInv, TypeOK, redisVars
<1>10. ASSUME NEW h \in Holder, AcquireFails(h) PROVE TypeInv'
  <2>1. \A r \in inflight' : WellFormed(r)
    BY <1>10, RequestWellFormed, AbandonWellFormed DEF AcquireFails, Raise, Waits
  <2>2. pc' \in [Holder -> {"idle", "acquiring", "backoff", "awake", "running",
                            "stopping", "releasing", "done"}]
    <3>1. \E l \in {"releasing", "idle", "done"} : pc' = [pc EXCEPT ![h] = l]
      BY <1>10 DEF AcquireFails, Raise, Ended
    <3> QED BY <3>1 DEF TypeInv, TypeOK
  <2> QED BY <1>10, <2>1, <2>2, InflightType
          DEF AcquireFails, Fault, TypeInv, TypeOK, redisVars
<1>11. ASSUME NEW h \in Holder, ReleaseFails(h) PROVE TypeInv'
  <2>1. \A r \in inflight' : WellFormed(r)
    BY <1>11, AbandonWellFormed DEF ReleaseFails, Waits
  <2> QED BY <1>11, <2>1, InflightType
          DEF ReleaseFails, Fault, Ended, TypeInv, TypeOK, redisVars
<1>12. ASSUME NEW h \in Holder, HeartbeatFails(h) PROVE TypeInv'
  <2>1. \A r \in inflight' : WellFormed(r)
    BY <1>12, AbandonWellFormed DEF HeartbeatFails, NextBeat, Waits
  <2> QED BY <1>12, <2>1, InflightType
          DEF HeartbeatFails, Fault, NextBeat, Older, TypeInv, TypeOK, redisVars
<1>13. ASSUME NEW l \in Limits, SetLimit(l) PROVE TypeInv'
  BY <1>13 DEF SetLimit, Fault, Window, TypeInv, TypeOK, driverVars
<1>14. CASE InvalidateCache
  BY <1>14 DEF InvalidateCache, TypeInv, TypeOK, driverVars
<1>15. CASE Tick
  <2>1. \A r \in inflight' : WellFormed(r)
    BY <1>15 DEF Tick, Timely, TypeInv, WellFormed, Requests
  <2>2. age' \in [Holder -> 0..MaxAge \cup {None}]
    BY <1>15 DEF Tick, Older, MaxAge, TypeInv, TypeOK
  <2>3. cache' \in [limits : Limits, age : 0..CacheTTL] \cup {None}
    BY <1>15 DEF Tick, AgedCache, TypeInv, TypeOK
  <2>4. recent' \subseteq [limits : Limits, age : 0..Window]
    <3>1. \A r \in recent : r.age < Window
            => [r EXCEPT !.age = @ + 1] \in [limits : Limits, age : 0..Window]
      BY DEF Window, TypeInv, TypeOK
    <3> QED BY <1>15, <3>1 DEF Tick
  <2>5. /\ pc' \in [Holder -> {"idle", "acquiring", "backoff", "awake", "running",
                               "stopping", "releasing", "done"}]
        /\ waited' \in [Holder -> Nat]
    BY <1>15 DEF Tick, Older, TypeInv, TypeOK
  <2>6. heartbeat' \in [Holder -> Waiting..HeartbeatInterval]
    <3>1. \A h \in Holder : /\ heartbeat[h] \in Waiting..HeartbeatInterval
                            /\ heartbeat[h] # HeartbeatInterval
      BY <1>15 DEF Tick, Timely, TypeInv, TypeOK
    <3>2. \A h \in Holder : heartbeat[h] \notin {Off, Waiting}
                              => heartbeat[h] + 1 \in Waiting..HeartbeatInterval
      BY <3>1
    <3> QED BY <1>15, <3>1, <3>2 DEF Tick
  <2> QED BY <1>15, <2>1, <2>2, <2>3, <2>4, <2>5, <2>6, InflightType
          DEF Tick, TypeInv, TypeOK
<1>16. CASE UNCHANGED vars
  BY <1>16 DEF vars, redisVars, driverVars, TypeInv, TypeOK
<1> QED BY <1>1, <1>2, <1>3, <1>4, <1>5, <1>6, <1>7, <1>8, <1>9, <1>10, <1>11, <1>12,
           <1>13, <1>14, <1>15, <1>16 DEF Next, Activity, Driver, Faulty

\* The semaphore, the requests and the workflow code stay in their types.
THEOREM PermitTypes == Spec => []TypeOK
<1>1. TypeInv => TypeOK
  BY DEF TypeInv
<1> QED BY <1>1, InitType, TypeStep, PTL DEF Spec

-----------------------------------------------------------------------------
(* The refinement.                                                         *)

\* q does the work of a request that was in flight before.
SameWork(q, p) == q.op = p.op /\ q.stage = p.stage /\ q.limits = p.limits /\ q.lag = p.lag

\* A request after a step that neither reads limits nor lets time pass goes on
\* with its work or starts with none.
Carried(q) ==
  \/ \E p \in inflight : SameWork(q, p)
  \/ q.op = "acquire" => q.stage = "read"

\* Abandoned requests go on with their work.
LEMMA AbandonCarried ==
  ASSUME TypeInv, NEW Q \in SUBSET inflight, NEW rest \in Abandon(Q), NEW q \in rest
  PROVE  Carried(q)
<1>1. \A p \in inflight : SameWork([p EXCEPT !.live = FALSE], p) /\ SameWork(p, p)
  BY DEF TypeInv, TypeOK, Requests, SameWork
<1>2. CASE q \in inflight \ Q
  BY <1>1, <1>2 DEF Carried
<1>3. ASSUME NEW p \in Q, q = [p EXCEPT !.live = FALSE] PROVE Carried(q)
  BY <1>1, <1>3 DEF Carried
<1> QED BY <1>2, <1>3, AbandonMembers

\* A new request has not looked up its limits.
LEMMA RequestCarried ==
  ASSUME NEW h, NEW op PROVE Carried(Request(h, op))
  BY DEF Carried, Request

\* Steps of the workflow code and the scripts carry every request on.
LEMMA StepCarried ==
  ASSUME TypeInv,
         \/ \E h \in Holder : Start(h) \/ Driver(h) \/ Finish(h) \/ Faulty(h)
         \/ \E q \in inflight : \/ RunRelease(q)
                                \/ \E read \in 0..q.lag :
                                     RunAcquire(q, read) \/ RunHeartbeat(q, read)
  PROVE  /\ \A q \in inflight' : Carried(q)
         /\ UNCHANGED <<cache, limit, recent>>
<1>1. \A q \in inflight : Carried(q)
  BY DEF Carried, SameWork
<1>2. ASSUME NEW h \in Holder, Start(h) \/ Driver(h)
      PROVE  \A q \in inflight' : Carried(q)
  BY <1>1, <1>2, RequestCarried DEF Start, Driver, Retry, Beat, Send
<1>3. ASSUME NEW h \in Holder, Finish(h) \/ Faulty(h)
      PROVE  \A q \in inflight' : Carried(q)
  <2>1. PICK rest \in Abandon(Waits(h)) \cup {inflight} :
          inflight' = rest \/ inflight' = rest \cup {Request(h, "release")}
    BY <1>3 DEF Finish, CancelSwallowed, NextBeat, Send, Faulty, AcquireFails, ReleaseFails,
                HeartbeatFails, Raise
  <2>2. \A q \in rest : Carried(q)
    BY <1>1, AbandonCarried DEF Waits
  <2> QED BY <2>1, <2>2, RequestCarried
<1>4. ASSUME NEW q \in inflight, RunRelease(q)
      PROVE  \A r \in inflight' : Carried(r)
  BY <1>1, <1>4 DEF RunRelease
<1>5. ASSUME NEW q \in inflight, NEW read, RunAcquire(q, read) \/ RunHeartbeat(q, read)
      PROVE  \A r \in inflight' : Carried(r)
  BY <1>1, <1>5, RequestCarried DEF RunAcquire, RunHeartbeat, Raise, Granted, Rejected
<1>6. UNCHANGED <<cache, limit, recent>>
  BY DEF Start, Driver, Retry, Beat, Finish, Faulty, AcquireFails, ReleaseFails,
         HeartbeatFails, RunRelease, RunAcquire, RunHeartbeat, redisVars
<1> QED BY <1>2, <1>3, <1>4, <1>5, <1>6

\* A step that carries its requests on keeps what is known of their limits.
LEMMA CarriedKnown ==
  ASSUME TypeInv, LimitsKnown, UNCHANGED <<cache, limit, recent>>,
         \A q \in inflight' : Carried(q)
  PROVE  LimitsKnown'
<1>1. \A l, a : KnownIn(limit', recent', l, a) <=> KnownIn(limit, recent, l, a)
  BY DEF KnownIn
<1>2. ASSUME NEW q \in inflight', q.op = "acquire"
      PROVE  /\ q.stage = "fetched" => KnownIn(limit, recent, q.limits, q.lag)
             /\ q.stage = "ready" => KnownIn(limit, recent, q.limits, CacheTTL + MaxLag + q.lag)
  BY <1>2 DEF Carried, SameWork, LimitsKnown
<1> QED BY <1>1, <1>2 DEF LimitsKnown

\* The limits that requests and the cache carry stay recent: a change of the
\* limits puts the old ones into recent, and whatever still uses them ages with
\* them and is gone before they are dropped.
LEMMA KnownStep ==
  ASSUME TypeInv, LimitsKnown, [Next]_vars
  PROVE  LimitsKnown'
<1> USE PermitConstants
<1>1. ASSUME NEW q \in inflight, ReadLimits(q) PROVE LimitsKnown'
  <2>1. /\ q.op = "acquire" /\ q \in Requests
        /\ \A l, a : KnownIn(limit', recent', l, a) <=> KnownIn(limit, recent, l, a)
        /\ cache' = cache
    BY <1>1 DEF ReadLimits, redisVars, KnownIn, TypeInv, TypeOK
  <2>2. q.lag \in Nat /\ (cache # None => cache.age \in 0..CacheTTL)
    BY <2>1 DEF Requests, TypeInv, TypeOK
  <2>3. ASSUME NEW l, NEW st \in {"ready", "fetched"},
               inflight' = (inflight \ {q}) \cup {[q EXCEPT !.stage = st, !.limits = l]},
               st = "fetched" => l = limit,
               st = "ready" => cache # None /\ l = cache.limits
        PROVE  LimitsKnown'
    <3> DEFINE n == [q EXCEPT !.stage = st, !.limits = l]
    <3>1. n.op = "acquire" /\ n.stage = st /\ n.limits = l /\ n.lag = q.lag
      BY <2>1 DEF Requests
    <3>2. st = "fetched" => KnownIn(limit, recent, l, q.lag)
      BY <2>3 DEF KnownIn
    <3>3. st = "ready" => KnownIn(limit, recent, l, CacheTTL + MaxLag + q.lag)
      <4>1. ASSUME NEW r \in recent, cache # None, r.age <= cache.age + MaxLag
            PROVE  r.age <= CacheTTL + MaxLag + q.lag
        <5>1. r.age \in Nat
          BY DEF TypeInv, TypeOK, Window
        <5> QED BY <2>2, <4>1, <5>1
      <4> QED BY <2>3, <4>1 DEF LimitsKnown, KnownIn
    <3>4. inflight' = (inflight \ {q}) \cup {n}
      BY <2>3
    <3> HIDE DEF n
    <3> QED BY <2>1, <3>1, <3>2, <3>3, <3>4 DEF LimitsKnown
  <2> QED BY <1>1, <2>3 DEF ReadLimits
<1>2. ASSUME NEW q \in inflight, SetLimitsCache(q) PROVE LimitsKnown'
  <2>1. q \in Requests /\ q.op = "acquire" /\ q.lag \in 0..MaxLag
    BY <1>2 DEF SetLimitsCache, TypeInv, WellFormed, Requests
  <2>2. \A l, a : KnownIn(limit', recent', l, a) <=> KnownIn(limit, recent, l, a)
    BY <1>2 DEF SetLimitsCache, KnownIn
  <2>3. KnownIn(limit, recent, q.limits, q.lag)
    BY <1>2, <2>1 DEF SetLimitsCache, LimitsKnown
  <2>4. KnownIn(limit, recent, q.limits, MaxLag) /\ KnownIn(limit, recent, q.limits, CacheTTL + MaxLag + q.lag)
    <3>1. \A r \in recent : r.age \in Nat
      BY DEF TypeInv, TypeOK, Window
    <3> QED BY <2>1, <2>3, <3>1 DEF KnownIn
  <2>5. cache' # None => KnownIn(limit, recent, cache'.limits, cache'.age + MaxLag)
    <3>1. CASE cache' = FreshCache(q.limits)
      BY <2>4, <3>1 DEF FreshCache
    <3> QED BY <1>2, <3>1 DEF SetLimitsCache, LimitsKnown
  <2> DEFINE n == [q EXCEPT !.stage = "ready"]
  <2>6. n.op = "acquire" /\ n.stage = "ready" /\ n.limits = q.limits /\ n.lag = q.lag
    BY <2>1 DEF Requests
  <2>7. inflight' = (inflight \ {q}) \cup {n}
    BY <1>2 DEF SetLimitsCache
  <2> HIDE DEF n
  <2> QED BY <2>2, <2>4, <2>5, <2>6, <2>7 DEF LimitsKnown
<1>3. ASSUME NEW l \in Limits, SetLimit(l) PROVE LimitsKnown'
  <2>1. \A k, a : KnownIn(limit, recent, k, a) /\ a \in Nat => KnownIn(limit', recent', k, a)
    <3>1. \E r \in recent' : r.limits = limit /\ r.age = 0
      <4>1. [limits |-> limit, age |-> 0] \in recent'
        BY <1>3 DEF SetLimit
      <4> QED BY <4>1
    <3>2. recent \subseteq recent'
      BY <1>3 DEF SetLimit
    <3>3. \A a \in Nat : 0 <= a
      OBVIOUS
    <3> QED BY <3>1, <3>2, <3>3 DEF KnownIn
  <2>2. \A q \in inflight : q.lag \in Nat
    BY DEF TypeInv, TypeOK, Requests
  <2>3. cache # None => cache.age \in Nat
    BY DEF TypeInv, TypeOK
  <2>4. UNCHANGED <<cache, inflight>>
    BY <1>3 DEF SetLimit
  <2> QED BY <2>1, <2>2, <2>3, <2>4 DEF LimitsKnown
<1>4. CASE InvalidateCache
  BY <1>4 DEF InvalidateCache, LimitsKnown, KnownIn
<1>5. CASE Tick
  <2>1. \A k, a : KnownIn(limit, recent, k, a) /\ a \in Nat /\ a < Window => KnownIn(limit', recent', k, a + 1)
    <3>1. ASSUME NEW r \in recent, NEW a \in Nat, r.age <= a, a < Window
          PROVE  \E s \in recent' : s.limits = r.limits /\ s.age <= a + 1
      <4>1. r \in [limits : Limits, age : 0..Window]
        BY DEF TypeInv, TypeOK
      <4> DEFINE s == [r EXCEPT !.age = @ + 1]
      <4>2. s \in recent'
        <5>1. r.age < Window
          BY <3>1, <4>1 DEF Window
        <5> QED BY <1>5, <5>1 DEF Tick
      <4>3. s.limits = r.limits /\ s.age = r.age + 1
        BY <4>1
      <4> QED BY <3>1, <4>1, <4>2, <4>3 DEF Window
    <3> QED BY <1>5, <3>1 DEF KnownIn, Tick
  <2>2. cache' # None => KnownIn(limit', recent', cache'.limits, cache'.age + MaxLag)
    <3>1. SUFFICES ASSUME cache' # None PROVE KnownIn(limit', recent', cache'.limits, cache'.age + MaxLag)
      OBVIOUS
    <3>2. /\ cache \in [limits : Limits, age : 0..CacheTTL]
          /\ cache.age + 1 < CacheTTL
          /\ cache' = [cache EXCEPT !.age = @ + 1]
      BY <1>5, <3>1 DEF Tick, AgedCache, TypeInv, TypeOK
    <3>3. cache # None
      BY <1>5, <3>1 DEF Tick, AgedCache
    <3>4. cache'.limits = cache.limits /\ cache'.age = cache.age + 1
      BY <3>2
    <3>5. cache.age + MaxLag \in Nat /\ cache.age + MaxLag < Window
      BY <3>2 DEF Window
    <3>6. KnownIn(limit', recent', cache.limits, (cache.age + MaxLag) + 1)
      BY <2>1, <3>3, <3>5 DEF LimitsKnown
    <3>7. (cache.age + MaxLag) + 1 = cache'.age + MaxLag
      BY <3>2, <3>4
    <3> QED BY <3>4, <3>6, <3>7
  <2>3. ASSUME NEW q \in inflight', q.op = "acquire"
        PROVE  /\ q.stage = "fetched" => KnownIn(limit', recent', q.limits, q.lag)
               /\ q.stage = "ready"
                    => KnownIn(limit', recent', q.limits, CacheTTL + MaxLag + q.lag)
    <3>0. PICK p \in inflight : q = [p EXCEPT !.lag = @ + 1]
      BY <1>5 DEF Tick
    <3>1. p \in Requests /\ p.lag \in 0..MaxLag /\ p.lag < MaxLag
      BY <1>5 DEF Tick, Timely, TypeInv, TypeOK, Requests
    <3>2. /\ q.op = p.op /\ q.stage = p.stage /\ q.limits = p.limits
          /\ q.lag = p.lag + 1
      BY <3>0, <3>1 DEF Requests
    <3>3. p.lag \in Nat /\ p.lag < Window
      BY <3>1 DEF Window
    <3>4. CacheTTL + MaxLag + p.lag \in Nat /\ CacheTTL + MaxLag + p.lag < Window
      BY <3>1 DEF Window
    <3>5. p.stage = "fetched" => KnownIn(limit', recent', p.limits, p.lag + 1)
      BY <2>1, <2>3, <3>2, <3>3 DEF LimitsKnown
    <3>6. p.stage = "ready" => KnownIn(limit', recent', p.limits, (CacheTTL + MaxLag + p.lag) + 1)
      BY <2>1, <2>3, <3>2, <3>4 DEF LimitsKnown
    <3>7. (CacheTTL + MaxLag + p.lag) + 1 = CacheTTL + MaxLag + (p.lag + 1)
      BY <3>1
    <3> QED BY <3>2, <3>5, <3>6, <3>7
  <2> QED BY <2>2, <2>3 DEF LimitsKnown
<1>6. CASE UNCHANGED vars
  BY <1>6 DEF vars, redisVars, LimitsKnown, KnownIn
<1> QED BY <1>1, <1>2, <1>3, <1>4, <1>5, <1>6, StepCarried, CarriedKnown
        DEF Next, Activity

\* What the acquire script does to the holders of its own scope: it drops
\* lapsed ones and admits, if anybody, its holder.
Below(n, l) == IF l = NoLimit THEN TRUE ELSE n < l
Gone(sc, read) == {k \in Held(sc) : Stale(k, read)}

\* What the acquire script does to the holders of a scope: it drops lapsed ones,
\* and adds the caller if it was counted already or there is room.
LEMMA AcquireHeld ==
  ASSUME TypeInv, NEW h \in Holder, NEW lim, NEW read \in 0..MaxLag, NEW sc,
         sc = Scope[h], age' = AcquireScript(h, lim, read).age
  PROVE  /\ Gone(sc, read) \subseteq Held(sc) \cap Lapsed
         /\ \/ /\ Held(sc)' = (Held(sc) \ Gone(sc, read)) \cup {h}
               /\ \/ h \in Held(sc) \ Gone(sc, read)
                  \/ Below(Cardinality(Held(sc) \ Gone(sc, read)), lim)
            \/ Held(sc)' = Held(sc) \ Gone(sc, read)
<1> USE PermitConstants
<1> DEFINE gone == Gone(sc, read)
           p == Pruned(sc, read)
           n == Cardinality({k \in Holder : Scope[k] = sc /\ p[k] # None})
           ok == p[h] # None \/ lim = NoLimit \/ n < lim
<1>1. \A k \in Holder : age[k] # None => age[k] \in Nat
  BY DEF TypeInv, TypeOK, MaxAge
<1>2. gone \subseteq Held(sc) \cap Lapsed
  BY <1>1 DEF Gone, Stale, Held, Lapsed
<1>3. {k \in Holder : Scope[k] = sc /\ p[k] # None} = Held(sc) \ gone
  BY DEF Gone, Pruned, Held
<1>4. p[h] # None <=> h \in Held(sc) \ gone
  BY <1>3
<1>5. age' = IF ok THEN [p EXCEPT ![h] = read] ELSE p
  BY DEF AcquireScript
<1>6. \A k \in Holder : p[k] = IF Scope[k] = sc /\ Stale(k, read) THEN None ELSE age[k]
  BY DEF Pruned
<1>7. CASE ok
  <2>1. \A k \in Holder : age'[k] = IF k = h THEN read ELSE p[k]
    BY <1>5, <1>7 DEF Pruned
  <2>2. Held(sc)' = (Held(sc) \ gone) \cup {h}
    BY <1>6, <2>1 DEF Gone, Held
  <2> QED BY <1>2, <1>3, <1>4, <1>7, <2>2 DEF Below
<1>8. CASE ~ ok
  <2>1. age' = p
    BY <1>5, <1>8
  <2>2. Held(sc)' = Held(sc) \ gone
    BY <1>6, <2>1 DEF Gone, Held
  <2> QED BY <1>2, <2>2
<1> QED BY <1>7, <1>8

\* One step as a scope's semaphore sees it.
HeldMoves(sc) ==
  \/ \E h \in Holder, gone \in SUBSET Held(sc) :
       /\ gone \subseteq Held(sc) \cap Lapsed
       /\ \/ h \in Held(sc) \ gone
          \/ \E l \in InForce(sc) : Below(Cardinality(Held(sc) \ gone), l)
       /\ Held(sc)' = (Held(sc) \ gone) \cup {h}
  \/ \E gone \in SUBSET Held(sc) :
       gone \subseteq Held(sc) \cap Lapsed /\ Held(sc)' = Held(sc) \ gone
  \/ \E h \in Held(sc) : h \in Leaving /\ Held(sc)' = Held(sc) \ {h}

\* Every step admits, drops and releases as the semaphore may, or leaves the
\* holders alone.
LEMMA HeldStep ==
  ASSUME TypeInv, LimitsKnown, [Next]_vars, NEW sc \in Scopes
  PROVE  HeldMoves(sc) \/ Held(sc)' = Held(sc)
<1> USE PermitConstants
<1>1. ASSUME NEW q \in inflight, NEW read \in 0..q.lag, RunAcquire(q, read)
      PROVE  HeldMoves(sc) \/ Held(sc)' = Held(sc)
  <2> DEFINE h == q.holder
             lim == q.limits[Scope[h]]
  <2>1. q \in Requests /\ h \in Holder /\ read \in 0..MaxLag /\ read \in Nat
    BY DEF TypeInv, TypeOK, Requests
  <2>2. age' = age \/ age' = AcquireScript(h, lim, read).age
    BY <1>1 DEF RunAcquire
  <2>3. CASE age' = age
    BY <2>3 DEF Held
  <2>4. CASE age' = AcquireScript(h, lim, read).age /\ sc # Scope[h]
    <3>1. \A k \in Holder : Scope[k] = sc => age'[k] = age[k]
      BY <2>1, <2>4 DEF AcquireScript, Pruned
    <3> QED BY <3>1 DEF Held
  <2>5. CASE age' = AcquireScript(h, lim, read).age /\ sc = Scope[h]
    <3> DEFINE gone == Gone(sc, read)
    <3>1. /\ gone \subseteq Held(sc) \cap Lapsed
          /\ \/ /\ Held(sc)' = (Held(sc) \ gone) \cup {h}
                /\ \/ h \in Held(sc) \ gone
                   \/ Below(Cardinality(Held(sc) \ gone), lim)
             \/ Held(sc)' = Held(sc) \ gone
      <4>1. h \in Holder /\ read \in 0..MaxLag /\ sc = Scope[h]
        BY <2>1, <2>5
      <4>2. age' = AcquireScript(h, lim, read).age
        BY <2>5
      <4> HIDE DEF lim, h
      <4>3. gone \subseteq Held(sc) \cap Lapsed
        BY <4>1, <4>2, AcquireHeld
      <4>4. Held(sc)' = (Held(sc) \ gone) \cup {h} \/ Held(sc)' = Held(sc) \ gone
        BY <4>1, <4>2, AcquireHeld
      <4>5. \/ Held(sc)' = Held(sc) \ gone
            \/ h \in Held(sc) \ gone
            \/ Below(Cardinality(Held(sc) \ gone), lim)
        BY <4>1, <4>2, AcquireHeld
      <4> QED BY <4>3, <4>4, <4>5
    <3>2. lim \in InForce(sc)
      BY <1>1, <2>5 DEF RunAcquire, LimitsKnown, KnownIn, InForce
    <3>3. gone \in SUBSET Held(sc)
      BY DEF Gone
    <3> HIDE DEF gone, lim
    <3> QED BY <2>1, <3>1, <3>2, <3>3 DEF HeldMoves
  <2> QED BY <2>2, <2>3, <2>4, <2>5
<1>2. ASSUME NEW q \in inflight, RunRelease(q)
      PROVE  HeldMoves(sc) \/ Held(sc)' = Held(sc)
  <2>1. q.holder \in Holder /\ q.holder \in Leaving
    BY <1>2 DEF TypeInv, TypeOK, Requests, RunRelease, Leaving
  <2>2. Held(sc)' = Held(sc) \ {q.holder}
    BY <1>2, <2>1 DEF RunRelease, Held, TypeInv, TypeOK
  <2> QED BY <2>1, <2>2 DEF HeldMoves
<1>3. ASSUME NEW q \in inflight, NEW read \in 0..q.lag, RunHeartbeat(q, read)
      PROVE  Held(sc)' = Held(sc)
  <2>1. q.holder \in Holder /\ read # None
    BY DEF TypeInv, TypeOK, Requests
  <2> QED BY <1>3, <2>1 DEF RunHeartbeat, HeartbeatScript, Held, TypeInv, TypeOK
<1>4. CASE Tick
  <2>1. \A k \in Holder : age'[k] = None <=> age[k] = None
    BY <1>4 DEF Tick, Older, MaxAge, TypeInv, TypeOK
  <2> QED BY <2>1 DEF Held
<1>5. CASE age' = age
  BY <1>5 DEF Held
<1> QED BY <1>1, <1>2, <1>3, <1>4, <1>5
        DEF Next, Activity, ReadLimits, SetLimitsCache, Start, Driver, Retry, Beat, Finish,
            Faulty, AcquireFails, ReleaseFails, HeartbeatFails, SetLimit, InvalidateCache,
            redisVars, vars

\* The instances count holders as this module does.
LEMMA SameCount ==
  ASSUME NEW S
  PROVE  /\ WorkflowSem!Cardinality(S) = Cardinality(S)
         /\ ActionSem!Cardinality(S) = Cardinality(S)
<1>1. WorkflowSem!Cardinality(S) = Cardinality(S)
  BY DEF WorkflowSem!Cardinality, Cardinality
<1>2. ActionSem!Cardinality(S) = Cardinality(S)
  BY DEF ActionSem!Cardinality, Cardinality
<1> QED BY <1>1, <1>2

\* The scripts with their own clocks, the cache of limits and the activities
\* that run late or after they were given up implement the semaphore of each
\* scope: nobody is admitted at or above every limit in force within Window,
\* and a permit is taken only from a holder that lapsed or asked for it.
THEOREM PermitsImplementSemaphore == Spec => SemaphoreSpec
<1> DEFINE IInv == TypeInv /\ LimitsKnown
<1>1. Init => IInv
  BY InitType DEF Init, LimitsKnown
<1>2. IInv /\ [Next]_vars => IInv'
  BY TypeStep, KnownStep
<1>3. Init => WorkflowSem!Init /\ ActionSem!Init
  BY DEF Init, WorkflowSem!Init, ActionSem!Init, Held
<1>4. IInv /\ [Next]_vars => [WorkflowSem!Next]_(Held("workflow"))
  <2>1. ASSUME HeldMoves("workflow") PROVE WorkflowSem!Next
    BY <2>1, SameCount DEF HeldMoves, WorkflowSem!Next, WorkflowSem!Acquire, WorkflowSem!Drop,
                WorkflowSem!Release, WorkflowSem!Below, Below
  <2> QED BY <2>1, HeldStep
<1>5. IInv /\ [Next]_vars => [ActionSem!Next]_(Held("action"))
  <2>1. ASSUME HeldMoves("action") PROVE ActionSem!Next
    BY <2>1, SameCount DEF HeldMoves, ActionSem!Next, ActionSem!Acquire, ActionSem!Drop,
                ActionSem!Release, ActionSem!Below, Below
  <2> QED BY <2>1, HeldStep
<1> QED BY <1>1, <1>2, <1>3, <1>4, <1>5, PTL
        DEF Spec, SemaphoreSpec, WorkflowSem!Spec, ActionSem!Spec

-----------------------------------------------------------------------------
(* A running holder is counted.                                            *)

HolderInv(h) == LiveFits(h) /\ DriverFits(h) /\ PermitFresh(h)

\* What a step does not touch for a holder stays as it is.
Untouched(h) ==
  /\ pc'[h] = pc[h] /\ acquired'[h] = acquired[h] /\ heartbeat'[h] = heartbeat[h]
  /\ missed'[h] = missed[h] /\ age'[h] = age[h]
  /\ Waits(h)' = Waits(h)

\* What a step does not touch of a holder keeps its invariant.
LEMMA UntouchedInv ==
  ASSUME NEW h \in Holder, HolderInv(h), Untouched(h)
  PROVE  HolderInv(h)'
  BY DEF HolderInv, LiveFits, Awaits, DriverFits, PermitFresh, Covered, Beating,
         FreshUntil, Untouched

\* A holder whose run has not got or no longer has a permit needs nothing more
\* than the right request.
LEMMA UncoveredInv ==
  ASSUME NEW h \in Holder, LiveFits(h)', DriverFits(h)', pc'[h] # "running"
  PROVE  HolderInv(h)'
  BY DEF HolderInv, PermitFresh, Covered

\* Arithmetic of periods.
LEMMA Periods ==
  /\ Period \in Nat \ {0}
  /\ 0 * Period = 0
  /\ \A m \in Nat : m * Period \in Nat /\ (m + 1) * Period = m * Period + Period
  /\ (TTL + 1) * Period + MaxLag >= TTL
<1>1. Period \in Nat \ {0} /\ MaxLag \in Nat /\ TTL \in Nat
  BY PermitConstants DEF Period
<1>2. \A m, n \in Nat : m * n \in Nat /\ (m + 1) * n = m * n + n /\ 0 * n = 0
  OBVIOUS
<1>3. \A n \in Nat \ {0} : \A m \in Nat : (m + 1) * n >= m
  OBVIOUS
<1> QED BY <1>1, <1>2, <1>3

\* A covered permit has not lapsed.
LEMMA CoveredNotStale ==
  ASSUME TypeInv, NEW h \in Holder, HolderInv(h), Covered(h)
  PROVE  age[h] \in Nat /\ age[h] < TTL
<1>1. /\ age[h] \in Nat /\ missed[h] \in Nat /\ heartbeat[h] \in Waiting..HeartbeatInterval
      /\ HeartbeatInterval \in Nat /\ MaxLag \in Nat /\ TTL \in Nat
  BY PermitConstants DEF TypeInv, TypeOK, MaxAge, HolderInv, PermitFresh
<1>2. /\ missed[h] * Period \in Nat
      /\ (missed[h] + 1) * Period = missed[h] * Period + Period
  BY <1>1, Periods
<1>3. \A q \in Waits(h) : q.lag \in 0..MaxLag
  BY DEF Waits, TypeInv, TypeOK, Requests
<1>4. \E since \in 0..Period : age[h] <= FreshUntil(h, since)
  <2>1. CASE heartbeat[h] = Waiting
    <3>1. PICK q \in Waits(h) : q.op = "heartbeat"
      BY <2>1 DEF HolderInv, DriverFits
    <3>2. age[h] <= FreshUntil(h, HeartbeatInterval + q.lag)
      BY <3>1 DEF HolderInv, PermitFresh, Beating
    <3>3. HeartbeatInterval + q.lag \in 0..Period
      BY <1>1, <1>3 DEF Period
    <3> QED BY <3>2, <3>3
  <2>2. CASE heartbeat[h] # Waiting
    <3>1. heartbeat[h] # Off
      BY DEF HolderInv, DriverFits, Covered
    <3>2. heartbeat[h] \in 0..Period /\ heartbeat[h] >= 0
      BY <1>1, <2>2, <3>1 DEF Period
    <3> QED BY <3>2 DEF HolderInv, PermitFresh, Beating
  <2> QED BY <2>1, <2>2
<1>5. missed[h] * Period + Period + MaxLag < TTL
  BY <1>2 DEF Covered
<1>6. PICK since \in 0..Period : age[h] <= MaxLag + missed[h] * Period + since
  BY <1>4 DEF FreshUntil
<1>7. Period \in Nat
  BY Periods
<1> HIDE DEF Period
<1> QED BY <1>1, <1>2, <1>5, <1>6, <1>7

\* A permit that was just written is fresh, however the heartbeat task stands.
LEMMA JustWritten ==
  ASSUME TypeInv', NEW h \in Holder, NEW read \in 0..MaxLag, age'[h] = read
  PROVE  PermitFresh(h)'
<1>1. /\ missed'[h] \in Nat /\ heartbeat'[h] \in Int
      /\ HeartbeatInterval \in Nat /\ MaxLag \in Nat /\ age'[h] \in Nat
  BY PermitConstants DEF TypeInv, TypeOK
<1>2. missed'[h] * Period \in Nat
  BY <1>1, Periods
<1>3. \A q \in Waits(h)' : q.lag \in Nat
  BY DEF Waits, TypeInv, TypeOK, Requests
<1>4. age'[h] # None
  BY <1>1, PermitConstants
<1>5. \A n \in Nat : age'[h] <= MaxLag + missed'[h] * Period + n
  BY <1>1, <1>2
<1>6. \A q \in Waits(h)' : HeartbeatInterval + q.lag \in Nat
  BY <1>1, <1>3
<1>7. heartbeat'[h] >= 0 => heartbeat'[h] \in Nat
  BY <1>1
<1> QED BY <1>4, <1>5, <1>6, <1>7 DEF PermitFresh, Beating, FreshUntil

\* A request that goes to its next stage is awaited as before.
LEMMA ReplaceInv ==
  ASSUME TypeInv, RunInv, NEW q \in inflight, NEW n,
         n.holder = q.holder /\ n.op = q.op /\ n.live = q.live /\ n.lag = q.lag,
         inflight' = (inflight \ {q}) \cup {n}, UNCHANGED <<age, driverVars>>
  PROVE  RunInv'
<1>1. ASSUME NEW k \in Holder PROVE HolderInv(k)'
  <2>1. CASE ~ (q.holder = k /\ q.live)
    <3>1. Waits(k)' = Waits(k)
      BY <2>1 DEF Waits
    <3> QED BY <3>1, UntouchedInv DEF Untouched, driverVars, RunInv, HolderInv
  <2>2. CASE q.holder = k /\ q.live
    <3>1. Waits(k) = {q}
      BY <2>2 DEF RunInv, LiveFits, Waits
    <3>2. Waits(k)' = {n}
      BY <2>2, <3>1 DEF Waits
    <3>3. HolderInv(k)
      BY DEF RunInv, HolderInv
    <3> QED BY <3>1, <3>2, <3>3
            DEF HolderInv, LiveFits, Awaits, DriverFits, PermitFresh, Covered, Beating,
                FreshUntil, driverVars
  <2> QED BY <2>1, <2>2
<1> QED BY <1>1 DEF RunInv, HolderInv

\* After giving up on a holder's activities nobody awaits them.
LEMMA AbandonWaits ==
  ASSUME TypeInv, NEW h \in Holder, NEW rest \in Abandon(Waits(h)), NEW k \in Holder
  PROVE  {q \in rest : q.holder = k /\ q.live} = IF k = h THEN {} ELSE Waits(k)
<1>1. Waits(h) \in SUBSET inflight
  BY DEF Waits
<1>2. ASSUME NEW q \in rest, q.holder = k, q.live PROVE q \in Waits(k) /\ k # h
  <2>1. q \in inflight \ Waits(h)
    BY <1>1, <1>2, AbandonMembers
  <2> QED BY <1>2, <2>1 DEF Waits
<1>3. ASSUME NEW q \in Waits(k), k # h PROVE q \in rest
  BY <1>3 DEF Abandon, Waits
<1> QED BY <1>2, <1>3 DEF Waits

\* What the requests of a holder are after it gave up on them and perhaps sent
\* a new one.
LEMMA WaitsAfter ==
  ASSUME TypeInv, NEW h \in Holder, NEW rest \in Abandon(Waits(h)), NEW k \in Holder
  PROVE  /\ inflight' = rest => Waits(k)' = IF k = h THEN {} ELSE Waits(k)
         /\ \A op : inflight' = rest \cup {Request(h, op)}
              => Waits(k)' = IF k = h THEN {Request(h, op)} ELSE Waits(k)
<1> DEFINE old == {q \in rest : q.holder = k /\ q.live}
<1>1. old = IF k = h THEN {} ELSE Waits(k)
  BY AbandonWaits
<1>2. inflight' = rest => Waits(k)' = old
  BY DEF Waits
<1>3. ASSUME NEW op, inflight' = rest \cup {Request(h, op)}
      PROVE  Waits(k)' = old \cup (IF k = h THEN {Request(h, op)} ELSE {})
  <2>1. Request(h, op).holder = h /\ Request(h, op).live
    BY DEF Request
  <2> QED BY <1>3, <2>1 DEF Waits
<1> HIDE DEF old
<1> QED BY <1>1, <1>2, <1>3

\* A holder that awaits nothing may send a request.
LEMMA WaitsSend ==
  ASSUME NEW h \in Holder, NEW op, Send(h, op), NEW k \in Holder
  PROVE  Waits(k)' = IF k = h THEN Waits(h) \cup {Request(h, op)} ELSE Waits(k)
<1>1. Request(h, op).holder = h /\ Request(h, op).live
  BY DEF Request
<1> QED BY <1>1 DEF Waits, Send

\* The request of each kind.
LEMMA RequestFields ==
  ASSUME NEW h, NEW op
  PROVE  Request(h, op).op = op /\ Request(h, op).lag = 0 /\ Request(h, op).live
         /\ Request(h, op).holder = h
  BY DEF Request

\* A step that is about holder h.
Local(h) ==
  \A k \in Holder \ {h} :
    /\ pc'[k] = pc[k] /\ acquired'[k] = acquired[k] /\ heartbeat'[k] = heartbeat[k]
    /\ missed'[k] = missed[k]

\* It keeps the invariant of the others, if it leaves their permits and requests
\* alone.
LEMMA LocalInv ==
  ASSUME RunInv, NEW h \in Holder, Local(h), HolderInv(h)',
         \A k \in Holder \ {h} : age'[k] = age[k] /\ Waits(k)' = Waits(k)
  PROVE  RunInv'
<1>1. \A k \in Holder \ {h} : HolderInv(k)'
  BY UntouchedInv DEF Local, Untouched, RunInv, HolderInv
<1> QED BY <1>1 DEF RunInv, HolderInv

\* The workflow code starts, tries again and sends its heartbeats.
LEMMA DriverInv ==
  ASSUME TypeInv, TypeInv', RunInv, NEW h \in Holder, Start(h) \/ Retry(h) \/ Beat(h)
  PROVE  RunInv'
<1>1. LiveFits(h) /\ DriverFits(h) /\ PermitFresh(h)
  BY DEF RunInv
<1>2. CASE Start(h)
  <2>1. Local(h) /\ age' = age
    BY <1>2 DEF Start, Local, redisVars, TypeInv, TypeOK
  <2>2. Waits(h) = {} /\ ~ acquired[h] /\ heartbeat[h] = Off
    BY <1>1, <1>2 DEF Start, LiveFits, Awaits, DriverFits, Waits, TypeInv, TypeOK, Requests
  <2>3. CASE inflight' = inflight /\ pc' = [pc EXCEPT ![h] = "running"]
    <3>1. \A k \in Holder : Waits(k)' = Waits(k)
      BY <2>3 DEF Waits
    <3>2. HolderInv(h)'
      BY <1>2, <2>2, <2>3, <3>1
         DEF HolderInv, LiveFits, DriverFits, PermitFresh, Covered, Start, TypeInv, TypeOK
    <3> QED BY <2>1, <3>1, <3>2, LocalInv
  <2>4. CASE Send(h, "acquire") /\ pc' = [pc EXCEPT ![h] = "acquiring"]
    <3>1. \A k \in Holder :
            Waits(k)' = IF k = h THEN {Request(h, "acquire")} ELSE Waits(k)
      BY <2>2, <2>4, WaitsSend
    <3>2. pc'[h] = "acquiring" /\ acquired' = acquired /\ heartbeat' = heartbeat
      BY <1>2, <2>4 DEF Start, TypeInv, TypeOK
    <3>3. HolderInv(h)'
      BY <2>2, <3>1, <3>2, RequestFields, UncoveredInv DEF LiveFits, Awaits, DriverFits
    <3> QED BY <2>1, <3>1, <3>3, LocalInv
  <2> QED BY <1>2, <2>3, <2>4 DEF Start
<1>3. CASE Retry(h)
  <2>1. Local(h) /\ age' = age
    BY <1>3 DEF Retry, Local, redisVars, TypeInv, TypeOK
  <2>2. Waits(h) = {} /\ ~ acquired[h] /\ heartbeat[h] = Off
    BY <1>1, <1>3 DEF Retry, LiveFits, Awaits, DriverFits, Waits, TypeInv, TypeOK, Requests
  <2>3. \A k \in Holder :
          Waits(k)' = IF k = h THEN {Request(h, "acquire")} ELSE Waits(k)
    BY <1>3, <2>2, WaitsSend DEF Retry
  <2>4. pc'[h] = "acquiring" /\ acquired' = acquired /\ heartbeat' = heartbeat
    BY <1>3 DEF Retry, TypeInv, TypeOK
  <2>5. HolderInv(h)'
    BY <2>2, <2>3, <2>4, RequestFields, UncoveredInv DEF LiveFits, Awaits, DriverFits
  <2> QED BY <2>1, <2>3, <2>5, LocalInv
<1>4. CASE Beat(h)
  <2>1. Local(h) /\ age' = age /\ pc' = pc /\ acquired' = acquired /\ missed' = missed
    BY <1>4 DEF Beat, Local, redisVars, TypeInv, TypeOK
  <2>2. /\ heartbeat[h] = HeartbeatInterval /\ HeartbeatInterval \in Nat
        /\ pc[h] \in {"running", "stopping"} /\ acquired[h]
    BY <1>1, <1>4, PermitConstants DEF Beat, DriverFits
  <2>3. Waits(h) = {}
    BY <1>1, <2>2 DEF LiveFits, Awaits, Waits, TypeInv, TypeOK, Requests
  <2>4. \A k \in Holder :
          Waits(k)' = IF k = h THEN {Request(h, "heartbeat")} ELSE Waits(k)
    BY <1>4, <2>3, WaitsSend DEF Beat
  <2>5. heartbeat'[h] = Waiting
    BY <1>4 DEF Beat, TypeInv, TypeOK
  <2>6. LiveFits(h)' /\ DriverFits(h)'
    BY <2>1, <2>2, <2>4, <2>5, RequestFields DEF LiveFits, Awaits, DriverFits
  <2>7. PermitFresh(h)'
    <3>1. Covered(h)' => Covered(h)
      BY <2>1 DEF Covered
    <3>2. Covered(h) => age[h] # None /\ age[h] <= FreshUntil(h, HeartbeatInterval)
      BY <1>1, <2>2 DEF PermitFresh, Beating
    <3>3. Waits(h)' = {Request(h, "heartbeat")}
      BY <2>4
    <3>4. HeartbeatInterval + Request(h, "heartbeat").lag = HeartbeatInterval
      BY <2>2, RequestFields
    <3>5. \A since : FreshUntil(h, since)' = FreshUntil(h, since)
      BY <2>1 DEF FreshUntil
    <3>6. ~ (heartbeat'[h] >= 0)
      BY <2>5
    <3> QED BY <2>1, <3>1, <3>2, <3>3, <3>4, <3>6 DEF PermitFresh, Beating, FreshUntil
  <2>8. HolderInv(h)'
    BY <2>6, <2>7 DEF HolderInv
  <2> QED BY <2>1, <2>4, <2>8, LocalInv
<1> QED BY <1>2, <1>3, <1>4

\* A run ends, fails to acquire or fails to release: it awaits at most its
\* release.
LEMMA EndInv ==
  ASSUME TypeInv, TypeInv', RunInv, NEW h \in Holder,
         (Finish(h) /\ heartbeat[h] # Waiting) \/ AcquireFails(h) \/ ReleaseFails(h)
  PROVE  RunInv'
<1>1. LiveFits(h) /\ DriverFits(h)
  BY DEF RunInv
<1>2. Local(h) /\ age' = age
  BY DEF Finish, AcquireFails, ReleaseFails, StopHeartbeat, Raise, Local, redisVars,
         TypeInv, TypeOK
<1>3. heartbeat'[h] = Off
  BY <1>1 DEF Finish, AcquireFails, ReleaseFails, StopHeartbeat, DriverFits, TypeInv, TypeOK
<1>4. PICK rest \in Abandon(Waits(h)) :
        \/ /\ inflight' = rest /\ pc'[h] \in {"idle", "done"} /\ ~ acquired'[h]
        \/ /\ inflight' = rest \cup {Request(h, "release")} /\ pc'[h] = "releasing"
  <2>1. CASE Finish(h) /\ heartbeat[h] # Waiting
    <3>1. Waits(h) = {}
      BY <1>1, <2>1 DEF Finish, LiveFits, Awaits, Waits, TypeInv, TypeOK, Requests
    <3>2. inflight \in Abandon(Waits(h))
      BY <3>1 DEF Abandon
    <3>3. \/ inflight' = inflight /\ pc'[h] \in {"idle", "done"} /\ ~ acquired'[h]
          \/ inflight' = inflight \cup {Request(h, "release")} /\ pc'[h] = "releasing"
      BY <2>1 DEF Finish, Send, Ended, TypeInv, TypeOK
    <3> QED BY <3>2, <3>3
  <2>2. CASE AcquireFails(h)
    BY <1>1, <2>2 DEF AcquireFails, Raise, Ended, DriverFits, TypeInv, TypeOK
  <2>3. CASE ReleaseFails(h)
    BY <2>3 DEF ReleaseFails, Ended, TypeInv, TypeOK
  <2> QED BY <2>1, <2>2, <2>3
<1>5. \A k \in Holder \ {h} : Waits(k)' = Waits(k)
  BY <1>4, WaitsAfter
<1>6. \/ Waits(h)' = {} /\ pc'[h] \in {"idle", "done"} /\ ~ acquired'[h]
      \/ Waits(h)' = {Request(h, "release")} /\ pc'[h] = "releasing"
  BY <1>4, WaitsAfter
<1>7. HolderInv(h)'
  BY <1>3, <1>6, RequestFields, UncoveredInv DEF LiveFits, Awaits, DriverFits
<1> QED BY <1>2, <1>5, <1>7, LocalInv

\* A run whose heartbeat task swallowed the cancel keeps its flag and its task.
LEMMA SwallowedInv ==
  ASSUME TypeInv, TypeInv', RunInv, NEW h \in Holder, Finish(h), heartbeat[h] = Waiting
  PROVE  RunInv'
<1>1. LiveFits(h) /\ DriverFits(h) /\ pc[h] = "running"
  BY DEF RunInv, Finish
<1>2. /\ Local(h) /\ age' = age /\ pc'[h] = "stopping" /\ acquired' = acquired
      /\ heartbeat'[h] = 0 /\ inflight' \in Abandon(Waits(h))
  BY DEF Finish, CancelSwallowed, NextBeat, Local, redisVars, TypeInv, TypeOK
<1>3. \A k \in Holder : Waits(k)' = IF k = h THEN {} ELSE Waits(k)
  BY <1>2, WaitsAfter
<1>4. LiveFits(h)' /\ DriverFits(h)'
  BY <1>1, <1>2, <1>3 DEF LiveFits, DriverFits
<1>5. HolderInv(h)'
  BY <1>2, <1>4, UncoveredInv
<1> QED BY <1>2, <1>3, <1>5, LocalInv

\* A lost heartbeat costs one period.
LEMMA HeartbeatFailsInv ==
  ASSUME TypeInv, TypeInv', RunInv, NEW h \in Holder, HeartbeatFails(h)
  PROVE  RunInv'
<1>1. LiveFits(h) /\ DriverFits(h) /\ PermitFresh(h) /\ HolderInv(h)
  BY DEF RunInv, HolderInv
<1>2. /\ Local(h) /\ age' = age /\ pc' = pc /\ acquired' = acquired
      /\ heartbeat[h] = Waiting /\ heartbeat'[h] = 0
      /\ missed'[h] = Older(missed[h], TTL)
  BY DEF HeartbeatFails, NextBeat, Local, redisVars, TypeInv, TypeOK
<1>3. \A k \in Holder : Waits(k)' = IF k = h THEN {} ELSE Waits(k)
  BY WaitsAfter DEF HeartbeatFails, NextBeat
<1>4. LiveFits(h)' /\ DriverFits(h)'
  BY <1>1, <1>2, <1>3 DEF LiveFits, DriverFits
<1>5. PermitFresh(h)'
  <2>1. SUFFICES ASSUME Covered(h)' PROVE age'[h] # None /\ Beating(h)'
    BY DEF PermitFresh
  <2>2. /\ missed[h] \in Nat /\ TTL \in Nat /\ MaxLag \in Nat /\ Period \in Nat
        /\ HeartbeatInterval \in Nat
    BY PermitConstants, Periods DEF TypeInv, TypeOK
  <2>3. missed'[h] = missed[h] + 1 /\ missed[h] < TTL
    <3>1. (missed'[h] + 1) * Period + MaxLag < TTL
      BY <2>1 DEF Covered
    <3>2. (TTL + 1) * Period \in Nat /\ (TTL + 1) * Period + MaxLag >= TTL
      BY <2>2, Periods
    <3>3. missed'[h] # TTL
      <4> HIDE DEF Period
      <4> QED BY <2>2, <3>1, <3>2
    <3> QED BY <1>2, <2>2, <3>3 DEF Older
  <2>4. /\ missed[h] * Period \in Nat /\ missed'[h] * Period = missed[h] * Period + Period
        /\ (missed[h] + 1) * Period = missed[h] * Period + Period
    <3>1. /\ missed[h] * Period \in Nat
          /\ (missed[h] + 1) * Period = missed[h] * Period + Period
      BY <2>2, Periods
    <3>2. missed'[h] * Period = (missed[h] + 1) * Period
      BY <2>3
    <3> QED BY <3>1, <3>2
  <2>5. (missed'[h] + 1) * Period = missed'[h] * Period + Period
    <3>1. missed'[h] \in Nat
      BY <2>2, <2>3
    <3> QED BY <3>1, Periods
  <2>6. missed'[h] * Period + Period + MaxLag < TTL
    BY <2>1, <2>5 DEF Covered
  <2>7. (missed[h] + 1) * Period + MaxLag < TTL
    <3> HIDE DEF Period
    <3> QED BY <2>2, <2>4, <2>6
  <2>8. Covered(h)
    BY <1>2, <2>1, <2>7 DEF Covered
  <2>9. PICK q \in Waits(h) : q.op = "heartbeat"
    BY <1>1, <1>2 DEF DriverFits
  <2>10. age[h] # None /\ age[h] <= MaxLag + missed[h] * Period + (HeartbeatInterval + q.lag)
    BY <1>1, <2>8, <2>9 DEF PermitFresh, Beating, FreshUntil
  <2>11. q.lag \in 0..MaxLag /\ age[h] \in Nat
    BY <2>10 DEF Waits, TypeInv, TypeOK, Requests, MaxAge
  <2>12. age[h] <= MaxLag + missed'[h] * Period + 0
    <3>1. HeartbeatInterval + q.lag <= Period
      BY <2>2, <2>11 DEF Period
    <3> HIDE DEF Period
    <3> QED BY <2>2, <2>4, <2>10, <2>11, <3>1
  <2> QED BY <1>2, <1>3, <2>10, <2>12 DEF Beating, FreshUntil
<1>6. HolderInv(h)'
  BY <1>4, <1>5 DEF HolderInv
<1> QED BY <1>2, <1>3, <1>6, LocalInv

\* Requests that a worker executes are gone afterwards.
LEMMA WaitsRemove ==
  ASSUME RunInv, NEW q \in inflight, inflight' = inflight \ {q}, NEW k \in Holder
  PROVE  Waits(k)' = IF q.live /\ k = q.holder THEN {} ELSE Waits(k)
  BY DEF RunInv, LiveFits, Waits

\* A release ends the run that waits for it; a late one may hit the permit of
\* the holder's next round, which is then no longer covered.
LEMMA RunReleaseInv ==
  ASSUME TypeInv, TypeInv', RunInv, NEW q \in inflight, RunRelease(q)
  PROVE  RunInv'
<1> DEFINE h == q.holder
<1>1. h \in Holder /\ HolderInv(h) /\ q.op = "release"
  BY DEF RunRelease, TypeInv, TypeOK, Requests, RunInv, HolderInv
<1>2. /\ Local(h) /\ heartbeat' = heartbeat /\ missed'[h] = TTL
      /\ \A k \in Holder \ {h} : age'[k] = age[k]
  BY <1>1 DEF RunRelease, Local, TypeInv, TypeOK
<1>3. \A k \in Holder : Waits(k)' = IF q.live /\ k = h THEN {} ELSE Waits(k)
  BY WaitsRemove DEF RunRelease
<1>4. ~ Covered(h)'
  BY <1>2, Periods, PermitConstants DEF Covered, Period
<1>5. LiveFits(h)' /\ DriverFits(h)'
  <2>1. CASE q.live
    <3>1. q \in Waits(h)
      BY <2>1 DEF Waits
    <3>2. pc[h] = "releasing" /\ heartbeat[h] = Off
      BY <1>1, <3>1 DEF HolderInv, LiveFits, Awaits, DriverFits
    <3>3. pc'[h] \in {"idle", "done"} /\ ~ acquired'[h]
      BY <1>1, <2>1 DEF RunRelease, Ended, TypeInv, TypeOK
    <3> QED BY <1>1, <1>2, <1>3, <2>1, <3>2, <3>3 DEF LiveFits, DriverFits
  <2>2. CASE ~ q.live
    <3>1. pc' = pc /\ acquired' = acquired
      BY <2>2 DEF RunRelease
    <3> QED BY <1>1, <1>2, <1>3, <2>2, <3>1 DEF HolderInv, LiveFits, Awaits, DriverFits
  <2> QED BY <2>1, <2>2
<1>6. HolderInv(h)'
  BY <1>4, <1>5 DEF HolderInv, PermitFresh
<1> QED BY <1>1, <1>2, <1>3, <1>6, LocalInv

\* A heartbeat refreshes a permit that is there.
LEMMA RunHeartbeatInv ==
  ASSUME TypeInv, TypeInv', RunInv, NEW q \in inflight, NEW read \in 0..q.lag,
         RunHeartbeat(q, read)
  PROVE  RunInv'
<1> DEFINE h == q.holder
<1>1. h \in Holder /\ HolderInv(h) /\ q.op = "heartbeat" /\ read \in 0..MaxLag
  <2>1. h \in Holder /\ q.lag \in 0..MaxLag
    BY DEF TypeInv, TypeOK, Requests
  <2>2. read \in 0..MaxLag
    BY <2>1, PermitConstants
  <2> QED BY <2>1, <2>2 DEF RunHeartbeat, RunInv, HolderInv
<1>2. /\ Local(h) /\ pc' = pc /\ acquired' = acquired
      /\ \A k \in Holder \ {h} : age'[k] = age[k]
      /\ age'[h] = IF age[h] = None THEN None ELSE read
      /\ missed'[h] = IF q.live /\ age[h] # None THEN 0 ELSE missed[h]
      /\ heartbeat'[h] = IF q.live THEN 0 ELSE heartbeat[h]
  BY <1>1 DEF RunHeartbeat, HeartbeatScript, Local, TypeInv, TypeOK
<1>3. \A k \in Holder : Waits(k)' = IF q.live /\ k = h THEN {} ELSE Waits(k)
  BY WaitsRemove DEF RunHeartbeat
<1>4. LiveFits(h)' /\ DriverFits(h)'
  <2>1. CASE q.live
    <3>1. q \in Waits(h)
      BY <2>1 DEF Waits
    <3>2. heartbeat[h] = Waiting
      BY <1>1, <3>1 DEF HolderInv, LiveFits, Awaits
    <3> QED BY <1>1, <1>2, <1>3, <2>1, <3>2 DEF HolderInv, LiveFits, DriverFits
  <2>2. CASE ~ q.live
    BY <1>1, <1>2, <1>3, <2>2 DEF HolderInv, LiveFits, Awaits, DriverFits
  <2> QED BY <2>1, <2>2
<1>5. PermitFresh(h)'
  <2>1. CASE age[h] # None
    <3>1. age'[h] = read
      BY <1>2, <2>1
    <3> QED BY <1>1, <3>1, JustWritten
  <2>2. CASE age[h] = None
    <3>1. ~ Covered(h)
      BY <1>1, <2>2 DEF HolderInv, PermitFresh
    <3>2. ~ Covered(h)'
      BY <1>2, <2>2, <3>1 DEF Covered
    <3> QED BY <3>2 DEF PermitFresh
  <2> QED BY <2>1, <2>2
<1>6. HolderInv(h)'
  BY <1>4, <1>5 DEF HolderInv
<1> QED BY <1>1, <1>2, <1>3, <1>6, LocalInv

\* An acquisition prunes lapsed permits, which are never covered, and gives its
\* holder, if it still waits, the run that goes with the reply.
LEMMA RunAcquireInv ==
  ASSUME TypeInv, TypeInv', RunInv, NEW q \in inflight, NEW read \in 0..q.lag,
         RunAcquire(q, read)
  PROVE  RunInv'
<1> DEFINE h == q.holder
           lim == q.limits[Scope[h]]
           ok == AcquireScript(h, lim, read).acquired
<1>1. h \in Holder /\ HolderInv(h) /\ q.op = "acquire" /\ read \in 0..MaxLag
  <2>1. h \in Holder /\ q.lag \in 0..MaxLag
    BY DEF TypeInv, TypeOK, Requests
  <2>2. read \in 0..MaxLag
    BY <2>1, PermitConstants
  <2> QED BY <2>1, <2>2 DEF RunAcquire, RunInv, HolderInv
<1>2. Local(h)
  BY <1>1 DEF RunAcquire, Raise, Granted, Rejected, Local, TypeInv, TypeOK
<1>3. /\ q.live => Waits(h) = {q} /\ pc[h] = "acquiring" /\ ~ acquired[h] /\ heartbeat[h] = Off
      /\ q.live => q \in Waits(h)
  BY <1>1 DEF HolderInv, LiveFits, DriverFits, Awaits, Waits
<1>4. \A k \in Holder \ {h} : age'[k] = age[k] \/ (age'[k] = None /\ Stale(k, read))
  BY <1>1 DEF RunAcquire, AcquireScript, Pruned, TypeInv, TypeOK
<1>5. \/ age' = age /\ missed' = missed
      \/ /\ ok /\ age'[h] = read /\ missed'[h] = 0
      \/ /\ ~ ok /\ age'[h] = None /\ missed' = missed
  <2>1. CASE InvalidLimit(lim)
    BY <2>1 DEF RunAcquire
  <2>2. CASE ~ InvalidLimit(lim)
    <3>1. age' = AcquireScript(h, lim, read).age
      BY <2>2 DEF RunAcquire
    <3>2. missed' = IF ok THEN [missed EXCEPT ![h] = 0] ELSE missed
      BY <2>2 DEF RunAcquire
    <3>3. ok => age'[h] = read
      BY <1>1, <3>1 DEF AcquireScript, Pruned
    <3>4. ~ ok => age'[h] = None
      BY <1>1, <3>1 DEF AcquireScript, Pruned
    <3>5. ok => missed'[h] = 0
      BY <1>1, <3>2 DEF TypeInv, TypeOK
    <3> QED BY <3>2, <3>3, <3>4, <3>5
  <2> QED BY <2>1, <2>2
<1>6. \/ ~ q.live /\ inflight' = inflight \ {q} /\ UNCHANGED <<pc, acquired, heartbeat>>
      \/ /\ q.live /\ inflight' = inflight \ {q} /\ age'[h] = read
         /\ pc'[h] = "running" /\ acquired'[h] /\ heartbeat'[h] = 0
      \/ /\ q.live /\ inflight' = inflight \ {q} /\ UNCHANGED <<acquired, heartbeat>>
         /\ pc'[h] \in {"idle", "done", "backoff"}
      \/ /\ q.live /\ inflight' = (inflight \ {q}) \cup {Request(h, "release")}
         /\ UNCHANGED <<acquired, heartbeat>> /\ pc'[h] = "releasing"
  <2>1. CASE ~ q.live
    BY <2>1 DEF RunAcquire
  <2>2. CASE q.live /\ (InvalidLimit(lim) \/ ~ ok)
    <3>1. UNCHANGED <<acquired, heartbeat>>
      BY <2>2 DEF RunAcquire, Rejected
    <3>2. \/ Raise(h, inflight \ {q})
          \/ pc' = [pc EXCEPT ![h] = "backoff"] /\ inflight' = inflight \ {q}
      BY <2>2 DEF RunAcquire, Rejected
    <3> QED BY <1>1, <2>2, <3>1, <3>2 DEF Raise, Ended, TypeInv, TypeOK
  <2>3. CASE q.live /\ ~ InvalidLimit(lim) /\ ok
    <3>1. Granted(h, inflight \ {q}) /\ age' = AcquireScript(h, lim, read).age
      BY <2>3 DEF RunAcquire
    <3>2. age'[h] = read
      BY <1>1, <2>3, <3>1 DEF AcquireScript, Pruned
    <3> QED BY <1>1, <2>3, <3>1, <3>2 DEF Granted, TypeInv, TypeOK
  <2> QED BY <2>1, <2>2, <2>3
<1>7. ASSUME NEW k \in Holder \ {h} PROVE Waits(k)' = Waits(k)
  <2>1. Request(h, "release").holder = h
    BY RequestFields
  <2> QED BY <1>6, <2>1 DEF Waits
<1> HIDE DEF ok, lim
<1>8. HolderInv(h)'
  <2>1. CASE ~ q.live
    <3>1. Waits(h)' = Waits(h)
      BY <1>6, <2>1 DEF Waits
    <3>2. UNCHANGED <<pc, acquired, heartbeat>>
      BY <1>6, <2>1
    <3>3. LiveFits(h)' /\ DriverFits(h)'
      BY <1>1, <3>1, <3>2 DEF HolderInv, LiveFits, Awaits, DriverFits
    <3>4. CASE age' = age /\ missed' = missed
      BY <1>1, <3>1, <3>2, <3>4, UntouchedInv DEF Untouched
    <3>5. CASE age'[h] = read
      BY <1>1, <3>3, <3>5, JustWritten DEF HolderInv
    <3>6. CASE ~ ok /\ age'[h] = None /\ missed' = missed
      <4>1. age[h] = None \/ Stale(h, read)
        BY <1>1, <3>6 DEF RunAcquire, AcquireScript, Pruned, ok, lim
      <4>2. ~ Covered(h)
        BY <1>1, <4>1, CoveredNotStale, PermitConstants DEF Stale, HolderInv, PermitFresh
      <4>3. ~ Covered(h)'
        BY <3>2, <3>6, <4>2 DEF Covered
      <4> QED BY <3>3, <4>3 DEF HolderInv, PermitFresh
    <3> QED BY <1>5, <3>4, <3>5, <3>6
  <2>2. CASE /\ q.live /\ inflight' = inflight \ {q} /\ age'[h] = read
             /\ pc'[h] = "running" /\ acquired'[h] /\ heartbeat'[h] = 0
    <3>1. Waits(h)' = {}
      BY <1>3, <2>2 DEF Waits
    <3>2. LiveFits(h)' /\ DriverFits(h)'
      BY <2>2, <3>1 DEF LiveFits, DriverFits
    <3> QED BY <1>1, <2>2, <3>2, JustWritten DEF HolderInv
  <2>3. CASE /\ q.live /\ inflight' = inflight \ {q} /\ UNCHANGED <<acquired, heartbeat>>
             /\ pc'[h] \in {"idle", "done", "backoff"}
    <3>1. Waits(h)' = {}
      BY <1>3, <2>3 DEF Waits
    <3>2. LiveFits(h)' /\ DriverFits(h)'
      BY <1>3, <2>3, <3>1 DEF LiveFits, DriverFits
    <3> QED BY <1>1, <2>3, <3>2, UncoveredInv
  <2>4. CASE /\ q.live /\ inflight' = (inflight \ {q}) \cup {Request(h, "release")}
             /\ UNCHANGED <<acquired, heartbeat>> /\ pc'[h] = "releasing"
    <3>1. Waits(h)' = {Request(h, "release")}
      BY <1>3, <2>4, RequestFields DEF Waits
    <3>2. LiveFits(h)' /\ DriverFits(h)'
      BY <1>3, <2>4, <3>1, RequestFields DEF LiveFits, DriverFits, Awaits
    <3> QED BY <1>1, <2>4, <3>2, UncoveredInv
  <2> QED BY <1>6, <2>1, <2>2, <2>3, <2>4
<1>9. ASSUME NEW k \in Holder \ {h} PROVE HolderInv(k)'
  <2>1. HolderInv(k) /\ k \in Holder
    BY DEF RunInv, HolderInv
  <2>2. CASE age'[k] = age[k]
    BY <1>2, <1>7, <2>1, <2>2, UntouchedInv DEF Untouched, Local
  <2>3. CASE Stale(k, read)
    <3>1. ~ Covered(k)
      BY <1>1, <2>1, <2>3, CoveredNotStale, PermitConstants DEF Stale
    <3>2. ~ Covered(k)'
      BY <1>2, <3>1 DEF Covered, Local
    <3>3. LiveFits(k)' /\ DriverFits(k)'
      BY <1>2, <1>7, <2>1 DEF HolderInv, LiveFits, Awaits, DriverFits, Local
    <3> QED BY <3>2, <3>3 DEF HolderInv, PermitFresh
  <2> QED BY <1>4, <2>2, <2>3
<1> QED BY <1>8, <1>9 DEF RunInv, HolderInv

\* Time ages a permit and its heartbeat's wait alike.
LEMMA TickInv ==
  ASSUME TypeInv, TypeInv', RunInv, Tick
  PROVE  RunInv'
<1> DEFINE older(q) == [q EXCEPT !.lag = @ + 1]
<1>1. ASSUME NEW q \in inflight
      PROVE  /\ older(q).holder = q.holder /\ older(q).op = q.op /\ older(q).live = q.live
             /\ older(q).lag = q.lag + 1 /\ q.lag \in 0..MaxLag
  BY DEF TypeInv, TypeOK, Requests
<1>2. inflight' = {older(q) : q \in inflight}
  BY DEF Tick
<1> HIDE DEF older
<1>3. ASSUME NEW h \in Holder PROVE HolderInv(h)'
  <2>1. HolderInv(h)
    BY DEF RunInv, HolderInv
  <2>2. Waits(h)' = {older(q) : q \in Waits(h)}
    BY <1>1, <1>2 DEF Waits
  <2>3. \A q \in Waits(h) : q \in inflight
    BY DEF Waits
  <2>4. /\ acquired' = acquired /\ missed' = missed
        /\ age'[h] = IF age[h] = None THEN None ELSE Older(age[h], MaxAge)
        /\ pc'[h] = IF pc[h] = "backoff" THEN "awake" ELSE pc[h]
        /\ heartbeat'[h] = IF heartbeat[h] \in {Off, Waiting} THEN heartbeat[h]
                           ELSE heartbeat[h] + 1
    BY DEF Tick
  <2>5. LiveFits(h)'
    BY <1>1, <2>1, <2>2, <2>3, <2>4 DEF HolderInv, LiveFits, Awaits, Waiting, Off
  <2>6. /\ heartbeat'[h] = Off <=> heartbeat[h] = Off
        /\ heartbeat'[h] = Waiting <=> heartbeat[h] = Waiting
    BY <2>4, PermitConstants DEF Off, Waiting, TypeInv, TypeOK
  <2>7. DriverFits(h)'
    BY <1>1, <2>1, <2>2, <2>3, <2>4, <2>6 DEF HolderInv, DriverFits
  <2>8. PermitFresh(h)'
    <3>1. SUFFICES ASSUME Covered(h)' PROVE age'[h] # None /\ Beating(h)'
      BY DEF PermitFresh
    <3>2. Covered(h)
      BY <2>4, <3>1 DEF Covered
    <3>3. age[h] # None /\ Beating(h)
      BY <2>1, <3>2 DEF HolderInv, PermitFresh
    <3>4. /\ age[h] \in Nat /\ missed[h] \in Nat /\ heartbeat[h] \in Waiting..HeartbeatInterval
          /\ HeartbeatInterval \in Nat /\ MaxLag \in Nat /\ MaxAge \in Nat
      BY <3>3, PermitConstants DEF TypeInv, TypeOK, MaxAge
    <3>5. age'[h] \in Nat /\ age'[h] <= age[h] + 1
      <4>1. age[h] <= MaxAge
        BY <3>3, PermitConstants DEF TypeInv, TypeOK, MaxAge
      <4> QED BY <2>4, <3>3, <3>4, <4>1 DEF Older
    <3>6. age'[h] # None
      BY <3>5, PermitConstants
    <3>7. missed[h] * Period \in Nat
      BY <3>4, Periods
    <3>8. ASSUME heartbeat'[h] >= 0
          PROVE  age'[h] <= MaxLag + missed'[h] * Period + heartbeat'[h]
      <4>1. heartbeat[h] >= 0 /\ heartbeat'[h] = heartbeat[h] + 1
        BY <2>4, <3>4, <3>8 DEF Off, Waiting
      <4>2. age[h] <= MaxLag + missed[h] * Period + heartbeat[h]
        BY <3>3, <4>1 DEF Beating, FreshUntil
      <4>3. heartbeat[h] \in Nat
        BY <3>4, <4>1 DEF Waiting
      <4> HIDE DEF Period
      <4> QED BY <2>4, <3>4, <3>5, <3>7, <4>1, <4>2, <4>3
    <3>9. ASSUME NEW p \in Waits(h)', p.op = "heartbeat"
          PROVE  age'[h] <= MaxLag + missed'[h] * Period + (HeartbeatInterval + p.lag)
      <4>1. PICK q \in Waits(h) : p = older(q)
        BY <2>2
      <4>2. q.op = "heartbeat" /\ p.lag = q.lag + 1 /\ q.lag \in Nat
        BY <1>1, <2>3, <3>4, <3>9, <4>1
      <4>3. age[h] <= MaxLag + missed[h] * Period + (HeartbeatInterval + q.lag)
        BY <3>3, <4>1, <4>2 DEF Beating, FreshUntil
      <4> HIDE DEF Period
      <4> QED BY <2>4, <3>4, <3>5, <3>7, <4>2, <4>3
    <3> QED BY <3>6, <3>8, <3>9 DEF Beating, FreshUntil
  <2> QED BY <2>5, <2>7, <2>8 DEF HolderInv
<1> QED BY <1>3 DEF RunInv, HolderInv

\* Every step keeps the invariant.
LEMMA RunStep ==
  ASSUME TypeInv, TypeInv', RunInv, [Next]_vars
  PROVE  RunInv'
<1>1. ASSUME NEW q \in inflight, ReadLimits(q) PROVE RunInv'
  <2>1. /\ \A s, l : [q EXCEPT !.stage = s, !.limits = l].holder = q.holder
        /\ \A s, l : [q EXCEPT !.stage = s, !.limits = l].op = q.op
        /\ \A s, l : [q EXCEPT !.stage = s, !.limits = l].live = q.live
        /\ \A s, l : [q EXCEPT !.stage = s, !.limits = l].lag = q.lag
    BY DEF TypeInv, TypeOK, Requests
  <2>2. PICK s, l : inflight' = (inflight \ {q}) \cup
                                {[q EXCEPT !.stage = s, !.limits = l]}
    BY <1>1 DEF ReadLimits
  <2>3. UNCHANGED <<age, driverVars>>
    BY <1>1 DEF ReadLimits, redisVars
  <2> DEFINE n == [q EXCEPT !.stage = s, !.limits = l]
  <2>4. n.holder = q.holder /\ n.op = q.op /\ n.live = q.live /\ n.lag = q.lag
    BY <2>1
  <2>5. inflight' = (inflight \ {q}) \cup {n}
    BY <2>2
  <2> HIDE DEF n
  <2> QED BY <2>3, <2>4, <2>5, ReplaceInv
<1>2. ASSUME NEW q \in inflight, SetLimitsCache(q) PROVE RunInv'
  <2> DEFINE n == [q EXCEPT !.stage = "ready"]
  <2>1. n.holder = q.holder /\ n.op = q.op /\ n.live = q.live /\ n.lag = q.lag
    BY DEF TypeInv, TypeOK, Requests
  <2>2. inflight' = (inflight \ {q}) \cup {n} /\ UNCHANGED <<age, driverVars>>
    BY <1>2 DEF SetLimitsCache
  <2> HIDE DEF n
  <2> QED BY <2>1, <2>2, ReplaceInv
<1>3. CASE UNCHANGED <<age, inflight, driverVars>>
  <2>1. \A h \in Holder : Untouched(h)
    BY <1>3 DEF Untouched, Waits, driverVars
  <2> QED BY <2>1, UntouchedInv DEF RunInv, HolderInv
<1>4. (\E l \in Limits : SetLimit(l)) \/ InvalidateCache \/ UNCHANGED vars
        => UNCHANGED <<age, inflight, driverVars>>
  BY DEF SetLimit, InvalidateCache, vars, redisVars
<1> QED BY <1>1, <1>2, <1>3, <1>4, RunReleaseInv, RunAcquireInv, RunHeartbeatInv,
           DriverInv, EndInv, SwallowedInv, HeartbeatFailsInv, TickInv
        DEF Next, Activity, Driver, Faulty

\* Nothing runs at the start.
LEMMA RunInit == Init => RunInv
  BY DEF Init, RunInv, LiveFits, DriverFits, PermitFresh, Covered, Waits, Off, Waiting

\* A run that acquired its permit still holds it, so that the semaphore counts
\* it, as long as the heartbeats it lost in a row leave room in the TTL and no
\* late release hit it: for every TTL, interval and length of an activity.
THEOREM RunningCounted == Spec => []RunningHoldsPermit
<1> DEFINE IInv == TypeInv /\ RunInv
<1>1. Init => IInv
  BY InitType, RunInit
<1>2. IInv /\ [Next]_vars => IInv'
  BY TypeStep, RunStep
<1>3. IInv => RunningHoldsPermit
  BY DEF RunInv, PermitFresh, Covered, RunningHoldsPermit, Period
<1> QED BY <1>1, <1>2, <1>3, PTL DEF Spec

\* Only the acquire script adds a permit.
LEMMA OnlyAcquireAdds ==
  ASSUME TypeInv, Next, NEW h \in Holder, age[h] = None, age'[h] # None
  PROVE  \E q \in inflight : q.holder = h /\ q.op = "acquire"
<1>1. ASSUME NEW q \in inflight, NEW read \in 0..q.lag, RunAcquire(q, read)
      PROVE  q.holder = h /\ q.op = "acquire"
  <2>1. q.holder \in Holder
    BY DEF TypeInv, TypeOK, Requests
  <2> QED BY <1>1, <2>1 DEF RunAcquire, AcquireScript, Pruned, TypeInv, TypeOK
<1>2. ASSUME NEW q \in inflight, NEW read \in 0..q.lag, RunHeartbeat(q, read)
      PROVE  FALSE
  BY <1>2 DEF RunHeartbeat, HeartbeatScript, TypeInv, TypeOK
<1>3. ASSUME NEW q \in inflight, RunRelease(q) PROVE FALSE
  BY <1>3 DEF RunRelease, TypeInv, TypeOK
<1>4. CASE Tick
  BY <1>4 DEF Tick
<1>5. CASE age' = age
  BY <1>5
<1> QED BY <1>1, <1>2, <1>3, <1>4, <1>5
        DEF Next, Activity, ReadLimits, SetLimitsCache, Start, Driver, Retry, Beat, Finish,
            Faulty, AcquireFails, ReleaseFails, HeartbeatFails, SetLimit, InvalidateCache,
            redisVars

\* A run that is over comes back to the semaphore only by an acquisition that
\* is still executed, never by a late heartbeat or anything else.
THEOREM OverStaysOut == Spec => NoResurrection
<1>1. TypeInv /\ [Next]_vars =>
        [\A h \in Holder : Over(h) /\ age[h] = None /\ age'[h] # None
           => \E q \in inflight : q.holder = h /\ q.op = "acquire"]_vars
  BY OnlyAcquireAdds
<1> QED BY <1>1, InitType, TypeStep, PTL DEF Spec, NoResurrection
=============================================================================

------------------------ MODULE AgentApprovalsProofs ------------------------
(***************************************************************************)
(* Theorems about AgentApprovals, for every set of tool calls, every set   *)
(* of requests, whatever decisions they carry, and any number of faults.   *)
(***************************************************************************)
EXTENDS AgentApprovals, TLAPS

-----------------------------------------------------------------------------
(* The inductive invariant.                                                *)

Maps == UNION {[D -> Decision] : D \in SUBSET Tool}

SubPC == {"idle", "read", "validated", "claimed", "lost", "update", "rejected", "unclaim",
          "apply", "accepted", "noop", "skipped", "refused", "failed"}

SubRecord ==
  [pc : SubPC, map : Maps, run : {Run, Newer, None}, seen : Stream \cup {None},
   attempt : Submitter \cup {None}, claimed : BOOLEAN]

\* A stream that is named after a submission was installed by it, where S are
\* the requests.
Installed(S, st) == st \in Submitter => S[st].attempt = st

\* A request works with the run and the stream it read, has no attempt before
\* it found or installed one, and keeps the one it has.
Shape(q) ==
  /\ q.pc \in {"idle", "read", "validated", "claimed", "lost", "noop", "skipped"}
       => q.attempt = None
  /\ q.pc \in {"update", "rejected", "apply", "accepted", "failed"} => q.attempt # None
  /\ q.pc \in {"idle", "read", "validated"} => ~ q.claimed
  /\ q.pc \in {"read", "validated", "claimed", "lost", "unclaim"} \/ q.attempt # None
       => q.run # None /\ q.seen # None

\* An attempt is that of a submission of the same calls to the same run, which
\* installed its stream.
SameAttempt(S, q) ==
  S[q.attempt].attempt = q.attempt /\ Key(S[q.attempt]) = Key(q)

Fits(S, q) ==
  Shape(q) /\ Installed(S, q.seen) /\ (q.attempt # None => SameAttempt(S, q))

\* The requests, the pointers and the keys: who started a newer turn, which
\* request a claimed key belongs to.
RequestInv ==
  /\ sub \in [Submitter -> SubRecord]
  /\ \A s \in Submitter : Fits(sub, sub[s])
  /\ Installed(sub, activeStream)
  /\ activeStream \in Stream \cup {None} /\ currRun \in {Run, Newer, None}
  /\ activeStream = None <=> currRun = None
  /\ \A k \in dedup : \E s \in Submitter : sub[s].claimed /\ Key(sub[s]) = k
  /\ turn \in {"none", "validated", "started"}
  /\ currRun = Newer => turn = "started"
  /\ cancel \in {"none", "sent", "requested"} /\ faults \in 0..MaxFaults

WorkflowType ==
  /\ wpc \in {"executing", "recording", "waiting", "persisting", "tools",
              "finishing", "ended"}
  /\ expected \subseteq asked /\ asked \subseteq Tool
  /\ decisions \in [Tool -> Decision \cup {None}]
  /\ payload \in [Tool -> Decision \cup {None}]
  /\ recorded \subseteq expected /\ todo \subseteq expected
  /\ active \in expected \cup {None} /\ executed \subseteq asked
  /\ answered \in [Tool -> Nat]
  /\ rows \in [Tool -> Decision \cup {"pending", None}]
  /\ updates \in [Submitter -> {None, TRUE, FALSE}]
  /\ given \in [Submitter -> Maps]
  /\ stop \in {"none", "delivered", "cut"}
  /\ orphans \subseteq {"recording", "persisting", "finishing"}

\* Only a run that was stopped leaves activities behind, and only one that was
\* stopped in an open round leaves those of a round.
StopFits ==
  /\ stop = "cut" \/ orphans # {} => wpc \in {"finishing", "ended"}
  /\ "recording" \in orphans \/ "persisting" \in orphans => stop = "cut"

\* The calls of a round that have their result are those that are neither
\* waiting nor being executed.
ResultsFit ==
  /\ wpc # "tools" => active = None /\ todo = {}
  /\ active \notin todo
  /\ RoundOpen => \A t \in Tool : answered[t] = 0
  /\ wpc = "tools" => \A t \in Tool :
       answered[t] = IF t \in expected \ (todo \cup {active}) THEN 1 ELSE 0

\* Rows exist for calls that were asked for, and are decided once their round
\* was applied, unless it was cut; decisions are on calls of the round.
RowsFit ==
  /\ \A t \in Tool \ expected : decisions[t] = None
  /\ \A t \in Tool : t \notin expected \/ ~ (wpc = "persisting" \/ "persisting" \in orphans)
       => payload[t] = None
  /\ \A t \in Tool \ asked : rows[t] = None
  /\ \A t \in asked \ expected : rows[t] \in Decision
  /\ ~ RoundOpen /\ stop # "cut" => \A t \in expected : rows[t] \in Decision
  /\ wpc = "persisting" => \A t \in expected : payload[t] # None
  /\ wpc = "recording" => \A t \in expected : rows[t] \in Decision => decisions[t] # None

RoundInv == WorkflowType /\ StopFits /\ ResultsFit /\ RowsFit

\* What the workflow may have decided on t, by updates or by the cancel.
Settled(t) == Handled(t) \cup (IF CancelRequested THEN {"deny"} ELSE {})

\* The decision on t is in the database or in the round.
Kept(t) == rows[t] \in Decision \/ (t \in expected /\ decisions[t] # None)

\* Every decision goes back to one that was made, and those of a handled update
\* are kept.
Traced(t) ==
  /\ decisions[t] \in Settled(t) \cup {None} /\ payload[t] \in Settled(t) \cup {None}
  /\ rows[t] \in Made(t) \cup {"pending", None}
  /\ t \in todo \cup executed => "approve" \in Handled(t)

HandledOnce(a) ==
  /\ updates[a] = None => DOMAIN given[a] = {}
  /\ updates[a] # None => /\ sub[a].attempt = a /\ DOMAIN given[a] = DOMAIN sub[a].map
                          /\ stop # "cut" => \A t \in DOMAIN sub[a].map : Kept(t)

UpdateInv ==
  /\ \A t \in Tool : Traced(t)
  /\ \A a \in Submitter : HandledOnce(a)
  /\ \A s \in Submitter : sub[s].pc \in {"apply", "accepted"} =>
       updates[sub[s].attempt] # None

IInv == RequestInv /\ RoundInv /\ UpdateInv

-----------------------------------------------------------------------------
(* Requests.                                                               *)

\* A request that has not begun.
LEMMA IdleSubType ==
  /\ IdleSub \in SubRecord
  /\ \A p \in SubPC : [IdleSub EXCEPT !.pc = p] \in SubRecord
<1>1. <<>> \in [{} -> Decision]
  OBVIOUS
<1>2. <<>> \in Maps
  BY <1>1 DEF Maps
<1> QED BY <1>2 DEF IdleSub, SubRecord, SubPC

\* What a request submits are decisions on calls.
LEMMA MapType ==
  ASSUME NEW m \in Maps
  PROVE  DOMAIN m \subseteq Tool /\ \A t \in DOMAIN m : m[t] \in Decision
  BY DEF Maps

\* A submission maps tool calls to decisions.
LEMMA SubmissionsType == Submissions \subseteq Maps
  BY ApprovalConstants DEF Maps

\* So does the part of one that is still pending.
LEMMA RestrictType ==
  ASSUME NEW m \in Maps, NEW D \in SUBSET DOMAIN m
  PROVE  /\ Restrict(m, D) \in Maps /\ DOMAIN Restrict(m, D) = D
         /\ \A t \in D : Restrict(m, D)[t] = m[t]
<1>1. DOMAIN m \subseteq Tool /\ \A t \in DOMAIN m : m[t] \in Decision
  BY MapType
<1>2. Restrict(m, D) \in [D -> Decision]
  BY <1>1 DEF Restrict
<1> QED BY <1>1, <1>2 DEF Maps, Restrict

\* One request moves to n.
LEMMA SubMoves ==
  ASSUME RequestInv, NEW s \in Submitter, NEW n \in SubRecord,
         sub' = [sub EXCEPT ![s] = n], Shape(n), Installed(sub, n.seen),
         sub[s].attempt # None => n.attempt = sub[s].attempt /\ Key(n) = Key(sub[s]),
         n.attempt # None => n.attempt = s \/ SameAttempt(sub, n)
  PROVE  /\ sub' \in [Submitter -> SubRecord]
         /\ \A r \in Submitter : Fits(sub', sub'[r])
         /\ \A st : Installed(sub, st) => Installed(sub', st)
<1> USE ApprovalConstants
<1>1. /\ sub \in [Submitter -> SubRecord]
      /\ \A r \in Submitter : sub'[r] = IF r = s THEN n ELSE sub[r]
  BY DEF RequestInv
<1>2. \A st : Installed(sub, st) => Installed(sub', st)
  BY <1>1 DEF Installed
<1>3. n.attempt # None => SameAttempt(sub', n)
  <2>1. n.attempt \in Submitter \cup {None}
    BY DEF SubRecord
  <2> QED BY <1>1, <2>1 DEF SameAttempt
<1>4. Fits(sub', sub'[s])
  BY <1>1, <1>2, <1>3 DEF Fits
<1>5. ASSUME NEW r \in Submitter, r # s PROVE Fits(sub', sub'[r])
  <2>1. Fits(sub, sub[r]) /\ sub[r].attempt \in Submitter \cup {None} /\ sub'[r] = sub[r]
    BY <1>1, <1>5 DEF RequestInv, SubRecord
  <2>2. sub[r].attempt # None => SameAttempt(sub', sub[r])
    BY <1>1, <2>1 DEF Fits, SameAttempt
  <2> QED BY <1>2, <2>1, <2>2 DEF Fits
<1> QED BY <1>1, <1>2, <1>4, <1>5

\* One request moves to n, and with it perhaps the stream of the session and
\* its claim.
LEMMA RequestMoves ==
  ASSUME RequestInv, NEW s \in Submitter, NEW n \in SubRecord,
         sub' = [sub EXCEPT ![s] = n], Shape(n), Installed(sub, n.seen),
         sub[s].attempt # None => n.attempt = sub[s].attempt /\ Key(n) = Key(sub[s]),
         n.attempt # None => n.attempt = s \/ SameAttempt(sub, n),
         UNCHANGED <<currRun, turn, cancel>>, faults' \in 0..MaxFaults,
         activeStream' # activeStream =>
           /\ currRun # None /\ activeStream' \in Stream
           /\ Installed(sub, activeStream') \/ (activeStream' = s /\ n.attempt = s),
         \A k \in dedup' : k \in dedup \/ (n.claimed /\ k = Key(n)),
         sub[s].claimed /\ Key(sub[s]) \in dedup' => n.claimed /\ Key(n) = Key(sub[s])
  PROVE  RequestInv'
<1> USE ApprovalConstants
<1>1. /\ sub' \in [Submitter -> SubRecord]
      /\ \A r \in Submitter : Fits(sub', sub'[r])
      /\ \A st : Installed(sub, st) => Installed(sub', st)
  BY SubMoves
<1>2. \A r \in Submitter : sub'[r] = IF r = s THEN n ELSE sub[r]
  BY DEF RequestInv
<1>3. Installed(sub', activeStream')
  BY <1>1, <1>2 DEF RequestInv, Installed
<1>4. /\ activeStream' \in Stream \cup {None}
      /\ activeStream' = None <=> currRun' = None
  BY DEF RequestInv, Stream
<1>5. ASSUME NEW k \in dedup'
      PROVE  \E r \in Submitter : sub'[r].claimed /\ Key(sub'[r]) = k
  <2>1. CASE n.claimed /\ k = Key(n)
    BY <1>2, <2>1
  <2>2. CASE k \in dedup
    <3>1. PICK r \in Submitter : sub[r].claimed /\ Key(sub[r]) = k
      BY <2>2 DEF RequestInv
    <3>2. sub'[r].claimed /\ Key(sub'[r]) = k
      BY <1>2, <1>5, <3>1
    <3> QED BY <3>2
  <2> QED BY <1>5, <2>1, <2>2
<1> QED BY <1>1, <1>3, <1>4, <1>5 DEF RequestInv

\* What is known of a request.
LEMMA SubFacts ==
  ASSUME RequestInv, NEW s \in Submitter
  PROVE  /\ sub[s] \in SubRecord /\ Fits(sub, sub[s])
         /\ sub[s].pc \in SubPC /\ sub[s].map \in Maps
         /\ sub[s].attempt \in Submitter \cup {None}
         /\ sub[s].seen \in Stream \cup {None}
  BY DEF RequestInv, SubRecord

\* A request that ends before it has an attempt leaves nothing behind.
LEMMA DropInv ==
  ASSUME RequestInv, NEW s \in Submitter, NEW p \in {"refused", "noop", "skipped"},
         Drop(s, p), sub[s].attempt = None, UNCHANGED <<dbVars, userVars, faults>>,
         dedup' \subseteq dedup, sub[s].claimed => Key(sub[s]) \notin dedup'
  PROVE  RequestInv'
<1> DEFINE n == [IdleSub EXCEPT !.pc = p]
<1>1. n \in SubRecord
  BY IdleSubType DEF SubPC
<1>2. /\ n.pc = p /\ n.attempt = None /\ n.claimed = FALSE /\ n.seen = None
  BY DEF IdleSub
<1>3. sub' = [sub EXCEPT ![s] = n]
  BY DEF Drop
<1> HIDE DEF n
<1>4. Shape(n)
  BY <1>2 DEF Shape
<1>5. Installed(sub, n.seen)
  BY <1>2, ApprovalConstants DEF Installed
<1>6. /\ UNCHANGED <<currRun, turn, cancel>> /\ faults' \in 0..MaxFaults
      /\ activeStream' = activeStream
  BY DEF RequestInv, dbVars, userVars
<1> QED BY <1>1, <1>2, <1>3, <1>4, <1>5, <1>6, RequestMoves

\* A request that goes on with what it has: only its place changes.
LEMMA GotoInv ==
  ASSUME RequestInv, NEW s \in Submitter, NEW p \in SubPC, Goto(s, sub[s], p),
         Shape([sub[s] EXCEPT !.pc = p]), UNCHANGED <<currRun, userVars, dedup>>,
         faults' \in 0..MaxFaults,
         activeStream' # activeStream =>
           currRun # None /\ activeStream' \in Stream /\ Installed(sub, activeStream')
  PROVE  RequestInv'
<1> DEFINE q == sub[s]
           n == [q EXCEPT !.pc = p]
<1>1. q \in SubRecord /\ Fits(sub, q)
  BY SubFacts
<1>2. /\ n \in SubRecord /\ n.pc = p /\ n.map = q.map /\ n.run = q.run /\ n.seen = q.seen
      /\ n.attempt = q.attempt /\ n.claimed = q.claimed
  BY <1>1 DEF SubRecord
<1>3. sub' = [sub EXCEPT ![s] = n] /\ Shape(n)
  BY DEF Goto
<1> HIDE DEF n
<1>4. Key(n) = Key(q)
  BY <1>2 DEF Key
<1>5. Installed(sub, n.seen) /\ (n.attempt # None => SameAttempt(sub, n))
  BY <1>1, <1>2, <1>4 DEF Fits, SameAttempt
<1>6. UNCHANGED <<currRun, turn, cancel, dedup>>
  BY DEF userVars
<1> QED BY <1>2, <1>3, <1>4, <1>5, <1>6, RequestMoves

\* A request finds the attempt of the same submission, or installs its own.
LEMMA AttemptInv ==
  ASSUME RequestInv, NEW s \in Submitter, NEW a \in Submitter,
         Goto(s, [sub[s] EXCEPT !.attempt = a], "update"),
         sub[s].pc \in {"validated", "claimed", "lost"},
         UNCHANGED <<currRun, userVars, dedup, faults>>,
         \/ activeStream' = activeStream /\ Installed(sub, a) /\ Key(sub[a]) = Key(sub[s])
         \/ activeStream' \in {s, activeStream} /\ a = s /\ currRun # None
  PROVE  RequestInv'
<1> USE ApprovalConstants
<1> DEFINE q == sub[s]
           n == [[q EXCEPT !.attempt = a] EXCEPT !.pc = "update"]
<1>1. q \in SubRecord /\ Fits(sub, q) /\ q.attempt = None
  BY SubFacts DEF Fits, Shape
<1>2. /\ n \in SubRecord /\ n.pc = "update" /\ n.map = q.map /\ n.run = q.run
      /\ n.seen = q.seen /\ n.attempt = a /\ n.claimed = q.claimed
  BY <1>1 DEF SubRecord, SubPC
<1>3. sub' = [sub EXCEPT ![s] = n]
  BY DEF Goto
<1> HIDE DEF n
<1>4. Key(n) = Key(q)
  BY <1>2 DEF Key
<1>5. Shape(n)
  BY <1>1, <1>2 DEF Fits, Shape
<1>6. Installed(sub, n.seen)
  BY <1>1, <1>2 DEF Fits
<1>7. n.attempt = s \/ SameAttempt(sub, n)
  BY <1>2, <1>4 DEF SameAttempt, Installed
<1>8. activeStream' # activeStream => /\ currRun # None /\ activeStream' \in Stream
                                      /\ activeStream' = s /\ n.attempt = s
  BY <1>2 DEF Stream
<1>9. UNCHANGED <<currRun, turn, cancel, dedup>> /\ faults' \in 0..MaxFaults
  BY DEF userVars, RequestInv
<1> QED BY <1>1, <1>2, <1>3, <1>4, <1>5, <1>6, <1>7, <1>8, <1>9, RequestMoves

\* The count of faults stays within its bound.
LEMMA FaultType ==
  ASSUME RequestInv, faults' = faults \/ Fault
  PROVE  faults' \in 0..MaxFaults
  BY ApprovalConstants DEF Fault, RequestInv

\* Reading the session keeps what is known of requests ...
LEMMA ReadSessionInv ==
  ASSUME RequestInv, NEW s \in Submitter, NEW m \in Submissions, ReadSession(s, m)
  PROVE  RequestInv'
<1> USE ApprovalConstants
<1> DEFINE q == sub[s]
           n == [[q EXCEPT !.map = m, !.run = currRun, !.seen = activeStream] EXCEPT !.pc = "read"]
<1>1. q \in SubRecord /\ q.attempt = None /\ ~ q.claimed
  BY SubFacts DEF ReadSession, Fits, Shape
<1>2. CASE currRun = None
  BY <1>1, <1>2, DropInv DEF ReadSession
<1>3. CASE currRun # None
  <2>1. m \in Maps
    BY SubmissionsType
  <2>2. activeStream \in Stream \cup {None} /\ currRun \in {Run, Newer, None}
    BY DEF RequestInv
  <2>3. /\ n \in SubRecord /\ n.pc = "read" /\ n.map = m /\ n.run = currRun
        /\ n.seen = activeStream /\ n.attempt = None /\ n.claimed = q.claimed
    BY <1>1, <2>1, <2>2 DEF SubRecord, SubPC
  <2>4. sub' = [sub EXCEPT ![s] = n]
    BY <1>3 DEF ReadSession, Goto
  <2> HIDE DEF n
  <2>5. Shape(n) /\ Installed(sub, n.seen)
    BY <1>1, <1>3, <2>3 DEF Shape, RequestInv
  <2>6. UNCHANGED <<currRun, turn, cancel, dedup, activeStream>> /\ faults' \in 0..MaxFaults
    BY DEF ReadSession, userVars, dbVars, RequestInv
  <2> QED BY <1>1, <2>3, <2>4, <2>5, <2>6, RequestMoves
<1> QED BY <1>2, <1>3

\* ... and so does dropping the decisions on calls that are no longer pending, ...
LEMMA ValidateInv ==
  ASSUME RequestInv, NEW s \in Submitter, Validate(s)
  PROVE  RequestInv'
<1> DEFINE q == sub[s]
           m == Restrict(q.map, DOMAIN q.map \cap Pending)
           n == [[q EXCEPT !.map = m] EXCEPT !.pc = "validated"]
<1>1. /\ q \in SubRecord /\ q.attempt = None /\ ~ q.claimed
      /\ q.pc = "read" /\ Fits(sub, q) /\ q.map \in Maps
  BY SubFacts DEF Validate, Fits, Shape
<1>2. CASE Drop(s, "refused") \/ Drop(s, "noop")
  BY <1>1, <1>2, DropInv DEF Validate
<1>3. CASE Goto(s, [q EXCEPT !.map = m], "validated")
  <2>1. m \in Maps
    BY <1>1, RestrictType
  <2> HIDE DEF m
  <2>2. /\ n \in SubRecord /\ n.pc = "validated" /\ n.map = m /\ n.run = q.run
        /\ n.seen = q.seen /\ n.attempt = None /\ n.claimed = q.claimed
    BY <1>1, <2>1 DEF SubRecord, SubPC
  <2>3. sub' = [sub EXCEPT ![s] = n]
    BY <1>3 DEF Goto
  <2> HIDE DEF n
  <2>4. Shape(n) /\ Installed(sub, n.seen)
    BY <1>1, <2>2 DEF Shape, Fits
  <2>5. UNCHANGED <<currRun, turn, cancel, dedup, activeStream>> /\ faults' \in 0..MaxFaults
    BY DEF Validate, userVars, dbVars, RequestInv
  <2> QED BY <1>1, <2>2, <2>3, <2>4, <2>5, RequestMoves
<1> QED BY <1>2, <1>3 DEF Validate

\* ... claiming the dedup key, which nobody else holds, ...
LEMMA ClaimInv ==
  ASSUME RequestInv, NEW s \in Submitter, Claim(s)
  PROVE  RequestInv'
<1> USE ApprovalConstants
<1> DEFINE q == sub[s]
           n == [[q EXCEPT !.claimed = TRUE] EXCEPT !.pc = "claimed"]
<1>1. /\ q \in SubRecord /\ q.attempt = None /\ ~ q.claimed
      /\ q.pc = "validated" /\ Fits(sub, q) /\ q.map \in Maps /\ q.run # None /\ q.seen # None
  BY SubFacts DEF Claim, Fits, Shape
<1>2. UNCHANGED <<currRun, activeStream, userVars, dbVars>>
  BY DEF Claim, dbVars
<1>3. CASE /\ SameSubmission(q.seen, q)
           /\ Goto(s, [q EXCEPT !.attempt = q.seen], "update")
           /\ UNCHANGED <<dedup, faults>>
  <2>1. q.seen \in Submitter /\ Key(sub[q.seen]) = Key(q) /\ Installed(sub, q.seen)
    BY <1>1, <1>3 DEF SameSubmission, Fits
  <2> QED BY <1>1, <1>2, <1>3, <2>1, AttemptInv
<1>4. CASE /\ dedup' = dedup \cup {Key(q)}
           /\ Goto(s, [q EXCEPT !.claimed = TRUE], "claimed")
           /\ UNCHANGED faults
  <2>1. /\ n \in SubRecord /\ n.pc = "claimed" /\ n.map = q.map /\ n.run = q.run
        /\ n.seen = q.seen /\ n.attempt = None /\ n.claimed = TRUE
    BY <1>1 DEF SubRecord, SubPC
  <2>2. sub' = [sub EXCEPT ![s] = n]
    BY <1>4 DEF Goto
  <2> HIDE DEF n
  <2>3. Key(n) = Key(q) /\ Shape(n) /\ Installed(sub, n.seen)
    BY <1>1, <2>1 DEF Shape, Fits, Key
  <2>4. UNCHANGED <<currRun, turn, cancel, activeStream>> /\ faults' \in 0..MaxFaults
    BY <1>2, <1>4 DEF userVars, RequestInv
  <2>5. \A k \in dedup' : k \in dedup \/ (n.claimed /\ k = Key(n))
    BY <1>4, <2>1, <2>3
  <2> QED BY <1>1, <2>1, <2>2, <2>3, <2>4, <2>5, RequestMoves
<1>5. CASE Drop(s, "skipped") /\ UNCHANGED <<dedup, faults>>
  BY <1>1, <1>2, <1>5, DropInv
<1>6. CASE Fault /\ Goto(s, q, "claimed") /\ UNCHANGED dedup
  <2>1. Shape([q EXCEPT !.pc = "claimed"])
    BY <1>1 DEF SubRecord, Shape, Fits
  <2>2. faults' \in 0..MaxFaults
    BY <1>6 DEF Fault, RequestInv
  <2> QED BY <1>2, <1>6, <2>1, <2>2, GotoInv DEF SubPC
<1> QED BY <1>3, <1>4, <1>5, <1>6 DEF Claim

\* ... installing the attempt's pointer by compare and swap, ...
LEMMA InstallInv ==
  ASSUME RequestInv, NEW s \in Submitter, Install(s)
  PROVE  RequestInv'
<1> DEFINE q == sub[s]
<1>1. /\ q \in SubRecord /\ q.attempt = None /\ q.pc = "claimed" /\ Fits(sub, q)
      /\ q.run # None
  BY SubFacts DEF Install, Fits, Shape
<1>2. UNCHANGED <<currRun, userVars, dedup, faults>> /\ faults' \in 0..MaxFaults
  BY DEF Install, RequestInv
<1>3. CASE currRun = q.run /\ activeStream = q.seen
  BY <1>1, <1>2, <1>3, AttemptInv DEF Install
<1>4. CASE ~ (currRun = q.run /\ activeStream = q.seen)
  <2>1. Shape([q EXCEPT !.pc = "lost"])
    BY <1>1 DEF SubRecord, Shape, Fits
  <2> QED BY <1>2, <1>4, <2>1, GotoInv DEF Install, SubPC
<1> QED BY <1>3, <1>4

\* ... taking over the pointer that another request installed, ...
LEMMA ReuseInv ==
  ASSUME RequestInv, NEW s \in Submitter, Reuse(s)
  PROVE  RequestInv'
<1> DEFINE q == sub[s]
<1>1. q \in SubRecord /\ q.attempt = None /\ q.pc = "lost" /\ Fits(sub, q)
  BY SubFacts DEF Reuse, Fits, Shape
<1>2. /\ UNCHANGED <<currRun, activeStream, userVars, dedup, faults>>
      /\ faults' \in 0..MaxFaults
  BY DEF Reuse, RequestInv, dbVars
<1>3. CASE SameSubmission(activeStream, q)
  <2>1. /\ activeStream \in Submitter /\ Key(sub[activeStream]) = Key(q)
        /\ Installed(sub, activeStream)
    BY <1>3 DEF SameSubmission, RequestInv
  <2> QED BY <1>1, <1>2, <1>3, <2>1, AttemptInv DEF Reuse
<1>4. CASE ~ SameSubmission(activeStream, q)
  <2>1. Shape([q EXCEPT !.pc = "unclaim"])
    BY <1>1 DEF SubRecord, Shape, Fits
  <2> QED BY <1>2, <1>4, <2>1, GotoInv DEF Reuse, SubPC
<1> QED BY <1>3, <1>4

\* The answer to an update moves the request on.
LEMMA AnswerInv ==
  ASSUME RequestInv, NEW s \in Submitter,
         Update(s) \/ UpdateLost(s) \/ Apply(s)
  PROVE  RequestInv'
<1> DEFINE q == sub[s]
<1>1. /\ q \in SubRecord /\ q.attempt # None /\ q.pc \in {"update", "apply"}
      /\ Fits(sub, q)
  BY SubFacts DEF Update, UpdateLost, Apply, Fits, Shape
<1>2. UNCHANGED <<currRun, activeStream, userVars, dedup>> /\ faults' \in 0..MaxFaults
  <2>1. faults' = faults \/ Fault
    BY DEF Update, UpdateLost, Apply
  <2> QED BY <2>1, FaultType DEF Update, UpdateLost, Apply, dbVars
<1>3. \E p \in {"accepted", "apply", "failed", "rejected"} : Goto(s, q, p)
  BY DEF Update, UpdateLost, Apply, Answer
<1>4. PICK p \in {"accepted", "apply", "failed", "rejected"} : Goto(s, q, p)
  BY <1>3
<1>5. Shape([q EXCEPT !.pc = p])
  BY <1>1 DEF SubRecord, Shape, Fits
<1> QED BY <1>2, <1>4, <1>5, GotoInv DEF SubPC

\* ... rolling the pointer back if it is still the request's own, ...
LEMMA RollbackInv ==
  ASSUME RequestInv, NEW s \in Submitter, Rollback(s)
  PROVE  RequestInv'
<1> USE ApprovalConstants
<1> DEFINE q == sub[s]
<1>1. /\ q \in SubRecord /\ q.attempt \in Submitter /\ q.pc = "rejected" /\ Fits(sub, q)
      /\ q.run # None
  BY SubFacts DEF Rollback, Fits, Shape
<1>2. UNCHANGED <<currRun, userVars, dedup>> /\ faults' \in 0..MaxFaults
  BY DEF Rollback, RequestInv
<1>3. Shape([q EXCEPT !.pc = "unclaim"])
  BY <1>1 DEF SubRecord, Shape, Fits
<1>4. sub[q.attempt].attempt = q.attempt
  BY <1>1 DEF Fits, SameAttempt
<1>5. /\ sub[q.attempt].seen \in Stream \cup {None} /\ sub[q.attempt].seen # None
      /\ Installed(sub, sub[q.attempt].seen)
  BY <1>1, <1>4, SubFacts DEF Fits, Shape
<1>6. activeStream' # activeStream =>
        currRun # None /\ activeStream' \in Stream /\ Installed(sub, activeStream')
  BY <1>1, <1>5 DEF Rollback
<1> QED BY <1>2, <1>3, <1>6, GotoInv DEF Rollback, SubPC

\* ... and giving the dedup key back.
LEMMA UnclaimInv ==
  ASSUME RequestInv, NEW s \in Submitter, Unclaim(s)
  PROVE  RequestInv'
<1> DEFINE q == sub[s]
           n == [[q EXCEPT !.claimed = FALSE] EXCEPT !.pc = "refused"]
<1>1. q \in SubRecord /\ q.pc = "unclaim" /\ Fits(sub, q)
  BY SubFacts DEF Unclaim
<1>2. /\ UNCHANGED <<dbVars, userVars, faults>> /\ dedup' \subseteq dedup
      /\ q.claimed => Key(q) \notin dedup'
  BY DEF Unclaim
<1>3. CASE q.attempt = None
  BY <1>2, <1>3, DropInv DEF Unclaim
<1>4. CASE q.attempt # None
  <2>1. /\ n \in SubRecord /\ n.pc = "refused" /\ n.map = q.map /\ n.run = q.run
        /\ n.seen = q.seen /\ n.attempt = q.attempt /\ n.claimed = FALSE
    BY <1>1 DEF SubRecord, SubPC
  <2>2. sub' = [sub EXCEPT ![s] = n]
    BY <1>4 DEF Unclaim, Goto
  <2> HIDE DEF n
  <2>3. Key(n) = Key(q)
    BY <2>1 DEF Key
  <2>4. Shape(n) /\ Installed(sub, n.seen) /\ SameAttempt(sub, n)
    BY <1>1, <1>4, <2>1, <2>3 DEF Shape, Fits, SameAttempt
  <2>5. UNCHANGED <<currRun, turn, cancel, activeStream>> /\ faults' \in 0..MaxFaults
    BY <1>2 DEF userVars, dbVars, RequestInv
  <2> QED BY <1>1, <1>2, <2>1, <2>2, <2>3, <2>4, <2>5, RequestMoves
<1> QED BY <1>3, <1>4

\* Steps of the workflow, the users and the clock.
LEMMA OtherRequestInv ==
  ASSUME RequestInv, sub' = sub, dedup' \subseteq dedup, faults' \in 0..MaxFaults,
         \/ UNCHANGED <<currRun, activeStream>>
         \/ currRun' = None /\ activeStream' = None
         \/ currRun' = Newer /\ activeStream' = Newer /\ turn' = "started",
         turn' = turn \/ turn' = "started" \/ (turn = "none" /\ turn' = "validated"),
         cancel' \in {"none", "sent", "requested"}
  PROVE  RequestInv'
<1> USE ApprovalConstants
<1>1. Installed(sub', activeStream')
  BY DEF RequestInv, Installed
<1>2. /\ activeStream' \in Stream \cup {None} /\ currRun' \in {Run, Newer, None}
      /\ activeStream' = None <=> currRun' = None
  BY DEF RequestInv, Stream
<1>3. currRun' = Newer => turn' = "started"
  BY DEF RequestInv
<1> QED BY <1>1, <1>2, <1>3 DEF RequestInv

\* Every step keeps what is known of requests.
LEMMA RequestStep == RequestInv /\ [Next]_vars => RequestInv'
<1> SUFFICES ASSUME RequestInv, [Next]_vars PROVE RequestInv'
  OBVIOUS
<1>1. CASE Workflow \/ RecordRetried \/ ReconcileFails \/ FinalizeFails
  <2>1. sub' = sub /\ dedup' = dedup /\ turn' = turn /\ cancel' = cancel
    BY <1>1 DEF Workflow, TurnEnds, RequestApprovals, RecordRequest, StartTool, Resume,
         ApplyDecisions, ToolReturns, CancelTools, ReconcileResults, FinalizeTurn,
         RecordRetried, ReconcileFails, FinalizeFails, subVars, userVars
  <2>2. faults' \in 0..MaxFaults
    <3>1. faults' = faults \/ Fault
      BY <1>1 DEF Workflow, TurnEnds, RequestApprovals, RecordRequest, StartTool, Resume,
           ApplyDecisions, ToolReturns, CancelTools, ReconcileResults, FinalizeTurn,
           RecordRetried, ReconcileFails, FinalizeFails
    <3> QED BY <3>1, FaultType
  <2>3. \/ UNCHANGED <<currRun, activeStream>>
        \/ currRun' = None /\ activeStream' = None
    BY <1>1 DEF Workflow, TurnEnds, RequestApprovals, RecordRequest, StartTool, Resume,
         ApplyDecisions, ToolReturns, CancelTools, ReconcileResults, FinalizeTurn,
         RecordRetried, ReconcileFails, FinalizeFails, ClearTurnPointers, dbVars
  <2>4. cancel' \in {"none", "sent", "requested"}
    BY <2>1 DEF RequestInv
  <2> QED BY <2>1, <2>2, <2>3, <2>4, OtherRequestInv
<1>2. CASE SendCancel \/ DeliverCancel \/ ValidateTurn \/ StartTurn \/ \E k \in dedup : ExpireClaim(k)
  <2>1. /\ sub' = sub /\ dedup' \subseteq dedup /\ faults' \in 0..MaxFaults
        /\ cancel' \in {"none", "sent", "requested"}
    BY <1>2 DEF SendCancel, DeliverCancel, ValidateTurn, StartTurn, ExpireClaim, RequestInv,
         subVars, userVars
  <2>2. \/ UNCHANGED <<currRun, activeStream>>
        \/ currRun' = Newer /\ activeStream' = Newer /\ turn' = "started"
    BY <1>2 DEF SendCancel, DeliverCancel, ValidateTurn, StartTurn, ExpireClaim, dbVars
  <2>3. turn' = turn \/ turn' = "started" \/ (turn = "none" /\ turn' = "validated")
    BY <1>2 DEF SendCancel, DeliverCancel, ValidateTurn, StartTurn, ExpireClaim, userVars
  <2> QED BY <2>1, <2>2, <2>3, OtherRequestInv
<1>3. CASE UNCHANGED vars
  BY <1>3, OtherRequestInv DEF vars, subVars, userVars, dbVars, RequestInv
<1>4. CASE Stopping
  <2>1. sub' = sub /\ dedup' = dedup /\ turn' = turn /\ cancel' = cancel
    BY <1>4 DEF Stopping, CancelRun, TerminateRun, GiveUp, OrphanRecord, OrphanApply,
         OrphanFinalize, subVars, userVars
  <2>2. faults' = faults \/ Fault
    BY <1>4 DEF Stopping, CancelRun, TerminateRun, OrphanRecord, OrphanApply, OrphanFinalize
  <2>3. \/ UNCHANGED <<currRun, activeStream>>
        \/ currRun' = None /\ activeStream' = None
    BY <1>4 DEF Stopping, CancelRun, TerminateRun, GiveUp, OrphanRecord, OrphanApply,
         OrphanFinalize, ClearTurnPointers, dbVars
  <2>4. cancel' \in {"none", "sent", "requested"}
    BY <2>1 DEF RequestInv
  <2> QED BY <2>1, <2>2, <2>3, <2>4, FaultType, OtherRequestInv
<1> QED BY <1>1, <1>2, <1>3, <1>4, ReadSessionInv, ValidateInv, ClaimInv, InstallInv, ReuseInv,
           AnswerInv, RollbackInv, UnclaimInv
        DEF Next, Submission

-----------------------------------------------------------------------------
(* The rounds of the workflow.                                             *)

\* The helpers of the workflow and their types.
LEMMA AnswerAllType ==
  ASSUME WorkflowType, NEW C
  PROVE  /\ AnswerAll(C) \in [Tool -> Nat]
         /\ \A t \in Tool : AnswerAll(C)[t] = IF t \in C THEN answered[t] + 1 ELSE answered[t]
<1>1. \A t \in Tool : answered[t] \in Nat /\ answered[t] + 1 \in Nat
  BY DEF WorkflowType
<1> QED BY <1>1 DEF AnswerAll

\* A round begins without decisions.
LEMMA NoDecisionType ==
  /\ NoDecision \in [Tool -> Decision \cup {None}] /\ \A t \in Tool : NoDecision[t] = None
  BY DEF NoDecision

\* A decision that comes replaces the one that was there.
LEMMA MergeFacts ==
  ASSUME NEW f, NEW g
  PROVE  \A t \in Tool :
           Merge(f, g)[t] = IF t \in DOMAIN g /\ g[t] # None THEN g[t] ELSE f[t]
  BY DEF Merge

\* Decisions that are captured or submitted are decisions.
LEMMA MergeType ==
  ASSUME NEW X, NEW f \in [Tool -> X], NEW g, Decision \subseteq X,
         \A t \in DOMAIN g : g[t] \in Decision \cup {None}
  PROVE  Merge(f, g) \in [Tool -> X]
<1>1. \A t \in Tool : (IF t \in DOMAIN g /\ g[t] # None THEN g[t] ELSE f[t]) \in X
  OBVIOUS
<1> QED BY <1>1 DEF Merge

\* Steps of the workflow keep the results and the rows of a round together.
LEMMA WorkflowRound ==
  ASSUME RoundInv, Workflow \/ RecordRetried \/ ReconcileFails \/ FinalizeFails
  PROVE  RoundInv'
<1> USE ApprovalConstants
<1>u. UNCHANGED <<updates, given, stop, orphans>>
  BY DEF Workflow, TurnEnds, RequestApprovals, RecordRequest, StartTool, Resume,
         ApplyDecisions, ToolReturns, CancelTools, ReconcileResults, FinalizeTurn,
         RecordRetried, ReconcileFails, FinalizeFails, subVars, updateVars, userVars, stopVars
<1>s. StopFits'
  BY <1>u DEF RoundInv, StopFits, Workflow, TurnEnds, RequestApprovals, RecordRequest, StartTool,
         Resume, ApplyDecisions, ToolReturns, CancelTools, ReconcileResults, FinalizeTurn,
         RecordRetried, ReconcileFails, FinalizeFails
<1>1. ASSUME TurnEnds PROVE RoundInv'
  <2>1. WorkflowType'
    BY <1>1, <1>u DEF RoundInv, WorkflowType, Decision, TurnEnds, subVars, dbVars
  <2>2. ResultsFit'
    BY <1>1 DEF RoundInv, ResultsFit, WorkflowType, RoundOpen, TurnEnds, subVars, dbVars
  <2>3. RowsFit'
    BY <1>1, <1>u DEF RoundInv, RowsFit, StopFits, WorkflowType, RoundOpen, ResultsFit, Decision, TurnEnds, subVars, dbVars
  <2> QED BY <1>s, <2>1, <2>2, <2>3 DEF RoundInv
<1>2. ASSUME NEW C \in SUBSET Tool, RequestApprovals(C) PROVE RoundInv'
  <2>1. WorkflowType'
    <3>1. decisions' \in [Tool -> Decision \cup {None}]
      BY <1>2, NoDecisionType DEF RequestApprovals, Prepare
    <3>2. answered' \in [Tool -> Nat]
      BY <1>2 DEF RequestApprovals
    <3>3. active = None /\ todo = {}
      BY <1>2 DEF RequestApprovals, RoundInv, ResultsFit
    <3> QED BY <1>2, <1>u, <3>1, <3>2, <3>3
            DEF RoundInv, WorkflowType, RequestApprovals, Prepare, subVars, dbVars
  <2>2. ResultsFit'
    BY <1>2 DEF RoundInv, ResultsFit, WorkflowType, RoundOpen, RequestApprovals, Prepare, NoDecision, subVars, dbVars
  <2>3. RowsFit'
    BY <1>2, <1>u DEF RoundInv, RowsFit, StopFits, WorkflowType, RoundOpen, ResultsFit, Decision, RequestApprovals, Prepare, NoDecision, subVars, dbVars
  <2> QED BY <1>s, <2>1, <2>2, <2>3 DEF RoundInv
<1>3. ASSUME NEW t \in Tool, RecordRequest(t) PROVE RoundInv'
  <2>1. WorkflowType'
    BY <1>3, <1>u DEF RoundInv, WorkflowType, Decision, RecordRequest, subVars, dbVars
  <2>2. ResultsFit'
    BY <1>3 DEF RoundInv, ResultsFit, WorkflowType, RoundOpen, RecordRequest, subVars, dbVars
  <2>3. RowsFit'
    BY <1>3, <1>u DEF RoundInv, RowsFit, StopFits, WorkflowType, RoundOpen, ResultsFit, Decision, RecordRequest, subVars, dbVars
  <2> QED BY <1>s, <2>1, <2>2, <2>3 DEF RoundInv
<1>4. ASSUME RecordRetried PROVE RoundInv'
  <2>1. WorkflowType'
    BY <1>4, <1>u DEF RoundInv, WorkflowType, Decision, RecordRetried, subVars, dbVars
  <2>2. ResultsFit'
    BY <1>4 DEF RoundInv, ResultsFit, WorkflowType, RoundOpen, RecordRetried, subVars, dbVars
  <2>3. RowsFit'
    BY <1>4, <1>u DEF RoundInv, RowsFit, StopFits, WorkflowType, RoundOpen, ResultsFit, Decision, RecordRetried, subVars, dbVars
  <2> QED BY <1>s, <2>1, <2>2, <2>3 DEF RoundInv
<1>5. ASSUME Resume PROVE RoundInv'
  <2>1. WorkflowType'
    BY <1>5, <1>u DEF RoundInv, WorkflowType, Decision, Resume, Resumable, Ready, DenyAll, CancelRequested, subVars, dbVars
  <2>2. ResultsFit'
    BY <1>5 DEF RoundInv, ResultsFit, WorkflowType, RoundOpen, Resume, Resumable, Ready, DenyAll, CancelRequested, subVars, dbVars
  <2>3. RowsFit'
    BY <1>5, <1>u DEF RoundInv, RowsFit, StopFits, WorkflowType, RoundOpen, ResultsFit, Decision, Resume, Resumable, Ready, DenyAll, CancelRequested, subVars, dbVars
  <2> QED BY <1>s, <2>1, <2>2, <2>3 DEF RoundInv
<1>6. ASSUME ApplyDecisions PROVE RoundInv'
  <2>1. WorkflowType'
    <3>1. answered' \in [Tool -> Nat]
      <4>1. answered \in [Tool -> Nat]
        BY DEF RoundInv, WorkflowType
      <4> QED BY <1>6, <4>1, AnswerAllType DEF ApplyDecisions, RoundInv
    <3>2. rows' \in [Tool -> Decision \cup {"pending", None}]
      BY <1>6, MergeType DEF ApplyDecisions, RoundInv, WorkflowType
    <3>3. payload' \in [Tool -> Decision \cup {None}]
      BY <1>6, NoDecisionType DEF ApplyDecisions
    <3>4. todo' \subseteq expected
      BY <1>6 DEF ApplyDecisions, Approved, RoundInv, WorkflowType
    <3> QED BY <1>6, <1>u, <3>1, <3>2, <3>3, <3>4
            DEF RoundInv, WorkflowType, ApplyDecisions, subVars
  <2>2. ResultsFit'
    BY <1>6 DEF RoundInv, ResultsFit, WorkflowType, RoundOpen, ApplyDecisions, Merge, NoDecision, Approved, IsApproval, AnswerAll, subVars, dbVars
  <2>3. RowsFit'
    <3>1. \A t \in Tool : rows'[t] = IF payload[t] # None THEN payload[t] ELSE rows[t]
      BY <1>6, MergeFacts DEF ApplyDecisions, RoundInv, WorkflowType
    <3>2. \A t \in Tool : payload[t] # None => payload[t] \in Decision
      BY DEF RoundInv, WorkflowType
    <3>3. /\ wpc = "persisting" /\ wpc' \in {"tools", "finishing"}
          /\ UNCHANGED <<expected, asked, decisions>>
      BY <1>6 DEF ApplyDecisions
    <3>4. \A t \in asked \ expected : rows'[t] \in Decision
      BY <3>1, <3>2 DEF RoundInv, RowsFit, WorkflowType
    <3>5. \A t \in expected : rows'[t] \in Decision
      BY <3>1, <3>2, <3>3 DEF RoundInv, RowsFit, WorkflowType
    <3>6. \A t \in Tool \ asked : payload[t] = None
      BY DEF RoundInv, RowsFit, WorkflowType
    <3> QED BY <1>6, <1>u, <3>1, <3>3, <3>4, <3>5, <3>6, NoDecisionType DEF ApplyDecisions, RoundInv, RowsFit, StopFits, WorkflowType, RoundOpen
  <2> QED BY <1>s, <2>1, <2>2, <2>3 DEF RoundInv
<1>7. ASSUME NEW t \in Tool, StartTool(t) PROVE RoundInv'
  <2>1. WorkflowType'
    BY <1>7, <1>u DEF RoundInv, WorkflowType, Decision, StartTool, subVars, dbVars
  <2>2. ResultsFit'
    BY <1>7 DEF RoundInv, ResultsFit, WorkflowType, RoundOpen, StartTool, subVars, dbVars
  <2>3. RowsFit'
    BY <1>7, <1>u DEF RoundInv, RowsFit, StopFits, WorkflowType, RoundOpen, ResultsFit, Decision, StartTool, subVars, dbVars
  <2> QED BY <1>s, <2>1, <2>2, <2>3 DEF RoundInv
<1>8. ASSUME ToolReturns PROVE RoundInv'
  <2>1. WorkflowType'
    <3>1. answered' \in [Tool -> Nat]
      BY <1>8, AnswerAllType DEF ToolReturns, RoundInv
    <3> QED BY <1>8, <1>u, <3>1 DEF RoundInv, WorkflowType, ToolReturns, subVars, dbVars
  <2>2. ResultsFit'
    BY <1>8 DEF RoundInv, ResultsFit, WorkflowType, RoundOpen, ToolReturns, AnswerAll, subVars, dbVars
  <2>3. RowsFit'
    BY <1>8, <1>u DEF RoundInv, RowsFit, StopFits, WorkflowType, RoundOpen, ResultsFit, Decision, ToolReturns, AnswerAll, subVars, dbVars
  <2> QED BY <1>s, <2>1, <2>2, <2>3 DEF RoundInv
<1>9. ASSUME CancelTools PROVE RoundInv'
  <2>1. WorkflowType'
    <3>1. answered' \in [Tool -> Nat]
      BY <1>9, AnswerAllType DEF CancelTools, RoundInv
    <3> QED BY <1>9, <1>u, <3>1 DEF RoundInv, WorkflowType, CancelTools, subVars, dbVars
  <2>2. ResultsFit'
    BY <1>9 DEF RoundInv, ResultsFit, WorkflowType, RoundOpen, CancelTools, AnswerAll, Interrupted, subVars, dbVars
  <2>3. RowsFit'
    BY <1>9, <1>u DEF RoundInv, RowsFit, StopFits, WorkflowType, RoundOpen, ResultsFit, Decision, CancelTools, AnswerAll, Interrupted, subVars, dbVars
  <2> QED BY <1>s, <2>1, <2>2, <2>3 DEF RoundInv
<1>10. ASSUME ReconcileResults \/ ReconcileFails PROVE RoundInv'
  <2>1. WorkflowType'
    BY <1>10, <1>u DEF RoundInv, WorkflowType, Decision, ReconcileResults, ReconcileFails, subVars, dbVars
  <2>2. ResultsFit'
    BY <1>10 DEF RoundInv, ResultsFit, WorkflowType, RoundOpen, ReconcileResults, ReconcileFails, subVars, dbVars
  <2>3. RowsFit'
    BY <1>10, <1>u DEF RoundInv, RowsFit, StopFits, WorkflowType, RoundOpen, ResultsFit, Decision, ReconcileResults, ReconcileFails, subVars, dbVars
  <2> QED BY <1>s, <2>1, <2>2, <2>3 DEF RoundInv
<1>11. ASSUME FinalizeTurn \/ FinalizeFails PROVE RoundInv'
  <2>1. WorkflowType'
    BY <1>11, <1>u DEF RoundInv, WorkflowType, Decision, FinalizeTurn, FinalizeFails, subVars, dbVars
  <2>2. ResultsFit'
    BY <1>11 DEF RoundInv, ResultsFit, WorkflowType, RoundOpen, FinalizeTurn, FinalizeFails, subVars, dbVars
  <2>3. RowsFit'
    BY <1>11, <1>u DEF RoundInv, RowsFit, StopFits, WorkflowType, RoundOpen, ResultsFit, Decision, FinalizeTurn, FinalizeFails, subVars, dbVars
  <2> QED BY <1>s, <2>1, <2>2, <2>3 DEF RoundInv
<1> QED BY <1>1, <1>2, <1>3, <1>4, <1>5, <1>6, <1>7, <1>8, <1>9, <1>10, <1>11 DEF Workflow

\* The update handler takes the decisions over and leaves its result.
LEMMA SetApprovalsFacts ==
  ASSUME RequestInv, WorkflowType, NEW s \in Submitter, sub[s].attempt # None,
         SetApprovals(sub[s])
  PROVE  /\ updates' \in [Submitter -> {None, TRUE, FALSE}]
         /\ \A a \in Submitter : a # sub[s].attempt => updates'[a] = updates[a]
         /\ updates'[sub[s].attempt] # None
         /\ given' = [given EXCEPT ![sub[s].attempt] = sub[s].map]
         /\ given' \in [Submitter -> Maps]
         /\ decisions' \in [Tool -> Decision \cup {None}]
         /\ \A t \in Tool : decisions'[t] = IF t \in DOMAIN sub[s].map THEN sub[s].map[t]
                                            ELSE decisions[t]
         /\ DOMAIN sub[s].map \subseteq Tool
         /\ \A t \in DOMAIN sub[s].map : sub[s].map[t] \in Decision
<1> USE ApprovalConstants
<1> DEFINE q == sub[s]
           ready == Ready(decisions')
<1>1. /\ q.attempt \in Submitter /\ DOMAIN q.map \subseteq Tool
      /\ \A t \in DOMAIN q.map : q.map[t] \in Decision
  BY SubFacts, MapType
<1>2. updates' = [updates EXCEPT ![q.attempt] = ready]
  BY DEF SetApprovals
<1>3. ready \in {TRUE, FALSE}
  BY DEF Ready
<1> HIDE DEF ready
<1>4. /\ updates' \in [Submitter -> {None, TRUE, FALSE}]
      /\ \A a \in Submitter : a # q.attempt => updates'[a] = updates[a]
      /\ updates'[q.attempt] = ready
  BY <1>1, <1>2, <1>3 DEF WorkflowType
<1>5. ready # None
  BY <1>3
<1>6. decisions' = Merge(decisions, q.map)
  BY DEF SetApprovals
<1>7. decisions' \in [Tool -> Decision \cup {None}]
  BY <1>1, <1>6, MergeType DEF WorkflowType
<1>8. \A t \in Tool : decisions'[t] = IF t \in DOMAIN q.map THEN q.map[t] ELSE decisions[t]
  BY <1>1, <1>6, MergeFacts
<1>9. given' = [given EXCEPT ![q.attempt] = q.map] /\ given' \in [Submitter -> Maps]
  <2>1. given \in [Submitter -> Maps] /\ q.map \in Maps
    BY SubFacts DEF WorkflowType
  <2> QED BY <2>1 DEF SetApprovals
<1> QED BY <1>1, <1>4, <1>5, <1>7, <1>8, <1>9

\* What the requests and the clock leave alone.
LEMMA RoundKept ==
  ASSUME RoundInv, UNCHANGED <<wfVars, rows, updateVars, stopVars>>
  PROVE  RoundInv'
  BY DEF RoundInv, WorkflowType, StopFits, ResultsFit, RowsFit, RoundOpen, wfVars, updateVars,
         stopVars

\* A decision on a call of the round is taken over, wherever the round is.
LEMMA SetApprovalsRound ==
  ASSUME RequestInv, RoundInv, NEW s \in Submitter, sub[s].attempt # None,
         SetApprovals(sub[s]), Valid(sub[s]),
         UNCHANGED <<wpc, expected, recorded, payload, todo, active, answered, executed,
                     asked, rows, stopVars>>
  PROVE  RoundInv'
<1> USE ApprovalConstants
<1>1. /\ updates' \in [Submitter -> {None, TRUE, FALSE}]
      /\ given' \in [Submitter -> Maps]
      /\ decisions' \in [Tool -> Decision \cup {None}]
      /\ \A t \in Tool : decisions'[t] = IF t \in DOMAIN sub[s].map THEN sub[s].map[t]
                                         ELSE decisions[t]
      /\ \A t \in DOMAIN sub[s].map : sub[s].map[t] \in Decision
  BY SetApprovalsFacts DEF RoundInv
<1>2. DOMAIN sub[s].map \subseteq expected /\ expected \subseteq Tool
  BY DEF Valid, RoundInv, WorkflowType
<1>3. WorkflowType' /\ StopFits' /\ ResultsFit'
  BY <1>1 DEF RoundInv, WorkflowType, StopFits, ResultsFit, RoundOpen, stopVars
<1>4. \A t \in Tool : decisions[t] # None => decisions'[t] # None
  BY <1>1
<1>5. RowsFit'
  BY <1>1, <1>2, <1>4 DEF RoundInv, RowsFit, RoundOpen, stopVars
<1> QED BY <1>3, <1>5 DEF RoundInv

\* What is written for an incomplete set are pending rows of the open round.
LEMMA ApplyFacts ==
  ASSUME RequestInv, RoundInv, UpdateInv, NEW s \in Submitter, Apply(s)
  PROVE  /\ rows' \in [Tool -> Decision \cup {"pending", None}]
         /\ \A t \in Tool :
              \/ rows'[t] = rows[t]
              \/ /\ rows[t] = "pending" /\ rows'[t] \in Decision
                 /\ t \in DOMAIN sub[s].map /\ rows'[t] = sub[s].map[t]
                 /\ stop # "cut" => t \in expected /\ decisions[t] # None
<1> USE ApprovalConstants
<1> DEFINE q == sub[s]
           D == DOMAIN q.map \cap Pending
           g == Restrict(q.map, D)
<1>1. /\ DOMAIN q.map \subseteq Tool /\ \A t \in DOMAIN q.map : q.map[t] \in Decision
      /\ q.map \in Maps /\ q.attempt \in Submitter /\ Key(sub[q.attempt]) = Key(q)
  BY SubFacts, MapType DEF Fits, Shape, Apply, SameAttempt
<1>2. DOMAIN g = D /\ (\A t \in D : g[t] = q.map[t]) /\ rows' = Merge(rows, g)
  BY <1>1, RestrictType DEF Apply
<1>3. stop # "cut" => \A t \in DOMAIN q.map : Kept(t)
  <2>1. DOMAIN sub[q.attempt].map = DOMAIN q.map
    BY <1>1 DEF Key
  <2>2. updates[q.attempt] # None
    BY DEF Apply, UpdateInv
  <2> QED BY <1>1, <2>1, <2>2 DEF UpdateInv, HandledOnce
<1>4. \A t \in D : /\ rows[t] = "pending"
                   /\ stop # "cut" => t \in expected /\ decisions[t] # None
  BY <1>3 DEF Pending, Kept, Decision
<1>5. \A t \in DOMAIN g : g[t] \in Decision
  BY <1>1, <1>2
<1> HIDE DEF g
<1>6. rows' \in [Tool -> Decision \cup {"pending", None}]
  BY <1>2, <1>5, MergeType DEF RoundInv, WorkflowType
<1>7. \A t \in Tool : rows'[t] = IF t \in D THEN g[t] ELSE rows[t]
  BY <1>2, <1>5, MergeFacts
<1> QED BY <1>2, <1>4, <1>5, <1>6, <1>7

\* Writing the rows of an accepted submission keeps the round.
LEMMA ApplyRound ==
  ASSUME RequestInv, RoundInv, UpdateInv, NEW s \in Submitter, Apply(s)
  PROVE  RoundInv'
<1> USE ApprovalConstants
<1>1. /\ rows' \in [Tool -> Decision \cup {"pending", None}]
      /\ \A t \in Tool :
           \/ rows'[t] = rows[t]
           \/ /\ rows[t] = "pending" /\ rows'[t] \in Decision
              /\ stop # "cut" => t \in expected /\ decisions[t] # None
  BY ApplyFacts
<1>2. UNCHANGED <<wfVars, updateVars, stopVars>>
  BY DEF Apply, userVars
<1>3. WorkflowType' /\ StopFits' /\ ResultsFit'
  BY <1>1, <1>2 DEF RoundInv, WorkflowType, StopFits, ResultsFit, RoundOpen, wfVars, updateVars,
                    stopVars
<1>4. expected \subseteq Tool /\ asked \subseteq Tool /\ expected \subseteq asked
  BY DEF RoundInv, WorkflowType
<1>5. RowsFit'
  BY <1>1, <1>2, <1>4 DEF RoundInv, RowsFit, StopFits, RoundOpen, wfVars, stopVars
<1> QED BY <1>3, <1>5 DEF RoundInv

\* A run that is stopped starts no tool and decides nothing; an activity that
\* outlives it writes rows of the round that was cut, or the pointers.
LEMMA StoppingRound ==
  ASSUME RoundInv, Stopping
  PROVE  RoundInv'
<1> USE ApprovalConstants
<1>1. ASSUME NEW to \in {"finishing", "ended"}, GiveUp(to), wpc # "ended",
             wpc = "finishing" => to = "ended"
      PROVE  RoundInv'
  <2>1. WorkflowType'
    BY <1>1 DEF GiveUp, RoundInv, WorkflowType, subVars, updateVars, dbVars
  <2>2. StopFits'
    BY <1>1 DEF GiveUp, RoundInv, StopFits, RoundOpen
  <2>3. ResultsFit'
    BY <1>1 DEF GiveUp, RoundInv, ResultsFit, WorkflowType, RoundOpen
  <2>4. RowsFit'
    BY <1>1 DEF GiveUp, RoundInv, RowsFit, StopFits, WorkflowType, RoundOpen, dbVars
  <2> QED BY <2>1, <2>2, <2>3, <2>4 DEF RoundInv
<1>2. CASE CancelRun /\ stop' = "delivered" /\ UNCHANGED <<wfVars, dbVars, subVars, orphans>>
  BY <1>2 DEF CancelRun, RoundInv, WorkflowType, StopFits, ResultsFit, RowsFit, RoundOpen, wfVars,
              dbVars, subVars, updateVars
<1>3. ASSUME NEW t \in Tool, OrphanRecord(t) PROVE RoundInv'
  <2>1. /\ stop = "cut" /\ t \in expected /\ t \in asked /\ wpc \in {"finishing", "ended"}
        /\ rows' = [rows EXCEPT ![t] = "pending"] /\ recorded' = recorded \cup {t}
        /\ UNCHANGED <<wpc, expected, decisions, payload, todo, active, answered, executed,
                       asked, updates, given, stop, orphans>>
    BY <1>3 DEF OrphanRecord, RoundInv, StopFits, WorkflowType, subVars, updateVars, userVars,
                stopVars
  <2>2. StopFits' /\ ResultsFit'
    BY <2>1 DEF RoundInv, StopFits, ResultsFit, RoundOpen
  <2>3. recorded' \subseteq Tool /\ rows' \in [Tool -> Decision \cup {"pending", None}]
    BY <2>1 DEF RoundInv, WorkflowType
  <2>4. WorkflowType'
    BY <2>1, <2>3 DEF RoundInv, WorkflowType
  <2>5. RowsFit'
    <3>1. \A u \in Tool : u # t => rows'[u] = rows[u]
      BY <2>1 DEF RoundInv, WorkflowType
    <3>2. \A u \in Tool \ asked' : u # t
      BY <2>1
    <3>3. \A u \in asked' \ expected' : u \in Tool /\ u # t
      BY <2>1 DEF RoundInv, WorkflowType
    <3> QED BY <2>1, <3>1, <3>2, <3>3 DEF RoundInv, RowsFit, RoundOpen
  <2> QED BY <2>2, <2>4, <2>5 DEF RoundInv
<1>4. CASE OrphanApply
  <2>1. /\ stop = "cut" /\ wpc \in {"finishing", "ended"} /\ rows' = Merge(rows, payload)
        /\ payload' = NoDecision /\ orphans' = orphans \ {"persisting"}
        /\ UNCHANGED <<wpc, expected, decisions, recorded, todo, active, answered, executed,
                       asked, updates, given, stop>>
    BY <1>4 DEF OrphanApply, RoundInv, StopFits, subVars, updateVars
  <2>2. rows' \in [Tool -> Decision \cup {"pending", None}]
    BY <2>1, MergeType DEF RoundInv, WorkflowType
  <2>3. \A t \in Tool : rows'[t] = IF payload[t] # None THEN payload[t] ELSE rows[t]
    BY <2>1, MergeFacts DEF RoundInv, WorkflowType
  <2>4. WorkflowType' /\ StopFits' /\ ResultsFit'
    BY <2>1, <2>2, NoDecisionType DEF RoundInv, WorkflowType, StopFits, ResultsFit, RoundOpen
  <2>5. RowsFit'
    BY <2>1, <2>3, NoDecisionType DEF RoundInv, RowsFit, WorkflowType, RoundOpen
  <2> QED BY <2>4, <2>5 DEF RoundInv
<1>5. CASE OrphanFinalize
  BY <1>5 DEF OrphanFinalize, RoundInv, WorkflowType, StopFits, ResultsFit, RowsFit, RoundOpen,
              wfVars, subVars, updateVars
<1> QED BY <1>1, <1>2, <1>3, <1>4, <1>5 DEF Stopping, CancelRun, TerminateRun

\* Every step keeps what is known of the round.
LEMMA RoundStep == RequestInv /\ RoundInv /\ UpdateInv /\ [Next]_vars => RoundInv'
<1> SUFFICES ASSUME RequestInv, RoundInv, UpdateInv, [Next]_vars PROVE RoundInv'
  OBVIOUS
<1>1. ASSUME NEW s \in Submitter, Update(s) \/ UpdateLost(s) PROVE RoundInv'
  <2>1. UNCHANGED <<wpc, expected, recorded, payload, todo, active, answered, executed,
                    asked, rows, stopVars>>
    BY <1>1 DEF Update, UpdateLost, dbVars, userVars
  <2>2. CASE UNCHANGED <<decisions, updateVars>>
    BY <2>1, <2>2, RoundKept DEF wfVars
  <2>3. CASE SetApprovals(sub[s]) /\ Valid(sub[s])
    <3>1. sub[s].attempt # None
      BY <1>1, SubFacts DEF Update, UpdateLost, Fits, Shape
    <3> QED BY <2>1, <2>3, <3>1, SetApprovalsRound
  <2> QED BY <1>1, <2>2, <2>3 DEF Update, UpdateLost
<1>2. ASSUME NEW s \in Submitter, Validate(s) \/ Claim(s) \/ Install(s) \/ Reuse(s)
                                  \/ Rollback(s) \/ Unclaim(s)
      PROVE RoundInv'
  BY <1>2, RoundKept DEF Validate, Claim, Install, Reuse, Rollback, Unclaim, dbVars, userVars
<1>3. ASSUME NEW s \in Submitter, NEW m \in Submissions, ReadSession(s, m) PROVE RoundInv'
  BY <1>3, RoundKept DEF ReadSession, dbVars, userVars
<1>4. CASE SendCancel \/ DeliverCancel \/ ValidateTurn \/ StartTurn \/ \E k \in dedup : ExpireClaim(k)
  BY <1>4, RoundKept DEF SendCancel, DeliverCancel, ValidateTurn, StartTurn, ExpireClaim,
                         subVars, dbVars, userVars
<1>5. CASE UNCHANGED vars
  BY <1>5, RoundKept DEF vars, dbVars, subVars, userVars
<1> QED BY <1>1, <1>2, <1>3, <1>4, <1>5, WorkflowRound, ApplyRound, StoppingRound DEF Next, Submission

-----------------------------------------------------------------------------
(* What became of an update.                                               *)

\* A request that has an attempt keeps it and its decisions, one that is accepted
\* stays so, and an update is handled once.
AttemptsKept ==
  \A s \in Submitter :
    /\ sub[s].attempt # None => sub'[s].attempt = sub[s].attempt /\ sub'[s].map = sub[s].map
    /\ sub[s].pc = "accepted" => sub'[s].pc = "accepted"

UpdatesKept ==
  \A a \in Submitter : updates[a] # None => updates'[a] = updates[a] /\ given'[a] = given[a]

CancelKept == CancelRequested => CancelRequested'

\* No step takes an attempt, or what it sent, from a request.
LEMMA AttemptsStep == RequestInv /\ [Next]_vars => AttemptsKept
<1> SUFFICES ASSUME RequestInv, [Next]_vars PROVE AttemptsKept
  OBVIOUS
<1>1. CASE sub' = sub
  BY <1>1 DEF AttemptsKept
<1>2. ASSUME NEW s \in Submitter, NEW n, sub' = [sub EXCEPT ![s] = n],
             sub[s].attempt # None => n.attempt = sub[s].attempt /\ n.map = sub[s].map,
             sub[s].pc # "accepted"
      PROVE  AttemptsKept
  BY <1>2 DEF AttemptsKept, RequestInv
<1>3. ASSUME NEW s \in Submitter, NEW p, Goto(s, sub[s], p), sub[s].pc # "accepted"
      PROVE  AttemptsKept
  <2> DEFINE n == [sub[s] EXCEPT !.pc = p]
  <2>1. n.attempt = sub[s].attempt /\ n.map = sub[s].map
    BY SubFacts DEF SubRecord
  <2>2. sub' = [sub EXCEPT ![s] = n]
    BY <1>3 DEF Goto
  <2> HIDE DEF n
  <2> QED BY <1>2, <1>3, <2>1, <2>2
<1>4. ASSUME NEW s \in Submitter, NEW m \in Submissions, ReadSession(s, m) PROVE AttemptsKept
  <2>1. sub[s].attempt = None /\ sub[s].pc # "accepted"
    BY <1>4, SubFacts DEF ReadSession, Fits, Shape
  <2> QED BY <1>2, <1>4, <2>1 DEF ReadSession, Goto, Drop
<1>5. ASSUME NEW s \in Submitter, Validate(s) \/ Claim(s) \/ Install(s) \/ Reuse(s)
      PROVE  AttemptsKept
  <2>1. sub[s].attempt = None /\ sub[s].pc # "accepted"
    BY <1>5, SubFacts DEF Validate, Claim, Install, Reuse, Fits, Shape
  <2> QED BY <1>2, <1>5, <2>1 DEF Validate, Claim, Install, Reuse, Goto, Drop
<1>6. ASSUME NEW s \in Submitter, Update(s) \/ UpdateLost(s) \/ Apply(s) \/ Rollback(s)
      PROVE  AttemptsKept
  <2>1. (\E p : Goto(s, sub[s], p)) /\ sub[s].pc # "accepted"
    BY <1>6 DEF Update, UpdateLost, Apply, Rollback, Answer
  <2> QED BY <1>3, <2>1
<1>7. ASSUME NEW s \in Submitter, Unclaim(s) PROVE AttemptsKept
  <2> DEFINE n == [[sub[s] EXCEPT !.claimed = FALSE] EXCEPT !.pc = "refused"]
  <2>0. sub[s].pc # "accepted"
    BY <1>7 DEF Unclaim
  <2>1. CASE sub[s].attempt = None
    BY <1>2, <1>7, <2>0, <2>1 DEF Unclaim, Drop
  <2>2. CASE sub[s].attempt # None
    <3>1. n.attempt = sub[s].attempt /\ n.map = sub[s].map
      BY SubFacts DEF SubRecord
    <3>2. sub' = [sub EXCEPT ![s] = n]
      BY <1>7, <2>2 DEF Unclaim, Goto
    <3> HIDE DEF n
    <3> QED BY <1>2, <2>0, <3>1, <3>2
  <2> QED BY <2>1, <2>2
<1>8. CASE Workflow \/ RecordRetried \/ ReconcileFails \/ FinalizeFails
  BY <1>1, <1>8 DEF Workflow, TurnEnds, RequestApprovals, RecordRequest, StartTool, Resume,
         ApplyDecisions, ToolReturns, CancelTools, ReconcileResults, FinalizeTurn,
         RecordRetried, ReconcileFails, FinalizeFails, subVars
<1>9. CASE SendCancel \/ DeliverCancel \/ ValidateTurn \/ StartTurn \/ \E k \in dedup : ExpireClaim(k)
  BY <1>1, <1>9 DEF SendCancel, DeliverCancel, ValidateTurn, StartTurn, ExpireClaim, subVars
<1>10. CASE UNCHANGED vars
  BY <1>1, <1>10 DEF vars, subVars
<1>11. CASE Stopping
  BY <1>1, <1>11 DEF Stopping, CancelRun, TerminateRun, GiveUp, OrphanRecord, OrphanApply,
         OrphanFinalize, subVars
<1> QED BY <1>4, <1>5, <1>6, <1>7, <1>8, <1>9, <1>10, <1>11 DEF Next, Submission

\* Nobody takes the cancel back.
LEMMA CancelStep == [Next]_vars => CancelKept
<1> SUFFICES ASSUME [Next]_vars PROVE CancelKept
  OBVIOUS
<1>1. cancel' = cancel \/ SendCancel \/ DeliverCancel
  <2>1. CASE Workflow \/ RecordRetried \/ ReconcileFails \/ FinalizeFails
    BY <2>1 DEF Workflow, TurnEnds, RequestApprovals, RecordRequest, StartTool, Resume,
         ApplyDecisions, ToolReturns, CancelTools, ReconcileResults, FinalizeTurn,
         RecordRetried, ReconcileFails, FinalizeFails, userVars
  <2>2. CASE Stopping
    BY <2>2 DEF Stopping, CancelRun, TerminateRun, GiveUp, OrphanRecord, OrphanApply,
         OrphanFinalize, userVars
  <2>3. ASSUME NEW s \in Submitter, NEW m \in Submissions, ReadSession(s, m)
        PROVE  cancel' = cancel
    BY <2>3 DEF ReadSession, userVars
  <2>4. ASSUME NEW s \in Submitter, Submission(s) \/ UpdateLost(s) PROVE cancel' = cancel
    BY <2>4 DEF Submission, Validate, Claim, Install, Reuse, Update, UpdateLost, Rollback,
         Unclaim, Apply, userVars
  <2>5. CASE ValidateTurn \/ StartTurn \/ \E k \in dedup : ExpireClaim(k)
    BY <2>5 DEF ValidateTurn, StartTurn, ExpireClaim, userVars
  <2>6. CASE UNCHANGED vars
    BY <2>6 DEF vars, userVars
  <2> QED BY <2>1, <2>2, <2>3, <2>4, <2>5, <2>6 DEF Next
<1> QED BY <1>1 DEF CancelKept, CancelRequested, SendCancel, DeliverCancel

\* A decision that was made stays made.
LEMMA MadeStable ==
  ASSUME RequestInv, UpdateInv, AttemptsKept, UpdatesKept, CancelKept, NEW t
  PROVE  /\ Handled(t) \subseteq Handled(t)'
         /\ Settled(t) \subseteq Settled(t)'
         /\ Made(t) \subseteq Made(t)'
<1> USE ApprovalConstants
<1>1. ASSUME NEW a \in Submitter, t \in DOMAIN given[a] PROVE given'[a] = given[a]
  BY <1>1 DEF UpdateInv, HandledOnce, UpdatesKept
<1>2. Handled(t) \subseteq Handled(t)'
  BY <1>1 DEF Handled
<1>3. Settled(t) \subseteq Settled(t)'
  BY <1>2 DEF Settled, CancelKept
<1>4. ASSUME NEW s \in Submitter, sub[s].pc = "accepted"
      PROVE  sub'[s].pc = "accepted" /\ sub'[s].map = sub[s].map
  BY <1>4, SubFacts DEF AttemptsKept, Fits, Shape
<1>5. Made(t) \subseteq Made(t)'
  BY <1>2, <1>4 DEF Made, CancelKept
<1> QED BY <1>2, <1>3, <1>5

\* The workflow's decisions are among those that were made, and an approval of
\* the workflow is one of an update.
LEMMA SettledMade ==
  ASSUME NEW t
  PROVE  /\ Settled(t) \subseteq Made(t)
         /\ "approve" \in Settled(t) => "approve" \in Handled(t)
  BY DEF Settled, Made

\* UpdateInv carries over where the result of no update and no request that
\* got its answer is new.
LEMMA UpdateInvKept ==
  ASSUME RequestInv, UpdateInv, AttemptsKept, CancelKept, UNCHANGED updateVars,
         stop = "cut" => stop' = "cut",
         stop' # "cut" => \A t \in Tool : Kept(t) => Kept(t)',
         \A t \in Tool : decisions'[t] \in {decisions[t], None} \cup Settled(t)',
         \A t \in Tool : payload'[t] \in {payload[t], decisions'[t], None},
         \A t \in Tool : rows'[t] \in {rows[t], payload[t], "pending"} \cup Made(t)',
         \A t \in Tool : t \in todo' \cup executed' =>
           t \in todo \cup executed \/ decisions[t] = "approve",
         \A s \in Submitter : sub'[s].pc \in {"apply", "accepted"} =>
           /\ updates[sub[s].attempt] # None /\ sub'[s].attempt = sub[s].attempt
  PROVE  UpdateInv'
<1> USE ApprovalConstants
<1>1. UpdatesKept /\ updates' = updates /\ given' = given
  BY DEF UpdatesKept, updateVars
<1>2. ASSUME NEW t \in Tool PROVE Traced(t)'
  <2>1. /\ Handled(t) \subseteq Handled(t)' /\ Settled(t) \subseteq Settled(t)'
        /\ Made(t) \subseteq Made(t)' /\ Settled(t) \subseteq Made(t)
        /\ "approve" \in Settled(t) => "approve" \in Handled(t)
    BY <1>1, MadeStable, SettledMade
  <2>2. Traced(t)
    BY DEF UpdateInv
  <2>3. decisions'[t] \in Settled(t)' \cup {None}
    BY <2>1, <2>2 DEF Traced
  <2>4. payload'[t] \in Settled(t)' \cup {None}
    BY <2>1, <2>2, <2>3 DEF Traced
  <2>5. rows'[t] \in Made(t)' \cup {"pending", None}
    BY <2>1, <2>2 DEF Traced
  <2>6. decisions[t] = "approve" => "approve" \in Handled(t)
    BY <2>1, <2>2 DEF Traced, Decision
  <2>7. t \in todo' \cup executed' => "approve" \in Handled(t)'
    BY <2>1, <2>2, <2>6 DEF Traced
  <2> QED BY <2>3, <2>4, <2>5, <2>7 DEF Traced
<1>3. ASSUME NEW a \in Submitter PROVE HandledOnce(a)'
  <2>1. HandledOnce(a)
    BY DEF UpdateInv
  <2>2. CASE updates[a] = None
    BY <1>1, <2>1, <2>2 DEF HandledOnce
  <2>3. CASE updates[a] # None
    <3>1. sub[a].attempt = a /\ a # None
      BY <2>1, <2>3 DEF HandledOnce
    <3>2. sub'[a].attempt = a /\ sub'[a].map = sub[a].map
      BY <3>1 DEF AttemptsKept
    <3>3. DOMAIN sub[a].map \subseteq Tool
      BY SubFacts, MapType
    <3> QED BY <1>1, <2>1, <2>3, <3>2, <3>3 DEF HandledOnce
  <2> QED BY <2>2, <2>3
<1> QED BY <1>1, <1>2, <1>3 DEF UpdateInv

\* Steps of the workflow: the next round begins only when the last one is in
\* the database, and a row that is asked for again has its decision in memory.
LEMMA WorkflowUpdate ==
  ASSUME RequestInv, RoundInv, UpdateInv, AttemptsKept, CancelKept,
         Workflow \/ RecordRetried \/ ReconcileFails \/ FinalizeFails
  PROVE  UpdateInv'
<1> USE ApprovalConstants
<1>1. sub' = sub /\ UNCHANGED updateVars /\ stop' = stop /\ cancel' = cancel
  BY DEF Workflow, TurnEnds, RequestApprovals, RecordRequest, StartTool, Resume,
         ApplyDecisions, ToolReturns, CancelTools, ReconcileResults, FinalizeTurn,
         RecordRetried, ReconcileFails, FinalizeFails, subVars, userVars, stopVars
<1>2. \A s \in Submitter : sub'[s].pc \in {"apply", "accepted"} =>
           /\ updates[sub[s].attempt] # None /\ sub'[s].attempt = sub[s].attempt
  BY <1>1 DEF UpdateInv
<1> DEFINE Carries(t) ==
             /\ Kept(t) => Kept(t)'
             /\ decisions'[t] \in {decisions[t], None} \cup Settled(t)'
             /\ payload'[t] \in {payload[t], decisions'[t], None}
             /\ rows'[t] \in {rows[t], payload[t], "pending"}
             /\ t \in todo' \cup executed' =>
                  t \in todo \cup executed \/ decisions[t] = "approve"
<1>3. SUFFICES ASSUME NEW t \in Tool PROVE Carries(t)
  BY <1>1, <1>2, UpdateInvKept
<1>4. ASSUME NEW C \in SUBSET Tool, RequestApprovals(C) PROVE Carries(t)
  <2>1. decisions'[t] = None
    BY <1>4, NoDecisionType DEF RequestApprovals, Prepare
  <2>2. UNCHANGED <<rows, payload, todo, executed>> /\ wpc = "executing"
    BY <1>4 DEF RequestApprovals, dbVars
  <2>3. t \in expected => rows[t] \in Decision
    BY <2>2 DEF RoundInv, RowsFit, StopFits, RoundOpen
  <2> QED BY <2>1, <2>2, <2>3 DEF Kept
<1>5. ASSUME NEW u \in Tool, RecordRequest(u) PROVE Carries(t)
  <2>1. UNCHANGED <<decisions, expected, payload, todo, executed>>
    BY <1>5 DEF RecordRequest
  <2>2. /\ rows'[t] = IF t = u THEN "pending" ELSE rows[t]
        /\ t = u /\ rows[t] \in Decision => t \in expected /\ decisions[t] # None
    BY <1>5 DEF RecordRequest, RoundInv, RowsFit, WorkflowType
  <2> QED BY <2>1, <2>2 DEF Kept
<1>6. CASE Resume
  <2>1. \/ decisions'[t] = decisions[t]
        \/ t \in expected /\ decisions'[t] = "deny" /\ CancelRequested
    BY <1>6 DEF Resume, DenyAll
  <2>2. UNCHANGED <<rows, todo, executed, expected>> /\ payload' = decisions'
    BY <1>6 DEF Resume, dbVars
  <2>3. CancelRequested => "deny" \in Settled(t)'
    BY <1>1 DEF Settled, CancelRequested
  <2>4. Kept(t) => Kept(t)'
    BY <2>1, <2>2 DEF Kept, Decision
  <2> QED BY <2>1, <2>2, <2>3, <2>4
<1>7. CASE ApplyDecisions
  <2>1. rows'[t] = IF payload[t] # None THEN payload[t] ELSE rows[t]
    BY <1>7, MergeFacts DEF ApplyDecisions, RoundInv, WorkflowType
  <2>2. payload[t] # None => payload[t] \in Decision
    BY DEF RoundInv, WorkflowType
  <2>3. UNCHANGED <<decisions, executed, expected>> /\ (todo' = Approved \/ todo' = todo)
    BY <1>7 DEF ApplyDecisions
  <2>4. payload'[t] = None
    BY <1>7, NoDecisionType DEF ApplyDecisions
  <2> QED BY <2>1, <2>2, <2>3, <2>4 DEF Kept, Approved, IsApproval
<1>8. ASSUME NEW u \in Tool, StartTool(u) PROVE Carries(t)
  BY <1>8 DEF StartTool, Kept, dbVars
<1>9. CASE CancelTools
  BY <1>9 DEF CancelTools, Kept, dbVars
<1>10. CASE \/ TurnEnds \/ ToolReturns \/ ReconcileResults \/ FinalizeTurn
            \/ RecordRetried \/ ReconcileFails \/ FinalizeFails
  BY <1>10 DEF TurnEnds, ToolReturns, ReconcileResults, FinalizeTurn, RecordRetried,
               ReconcileFails, FinalizeFails, Kept, dbVars
<1> QED BY <1>4, <1>5, <1>6, <1>7, <1>8, <1>9, <1>10 DEF Workflow

\* A run that is stopped decides nothing, and what outlives it writes decisions
\* that the workflow had captured.
LEMMA StoppingUpdate ==
  ASSUME RequestInv, RoundInv, UpdateInv, AttemptsKept, CancelKept, Stopping
  PROVE  UpdateInv'
<1> USE ApprovalConstants
<1>1. sub' = sub /\ UNCHANGED updateVars /\ UNCHANGED <<decisions, expected, executed>>
  BY DEF Stopping, CancelRun, TerminateRun, GiveUp, OrphanRecord, OrphanApply, OrphanFinalize,
         subVars, wfVars
<1>2. \A s \in Submitter : sub'[s].pc \in {"apply", "accepted"} =>
           /\ updates[sub[s].attempt] # None /\ sub'[s].attempt = sub[s].attempt
  BY <1>1 DEF UpdateInv
<1>3. todo' = todo \/ todo' = {}
  BY DEF Stopping, CancelRun, TerminateRun, GiveUp, OrphanRecord, OrphanApply, OrphanFinalize,
         wfVars
<1>4. /\ stop = "cut" => stop' = "cut"
      /\ \A t \in Tool : payload'[t] \in {payload[t], decisions'[t], None}
      /\ \A t \in Tool : rows'[t] \in {rows[t], payload[t], "pending"}
      /\ stop' # "cut" => rows' = rows
  <2>1. CASE CancelRun \/ TerminateRun
    BY <2>1 DEF CancelRun, TerminateRun, GiveUp, wfVars, dbVars
  <2>2. ASSUME NEW u \in Tool, OrphanRecord(u)
        PROVE  stop = "cut" /\ stop' = stop /\ payload' = payload
               /\ \A t \in Tool : rows'[t] \in {rows[t], "pending"}
    BY <2>2 DEF OrphanRecord, RoundInv, StopFits, WorkflowType, userVars, stopVars
  <2>3. CASE OrphanApply
    <3>1. stop = "cut" /\ stop' = stop
      BY <2>3 DEF OrphanApply, RoundInv, StopFits
    <3>2. \A t \in Tool : rows'[t] \in {rows[t], payload[t]} /\ payload'[t] = None
      BY <2>3, MergeFacts, NoDecisionType DEF OrphanApply
    <3> QED BY <3>1, <3>2
  <2>4. CASE OrphanFinalize
    BY <2>4 DEF OrphanFinalize, wfVars
  <2> QED BY <2>1, <2>2, <2>3, <2>4 DEF Stopping
<1>5. stop' # "cut" => \A t \in Tool : Kept(t) => Kept(t)'
  BY <1>1, <1>4 DEF Kept
<1> QED BY <1>1, <1>2, <1>3, <1>4, <1>5, UpdateInvKept

\* A new result: the update was handled, so its decisions are those of the
\* round, and its approvals can be traced to it.
LEMMA SetApprovalsUpdate ==
  ASSUME RequestInv, RoundInv, UpdateInv, AttemptsKept, CancelKept, NEW s \in Submitter,
         sub[s].attempt # None, updates[sub[s].attempt] = None,
         SetApprovals(sub[s]), Valid(sub[s]),
         UNCHANGED <<expected, payload, todo, executed, rows, stopVars>>,
         \A r \in Submitter \ {s} : sub'[r].pc = sub[r].pc
  PROVE  UpdateInv'
<1> USE ApprovalConstants
<1> DEFINE q == sub[s]
           b == q.attempt
<1>1. /\ \A a \in Submitter : a # b => updates'[a] = updates[a]
      /\ updates'[b] # None
      /\ given' = [given EXCEPT ![b] = q.map]
      /\ \A t \in Tool : decisions'[t] = IF t \in DOMAIN q.map THEN q.map[t] ELSE decisions[t]
      /\ DOMAIN q.map \subseteq Tool
      /\ \A t \in DOMAIN q.map : q.map[t] \in Decision
  BY SetApprovalsFacts DEF RoundInv
<1>2. b \in Submitter /\ sub[b].attempt = b /\ DOMAIN sub[b].map = DOMAIN q.map
  BY SubFacts DEF Fits, SameAttempt, Key
<1>3. \A a \in Submitter : given'[a] = IF a = b THEN q.map ELSE given[a]
  BY <1>1, <1>2 DEF RoundInv, WorkflowType
<1>4. UpdatesKept
  BY <1>1, <1>3 DEF UpdatesKept
<1>5. ASSUME NEW t \in Tool PROVE Traced(t)'
  <2>1. /\ Handled(t) \subseteq Handled(t)' /\ Settled(t) \subseteq Settled(t)'
        /\ Made(t) \subseteq Made(t)' /\ Traced(t)
    BY <1>4, MadeStable DEF UpdateInv
  <2>2. t \in DOMAIN q.map => q.map[t] \in Handled(t)'
    BY <1>2, <1>3 DEF Handled
  <2>3. t \in DOMAIN q.map => q.map[t] \in Settled(t)'
    BY <2>2 DEF Settled
  <2>4. decisions'[t] \in Settled(t)' \cup {None}
    BY <1>1, <2>1, <2>3 DEF Traced
  <2> QED BY <2>1, <2>4 DEF Traced
<1>6. \A t \in Tool : Kept(t) => Kept(t)'
  BY <1>1 DEF Kept
<1>7. \A t \in DOMAIN q.map : Kept(t)'
  BY <1>1 DEF Kept, Valid
<1>8. ASSUME NEW a \in Submitter PROVE HandledOnce(a)'
  <2>1. HandledOnce(a) /\ stop' = stop
    BY DEF UpdateInv, stopVars
  <2>2. CASE a = b
    <3>1. sub'[b].attempt = b /\ sub'[b].map = sub[b].map
      BY <1>2 DEF AttemptsKept
    <3> QED BY <1>1, <1>2, <1>3, <1>7, <2>2, <3>1 DEF HandledOnce
  <2>3. CASE a # b /\ updates[a] = None
    BY <1>1, <1>3, <2>1, <2>3 DEF HandledOnce
  <2>4. CASE a # b /\ updates[a] # None
    <3>1. sub[a].attempt = a /\ a # None
      BY <2>1, <2>4 DEF HandledOnce
    <3>2. sub'[a].attempt = a /\ sub'[a].map = sub[a].map
      BY <3>1 DEF AttemptsKept
    <3>3. DOMAIN sub[a].map \subseteq Tool
      BY SubFacts, MapType
    <3> QED BY <1>1, <1>3, <1>6, <2>1, <2>4, <3>2, <3>3 DEF HandledOnce
  <2> QED BY <2>2, <2>3, <2>4
<1>9. ASSUME NEW r \in Submitter, sub'[r].pc \in {"apply", "accepted"}
      PROVE  updates'[sub'[r].attempt] # None
  <2>1. CASE r = s
    <3>1. sub'[s].attempt = b
      BY DEF AttemptsKept
    <3> QED BY <1>1, <2>1, <3>1
  <2>2. CASE r # s
    <3>1. sub[r].pc \in {"apply", "accepted"} /\ updates[sub[r].attempt] # None
      BY <1>9, <2>2 DEF UpdateInv
    <3>2. sub[r].attempt \in Submitter
      BY <3>1, SubFacts DEF Fits, Shape
    <3> QED BY <1>4, <3>1, <3>2 DEF UpdatesKept, AttemptsKept
  <2> QED BY <2>1, <2>2
<1> QED BY <1>5, <1>8, <1>9 DEF UpdateInv

\* Where a request is after it moved on.
LEMMA PlaceFacts ==
  ASSUME RequestInv, NEW s \in Submitter
  PROVE  /\ \A n, p : "pc" \in DOMAIN n /\ Goto(s, n, p) => sub'[s].pc = p
         /\ \A p : Drop(s, p) => sub'[s].pc = p
         /\ "pc" \in DOMAIN sub[s]
<1>1. sub \in [Submitter -> SubRecord]
  BY DEF RequestInv
<1>2. ASSUME NEW n, NEW p, "pc" \in DOMAIN n, Goto(s, n, p) PROVE sub'[s].pc = p
  BY <1>1, <1>2 DEF Goto
<1>3. ASSUME NEW p, Drop(s, p) PROVE sub'[s].pc = p
  BY <1>1, <1>3 DEF Drop, IdleSub
<1>4. "pc" \in DOMAIN sub[s]
  BY <1>1 DEF SubRecord
<1> QED BY <1>2, <1>3, <1>4

\* Every step keeps what is known of handled updates.
LEMMA UpdateStep == RequestInv /\ RoundInv /\ UpdateInv /\ [Next]_vars => UpdateInv'
<1> USE ApprovalConstants
<1> SUFFICES ASSUME RequestInv, RoundInv, UpdateInv, [Next]_vars PROVE UpdateInv'
  OBVIOUS
<1>1. AttemptsKept /\ CancelKept
  BY AttemptsStep, CancelStep
<1>2. ASSUME UNCHANGED <<wfVars, rows, updateVars, stopVars>>,
             \A s \in Submitter : sub'[s].pc \in {"apply", "accepted"} =>
               \/ sub[s].pc \in {"apply", "accepted"}
               \/ updates[sub[s].attempt] # None /\ sub[s].attempt # None
      PROVE  UpdateInv'
  <2>1. \A t \in Tool : Kept(t) => Kept(t)'
    BY <1>2 DEF Kept, wfVars
  <2>2. \A s \in Submitter : sub[s].pc \in {"apply", "accepted"} =>
          sub[s].attempt # None /\ updates[sub[s].attempt] # None
    BY SubFacts DEF UpdateInv, Fits, Shape
  <2>3. \A s \in Submitter : sub'[s].pc \in {"apply", "accepted"} =>
          updates[sub[s].attempt] # None /\ sub'[s].attempt = sub[s].attempt
    BY <1>1, <1>2, <2>2 DEF AttemptsKept
  <2> QED BY <1>1, <1>2, <2>1, <2>3, UpdateInvKept DEF wfVars, stopVars
<1>4. ASSUME NEW s \in Submitter, Update(s) \/ UpdateLost(s) PROVE UpdateInv'
  <2>1. UNCHANGED <<wpc, expected, recorded, payload, todo, active, answered, executed,
                    asked, rows, stopVars>>
    BY <1>4 DEF Update, UpdateLost, dbVars, userVars
  <2>2. sub[s].attempt # None /\ sub[s].pc = "update"
    BY <1>4, SubFacts DEF Update, UpdateLost, Fits, Shape
  <2>3. PICK p : Goto(s, sub[s], p)
    BY <1>4 DEF Update, UpdateLost, Answer
  <2>4. \A r \in Submitter \ {s} : sub'[r].pc = sub[r].pc
    BY <2>3 DEF Goto, RequestInv
  <2>5. CASE SetApprovals(sub[s]) /\ Valid(sub[s]) /\ updates[sub[s].attempt] = None
    BY <1>1, <2>1, <2>2, <2>4, <2>5, SetApprovalsUpdate
  <2>6. CASE UNCHANGED <<decisions, updateVars>> /\ updates[sub[s].attempt] # None
    BY <1>2, <2>1, <2>2, <2>4, <2>6 DEF wfVars
  <2>7. CASE UNCHANGED <<decisions, updateVars>> /\ (Goto(s, sub[s], "failed") \/ Goto(s, sub[s], "rejected"))
    <3>1. sub'[s].pc \in {"failed", "rejected"}
      BY <2>7, SubFacts DEF Goto, RequestInv, SubRecord
    <3> QED BY <1>2, <2>1, <2>4, <2>7, <3>1 DEF wfVars
  <2> QED BY <1>4, <2>5, <2>6, <2>7 DEF Update, UpdateLost
<1>5. ASSUME NEW s \in Submitter, Apply(s) PROVE UpdateInv'
  <2>1. \A t \in Tool : rows[t] \in Decision => rows'[t] \in Decision
    BY <1>5, ApplyFacts DEF Decision
  <2>2. UNCHANGED <<wfVars, updateVars, stopVars>>
    BY <1>5 DEF Apply, userVars
  <2>3. \A t \in Tool : Kept(t) => Kept(t)'
    BY <2>1, <2>2 DEF Kept, wfVars
  <2>4. \A r \in Submitter \ {s} : sub'[r] = sub[r]
    BY <1>5 DEF Apply, Goto, RequestInv
  <2>5. \A r \in Submitter : sub[r].pc \in {"apply", "accepted"} =>
          sub[r].attempt # None /\ updates[sub[r].attempt] # None
    BY SubFacts DEF UpdateInv, Fits, Shape
  <2>6. \A r \in Submitter : sub'[r].pc \in {"apply", "accepted"} =>
          updates[sub[r].attempt] # None /\ sub'[r].attempt = sub[r].attempt
    BY <1>1, <1>5, <2>4, <2>5 DEF AttemptsKept, Apply
  <2>7. sub'[s].pc = "accepted" /\ sub'[s].map = sub[s].map
    BY <1>1, <1>5, PlaceFacts, SubFacts DEF Apply, AttemptsKept, Fits, Shape
  <2>8. \A t \in Tool : rows'[t] \in {rows[t]} \cup Made(t)'
    <3>1. \A t \in DOMAIN sub[s].map : sub[s].map[t] \in Made(t)'
      BY <2>7 DEF Made
    <3> QED BY <1>5, <3>1, ApplyFacts
  <2> QED BY <1>1, <2>2, <2>3, <2>6, <2>8, UpdateInvKept DEF wfVars, stopVars
<1>6. ASSUME NEW s \in Submitter, Validate(s) \/ Claim(s) \/ Install(s) \/ Reuse(s)
                                  \/ Rollback(s) \/ Unclaim(s)
      PROVE UpdateInv'
  <2>1. \A r \in Submitter \ {s} : sub'[r] = sub[r]
    BY <1>6 DEF Validate, Claim, Install, Reuse, Rollback, Unclaim, Goto, Drop, RequestInv
  <2>2. sub'[s].pc \in {"refused", "noop", "validated", "update", "claimed", "skipped", "lost", "unclaim"}
    BY <1>6, PlaceFacts DEF Validate, Claim, Install, Reuse, Rollback, Unclaim
  <2>3. UNCHANGED <<wfVars, rows, updateVars, stopVars>>
    BY <1>6 DEF Validate, Claim, Install, Reuse, Rollback, Unclaim, dbVars, userVars
  <2> QED BY <1>2, <2>1, <2>2, <2>3
<1>7. ASSUME NEW s \in Submitter, NEW m \in Submissions, ReadSession(s, m) PROVE UpdateInv'
  <2>1. \A r \in Submitter \ {s} : sub'[r] = sub[r]
    BY <1>7 DEF ReadSession, Goto, Drop, RequestInv
  <2>2. sub'[s].pc \in {"refused", "read"}
    BY <1>7, PlaceFacts DEF ReadSession
  <2>3. UNCHANGED <<wfVars, rows, updateVars, stopVars>>
    BY <1>7 DEF ReadSession, dbVars, userVars
  <2> QED BY <1>2, <2>1, <2>2, <2>3
<1>8. CASE SendCancel \/ DeliverCancel \/ ValidateTurn \/ StartTurn \/ \E k \in dedup : ExpireClaim(k)
  BY <1>2, <1>8 DEF SendCancel, DeliverCancel, ValidateTurn, StartTurn, ExpireClaim,
                    subVars, dbVars, userVars
<1>9. CASE UNCHANGED vars
  BY <1>2, <1>9 DEF vars, dbVars, subVars, userVars
<1> QED BY <1>1, <1>4, <1>5, <1>6, <1>7, <1>8, <1>9, WorkflowUpdate, StoppingUpdate
        DEF Next, Submission

-----------------------------------------------------------------------------
(* The theorems.                                                           *)

\* The three parts hold at first ...
LEMMA InitInv == Init => IInv
<1> USE ApprovalConstants
<1> SUFFICES ASSUME Init PROVE IInv
  OBVIOUS
<1>1. \A s \in Submitter : sub[s] = IdleSub
  BY DEF Init
<1>2. /\ IdleSub.pc = "idle" /\ IdleSub.attempt = None /\ IdleSub.claimed = FALSE
      /\ IdleSub.seen = None
  BY DEF IdleSub
<1>3. Fits(sub, IdleSub)
  BY <1>2 DEF Fits, Shape, Installed
<1>4. sub \in [Submitter -> SubRecord]
  BY IdleSubType DEF Init
<1>5. RequestInv
  BY <1>1, <1>3, <1>4 DEF RequestInv, Init, Stream, Installed
<1>6. RoundInv
  <2>1. <<>> \in Maps
    BY IdleSubType DEF IdleSub, SubRecord
  <2> QED BY <2>1, NoDecisionType
          DEF Init, RoundInv, WorkflowType, StopFits, ResultsFit, RowsFit, RoundOpen
<1>7. UpdateInv
  <2>1. \A t \in Tool : decisions[t] = None /\ payload[t] = None /\ rows[t] = None
    BY NoDecisionType DEF Init
  <2>2. \A a \in Submitter : updates[a] = None /\ sub[a].pc = "idle" /\ DOMAIN given[a] = {}
    BY <1>1, <1>2 DEF Init
  <2> QED BY <2>1, <2>2 DEF Init, UpdateInv, Traced, HandledOnce
<1> QED BY <1>5, <1>6, <1>7 DEF IInv

\* IInv is inductive.
LEMMA InvStep == IInv /\ [Next]_vars => IInv'
  BY RequestStep, RoundStep, UpdateStep DEF IInv

\* ... and throughout.
LEMMA Invariant == Spec => []IInv
  BY InitInv, InvStep, PTL DEF Spec

\* Every variable of the workflow, the database, the requests and Temporal's
\* record keeps its type: in particular the two turn pointers are set and
\* cleared together, and every dedup key belongs to a request that claimed it.
THEOREM ApprovalTypes == Spec => []TypeOK
<1>1. IInv => TypeOK
  <2> SUFFICES ASSUME IInv PROVE TypeOK
    OBVIOUS
  <2>1. /\ WorkflowType
        /\ cancel \in {"none", "sent", "requested"} /\ currRun \in {Run, Newer, None}
        /\ activeStream \in Stream \cup {None} /\ (activeStream = None <=> currRun = None)
        /\ turn \in {"none", "validated", "started"} /\ faults \in 0..MaxFaults
    BY DEF IInv, RequestInv, RoundInv
  <2>2. \A s \in Submitter : sub[s].pc \in SubPC /\ Shape(sub[s])
                             /\ sub[s].attempt \in Submitter \cup {None}
    BY SubFacts DEF IInv, Fits
  <2>3. dedup \subseteq {Key(sub[s]) : s \in Submitter}
    BY DEF IInv, RequestInv
  <2>4. \A a \in Submitter : /\ DOMAIN given[a] \subseteq Tool
                            /\ \A t \in DOMAIN given[a] : given[a][t] \in Decision
    BY <2>1, MapType DEF WorkflowType
  <2> QED BY <2>1, <2>2, <2>3, <2>4 DEF TypeOK, WorkflowType, SubPC, Shape
<1> QED BY <1>1, Invariant, PTL

\* A tool is executed only after an update with its approval was handled,
\* whoever sent it, however often and whatever became of the answer.
THEOREM OnlyApprovedRun == Spec => []RunsOnlyApproved
<1>1. IInv => RunsOnlyApproved
  BY DEF IInv, UpdateInv, Traced, RoundInv, WorkflowType, RunsOnlyApproved
<1> QED BY <1>1, Invariant, PTL

\* When the tool phase of a round is over each of its calls has exactly one
\* result, wherever a cancel cut the phase short.
THEOREM OneResultPerCall == Spec => []AnsweredOnce
<1>1. IInv => AnsweredOnce
  BY ApprovalConstants DEF IInv, RoundInv, ResultsFit, AnsweredOnce
<1> QED BY <1>1, Invariant, PTL

\* A run that ends by itself or by request_cancel, at any moment, leaves no
\* approval pending; only one that Temporal stops in an open round does.
THEOREM NothingLeftPending == Spec => []NoOrphanPending
<1>1. IInv => NoOrphanPending
  BY ApprovalConstants DEF IInv, RoundInv, RowsFit, RoundOpen, NoOrphanPending, Pending, Decision,
         WorkflowType
<1> QED BY <1>1, Invariant, PTL

\* A decision that was reported as accepted stands in its row or in the open
\* round, or one does that another handled or accepted submission or the cancel
\* made on the same call: late rows, a retry that resets them, duplicates and
\* contradictions never leave it undecided or decided by nobody.
THEOREM AcceptedKept == Spec => []AcceptedIsRecorded
<1>1. ASSUME IInv PROVE AcceptedIsRecorded
  <2>1. SUFFICES ASSUME NEW s \in Submitter, sub[s].pc = "accepted", stop # "cut",
                        NEW t \in DOMAIN sub[s].map
                 PROVE  Outcome(t) \in Made(t)
    BY DEF AcceptedIsRecorded
  <2>2. /\ sub[s].attempt \in Submitter /\ updates[sub[s].attempt] # None
        /\ Key(sub[sub[s].attempt]) = Key(sub[s]) /\ t \in Tool
    BY <1>1, <2>1, SubFacts, MapType DEF IInv, UpdateInv, Fits, Shape, SameAttempt
  <2>3. DOMAIN sub[sub[s].attempt].map = DOMAIN sub[s].map
    BY <2>2 DEF Key
  <2>4. Kept(t) /\ Traced(t)
    BY <1>1, <2>1, <2>2, <2>3 DEF IInv, UpdateInv, HandledOnce
  <2>5. CASE rows[t] \in Decision
    BY <2>4, <2>5, ApprovalConstants DEF Outcome, Traced, Decision
  <2>6. CASE rows[t] \notin Decision
    <3>1. RoundOpen /\ t \in expected /\ decisions[t] # None
      BY <1>1, <2>1, <2>4, <2>6 DEF Kept, IInv, RoundInv, RowsFit
    <3>2. Outcome(t) = decisions[t]
      BY <2>6, <3>1 DEF Outcome
    <3> QED BY <2>4, <3>1, <3>2, SettledMade DEF Traced
  <2> QED BY <2>5, <2>6
<1> QED BY <1>1, Invariant, PTL

\* The pointers of a newer turn are moved by nobody but a submission that is
\* addressed to it.
LEMMA NewerStep ==
  ASSUME IInv, Next, currRun = Newer
  PROVE  /\ currRun' = Newer
         /\ activeStream' # activeStream =>
              \E s \in Submitter : sub[s].run = Newer /\ sub'[s] # sub[s]
<1> USE ApprovalConstants
<1>1. turn = "started"
  BY DEF IInv, RequestInv
<1>2. ASSUME NEW s \in Submitter, Install(s) \/ Rollback(s)
      PROVE  /\ currRun' = Newer
             /\ activeStream' # activeStream => sub[s].run = Newer /\ sub'[s] # sub[s]
  <2>1. sub'[s].pc \in {"lost", "update", "unclaim"}
    BY <1>2, PlaceFacts DEF IInv, Install, Rollback
  <2>2. sub[s].pc \in {"claimed", "rejected"}
    BY <1>2 DEF Install, Rollback
  <2> QED BY <1>2, <2>1, <2>2 DEF Install, Rollback
<1>3. ASSUME NEW s \in Submitter, Validate(s) \/ Claim(s) \/ Reuse(s) \/ Update(s) \/ UpdateLost(s)
                                  \/ Unclaim(s) \/ Apply(s)
      PROVE  UNCHANGED <<currRun, activeStream>>
  BY <1>3 DEF Validate, Claim, Reuse, Update, UpdateLost, Unclaim, Apply, dbVars
<1>4. ASSUME NEW s \in Submitter, NEW m \in Submissions, ReadSession(s, m)
      PROVE  UNCHANGED <<currRun, activeStream>>
  BY <1>4 DEF ReadSession, dbVars
<1>5. CASE Workflow \/ RecordRetried \/ ReconcileFails \/ FinalizeFails
  BY <1>5 DEF Workflow, TurnEnds, RequestApprovals, RecordRequest, StartTool, Resume,
         ApplyDecisions, ToolReturns, CancelTools, ReconcileResults, FinalizeTurn,
         RecordRetried, ReconcileFails, FinalizeFails, ClearTurnPointers, dbVars
<1>6. CASE SendCancel \/ DeliverCancel \/ ValidateTurn \/ StartTurn \/ \E k \in dedup : ExpireClaim(k)
  BY <1>1, <1>6 DEF SendCancel, DeliverCancel, ValidateTurn, StartTurn, ExpireClaim, dbVars
<1>7. CASE Stopping
  BY <1>7 DEF Stopping, CancelRun, TerminateRun, GiveUp, OrphanRecord, OrphanApply,
         OrphanFinalize, ClearTurnPointers, dbVars
<1> QED BY <1>2, <1>3, <1>4, <1>5, <1>6, <1>7 DEF Next, Submission

\* Once a newer turn owns the session, neither the end of the old run, a
\* finalisation that outlives it nor a submission addressed to it moves them.
THEOREM NewerKept == Spec => NewerTurnKept
<1>1. IInv /\ [Next]_vars =>
        [currRun = Newer =>
           /\ currRun' = Newer
           /\ activeStream' # activeStream =>
                \E s \in Submitter : sub[s].run = Newer /\ sub'[s] # sub[s]]_vars
  BY NewerStep
<1> QED BY <1>1, Invariant, PTL DEF Spec, NewerTurnKept
=============================================================================

------------------------- MODULE DurationSyncProofs -------------------------
(***************************************************************************)
(* Theorems about DurationSync, for any number of cases, consumers, copies *)
(* of a job, attempts, changes and faults.                                 *)
(***************************************************************************)
EXTENDS DurationSync, FiniteSetTheorems, WellFoundedInduction, TLAPS

-----------------------------------------------------------------------------
(* The inductive invariant: shapes.                                        *)

ConPC == {"idle", "rollout", "mark", "page", "sync", "computed", "requeue", "ack"}

ConRecord ==
  [pc : ConPC, batch : SUBSET Entry, job : Job \cup {None}, acks : SUBSET Entry,
   types : SUBSET (EventType \cup {None}), out : SUBSET Job, tries : 0..SyncAttempts - 1, read : Nat]

TaskPC == {"none", "publish", "inline", "computed", "over"}
Open == {"publish", "inline", "computed"}

TaskRecord ==
  [pc : TaskPC, job : Job \cup {None}, todo : SUBSET Case, missed : BOOLEAN,
   tries : 0..InlineAttempts - 1, read : Nat]

\* What a change is published as, and what a page is read for.
ChangeJob == {Event(c, ty) : c \in Case, ty \in EventType} \cup {Definition}
PageJob == {Cursor(c) : c \in Case} \cup {Definition}

\* The entries a consumer will acknowledge belong to the work it does.
CaseFits(r) ==
  /\ r.pc # "page" /\ r.types = TypesOf(r.acks)
  /\ \E c \in Case :
       /\ r.job = CaseJob(c)
       /\ \A e \in r.acks : e.job.case = c /\ e.job.kind \in {"case", "event"}

PageFits(r) ==
  /\ r.pc \in {"page", "requeue"} /\ r.job \in PageJob
  /\ \A e \in r.acks : e.job = r.job

\* A worker that computed a case holds its lock.  L are the locks, V the
\* versions.
ConFits(L, V, w, r) ==
  /\ r.pc \in {"page", "sync", "computed", "requeue"} => CaseFits(r) \/ PageFits(r)
  /\ r.pc = "computed" => L[r.job.case] = w /\ r.read <= V[r.job.case]

Scope(j) == IF j = Definition THEN Case ELSE {j.case}

TaskFits(L, V, i, t) ==
  /\ t.pc \in Open => t.job \in ChangeJob /\ t.todo # {} /\ t.todo \subseteq Scope(t.job)
  /\ t.pc = "publish" => t.todo = Scope(t.job)
  /\ t.pc = "computed" => L[Min(t.todo)] = i /\ t.read <= V[Min(t.todo)]

TypeInv ==
  /\ version \in [Case -> Nat] /\ synced \in [Case -> Nat]
  /\ \A c \in Case : synced[c] <= version[c]
  /\ defs \in Definitions
  /\ lock \in [Case -> Worker \cup {None}]
  /\ new \subseteq Entry /\ pending \subseteq Entry /\ new \cap pending = {}
  /\ marker \in {None, "pending", "done"}
  /\ con \in [Consumer -> ConRecord]
  /\ \A w \in Consumer : ConFits(lock, version, w, con[w])
  /\ task \in [Task -> TaskRecord]
  /\ \A i \in Task : TaskFits(lock, version, i, task[i])
  /\ changes \in 0..MaxEvents /\ faults \in 0..MaxEvents
  /\ \A i \in Task : i > changes => task[i].pc = "none"
  /\ lost \subseteq Case

-----------------------------------------------------------------------------
(* The inductive invariant: who looks after a case.                        *)

\* The entries that a consumer is about to acknowledge do not count for case c
\* any more once the work for c is done: all of it, or its share of the page.
Spends(r, c) ==
  r.pc = "ack" \/ (r.pc = "page" /\ \A j \in r.out : ~ Covers(j, c))

\* A callback counts for a case that it has still to sync, and for every case
\* when it will have to try again.
Counts(t, c) == t.pc \in Open /\ Covers(t.job, c) /\ (t.missed \/ c \in t.todo)

\* Somebody looks after case c, not counting the entries of A and, unless it
\* will try again, the callback k.  S are the entries of the stream, K the
\* consumers, T the callbacks, G the cases given up.
Kept(S, K, T, G, c, A, k) ==
  \/ c \in G
  \/ \E e \in S \ A : /\ Covers(e.job, c)
                      /\ \A w \in Consumer : ~ (e \in K[w].acks /\ Spends(K[w], c))
  \/ \E i \in Task : Counts(T[i], c) /\ (i = k => T[i].missed)

Stream == new \cup pending

\* The rollout has not been published.
Unrolled == marker # "done" /\ \A w \in Consumer : con[w].pc # "mark"

KeptInv ==
  /\ \A c \in Case : \/ synced[c] = version[c] \/ Unrolled
                     \/ Kept(Stream, con, task, lost, c, {}, None)
  /\ \A w \in Consumer, c \in Case : con[w].pc = "computed" /\ con[w].job.case = c =>
       \/ con[w].read = version[c]
       \/ Kept(Stream, con, task, lost, c, con[w].acks, None)
  /\ \A i \in Task, c \in Case : task[i].pc = "computed" /\ c = Min(task[i].todo) =>
       \/ task[i].read = version[c]
       \/ Kept(Stream, con, task, lost, c, {}, i)

-----------------------------------------------------------------------------
(* Operators of the model.                                                 *)

Less == {p \in Nat \X Nat : p[1] < p[2]}

\* The order of the naturals is well founded.
LEMMA LessWellFounded == IsWellFoundedOn(Less, Nat)
<1>1. OpToRel(<, Nat) = Less
  BY Zenon DEF OpToRel, Less
<1> QED BY <1>1, NatLessThanWellFounded, Zenon

\* A nonempty set of numbers has a least element.
LEMMA MinFacts ==
  ASSUME NEW B \in SUBSET Nat, B # {}
  PROVE  Min(B) \in B
<1>1. \A x, y \in Nat : <<x, y>> \in Less <=> x < y
  BY DEF Less
<1>2. PICK x \in B : \A y \in B : ~ (<<y, x>> \in Less)
  BY LessWellFounded, WFMin
<1>3. ASSUME NEW y \in B PROVE x <= y
  <2>1. x \in Nat /\ y \in Nat
    OBVIOUS
  <2>2. ~ (<<y, x>> \in Less)
    BY <1>2
  <2>3. ~ (y < x)
    BY <1>1, <2>1, <2>2
  <2> QED BY <2>1, <2>3
<1> QED BY <1>3 DEF Min

\* Cases are numbers, and no worker is taken for another one or for nobody.
LEMMA CaseFacts ==
  /\ Case \subseteq Nat \ {0} /\ Case # {} /\ 0 \notin Case
  /\ Consumer \cap Task = {} /\ None \notin Worker /\ None \notin EventType
  BY SyncConstants DEF Case, Task, Worker

\* Jobs and their fields.
LEMMA JobFacts ==
  /\ \A c \in Case : /\ CaseJob(c) \in Job /\ Cursor(c) \in Job /\ Cursor(c) \in PageJob
                     /\ CaseJob(c).kind = "case" /\ CaseJob(c).case = c
                     /\ Cursor(c).kind = "cursor" /\ Cursor(c).case = c
  /\ \A c \in Case, ty \in EventType :
       /\ Event(c, ty) \in Job /\ Event(c, ty) \in ChangeJob
       /\ Event(c, ty).kind = "event" /\ Event(c, ty).case = c /\ Event(c, ty).type = ty
  /\ Definition \in Job /\ Definition \in PageJob /\ Definition \in ChangeJob
  /\ Definition.kind = "definition" /\ Definition.case = 0
<1>1. \A c \in Case : /\ CaseJob(c) \in Job /\ Cursor(c) \in Job /\ Cursor(c) \in PageJob
  BY DEF Job, PageJob
<1>2. \A c \in Case, ty \in EventType : Event(c, ty) \in Job /\ Event(c, ty) \in ChangeJob
  BY DEF Job, ChangeJob
<1>3. Definition \in Job /\ Definition \in PageJob /\ Definition \in ChangeJob
  BY DEF Job, PageJob, ChangeJob
<1>4. /\ \A c \in Case : /\ CaseJob(c).kind = "case" /\ CaseJob(c).case = c
                         /\ Cursor(c).kind = "cursor" /\ Cursor(c).case = c
      /\ \A c \in Case, ty \in EventType :
           Event(c, ty).kind = "event" /\ Event(c, ty).case = c /\ Event(c, ty).type = ty
      /\ Definition.kind = "definition" /\ Definition.case = 0
  BY DEF CaseJob, Cursor, Event, Definition
<1> QED BY <1>1, <1>2, <1>3, <1>4

\* A job is of one of four kinds.
LEMMA JobKinds ==
  ASSUME NEW j \in Job
  PROVE  /\ j.kind \in {"event", "case", "cursor", "definition"}
         /\ j.kind = "event" => j.case \in Case /\ j.type \in EventType
         /\ j.kind = "case" => j.case \in Case /\ j = CaseJob(j.case)
         /\ j.kind = "cursor" => j.case \in Case /\ j = Cursor(j.case)
         /\ j.kind = "definition" => j = Definition
         /\ j.case \in Nat /\ j.type \in EventType \cup {None}
<1>1. CASE j \in {Event(c, ty) : c \in Case, ty \in EventType}
  BY <1>1, CaseFacts DEF Event
<1>2. CASE j \in {CaseJob(c) : c \in Case}
  BY <1>2, CaseFacts DEF CaseJob
<1>3. CASE j \in {Cursor(c) : c \in Case}
  BY <1>3, CaseFacts DEF Cursor
<1>4. CASE j = Definition
  BY <1>4 DEF Definition
<1> QED BY <1>1, <1>2, <1>3, <1>4 DEF Job

\* The jobs of a page look after every later case.
LEMMA PageFacts ==
  ASSUME NEW k \in Case \cup {0}
  PROVE  /\ PageJobs(k) \subseteq Job
         /\ \A c \in Case : c > k => \E j \in PageJobs(k) : Covers(j, c)
<1> DEFINE P == {c \in Case : c > k /\ c <= k + BackfillBatch}
<1>1. k \in Nat /\ BackfillBatch \in Nat \ {0} /\ NCases \in Nat
  BY CaseFacts, SyncConstants
<1>2. PageJobs(k) = {CaseJob(c) : c \in P} \cup
                      (IF Cardinality(P) = BackfillBatch THEN {Cursor(Max(P))} ELSE {})
  BY DEF PageJobs
<1>3. \A c \in P : CaseJob(c) \in PageJobs(k) /\ CaseJob(c) \in Job /\ Covers(CaseJob(c), c)
  BY <1>2, JobFacts DEF Covers
<1>4. CASE k + BackfillBatch <= NCases
  <2>1. P = (k + 1)..(k + BackfillBatch)
    BY <1>1, <1>4 DEF Case
  <2>2. Cardinality(P) = BackfillBatch
    <3>1. Cardinality((k + 1)..(k + BackfillBatch)) = (k + BackfillBatch) - (k + 1) + 1
      BY <1>1, FS_Interval
    <3> HIDE DEF P
    <3>2. Cardinality(P) = (k + BackfillBatch) - (k + 1) + 1
      BY <2>1, <3>1
    <3> QED BY <1>1, <3>2
  <2>3. Max(P) = k + BackfillBatch
    <3>1. k + BackfillBatch \in P /\ \A y \in P : k + BackfillBatch >= y
      BY <1>1, <2>1
    <3>2. \A x \in P : (\A y \in P : x >= y) => x = k + BackfillBatch
      BY <1>1, <2>1, <3>1
    <3> HIDE DEF P
    <3> QED BY <3>1, <3>2 DEF Max
  <2>4. k + BackfillBatch \in Case
    BY <1>1, <1>4 DEF Case
  <2>5. PageJobs(k) = {CaseJob(c) : c \in P} \cup {Cursor(k + BackfillBatch)}
    BY <1>2, <2>2, <2>3
  <2>6. PageJobs(k) \subseteq Job
    BY <2>4, <2>5, JobFacts
  <2>7. ASSUME NEW c \in Case, c > k PROVE \E j \in PageJobs(k) : Covers(j, c)
    <3>1. CASE c <= k + BackfillBatch
      BY <1>3, <2>7, <3>1
    <3>2. CASE c > k + BackfillBatch
      <4>1. Covers(Cursor(k + BackfillBatch), c)
        BY <2>4, <3>2, JobFacts DEF Covers
      <4> QED BY <2>5, <4>1
    <3> QED BY <1>1, <3>1, <3>2 DEF Case
  <2> QED BY <2>6, <2>7
<1>5. CASE ~ (k + BackfillBatch <= NCases)
  <2>1. P = (k + 1)..NCases
    BY <1>1, <1>5 DEF Case
  <2>2. Cardinality(P) # BackfillBatch
    <3>1. Cardinality((k + 1)..NCases) = IF k + 1 > NCases THEN 0 ELSE NCases - (k + 1) + 1
      BY <1>1, FS_Interval
    <3> HIDE DEF P
    <3>2. Cardinality(P) = IF k + 1 > NCases THEN 0 ELSE NCases - (k + 1) + 1
      BY <2>1, <3>1
    <3> QED BY <1>1, <1>5, <3>2
  <2>3. PageJobs(k) = {CaseJob(c) : c \in P}
    BY <1>2, <2>2
  <2> QED BY <1>1, <1>3, <1>5, <2>3, JobFacts DEF Case
<1> QED BY <1>4, <1>5

\* A consumer that is back in its loop.
LEMMA IdleFacts ==
  /\ IdleConsumer \in ConRecord /\ IdleConsumer.pc = "idle" /\ IdleConsumer.acks = {}
  /\ IdleConsumer.batch = {}
  BY SyncConstants DEF IdleConsumer, ConRecord, ConPC

\* What a page is read for looks after the later cases only.
LEMMA PageCovers ==
  ASSUME NEW j \in PageJob
  PROVE  /\ j \in Job /\ j.kind # "case" /\ j.case \in Case \cup {0}
         /\ \A c \in Case : Covers(j, c) <=> c > j.case
<1>1. CASE j = Definition
  BY <1>1, JobFacts, CaseFacts DEF Covers
<1>2. CASE j \in {Cursor(c) : c \in Case}
  BY <1>2, JobFacts, CaseFacts DEF Covers
<1> QED BY <1>1, <1>2 DEF PageJob

\* A page is taken up with all that its entries ask for still to publish.
LEMMA PageWorkFacts ==
  ASSUME NEW B \in SUBSET Entry, NEW E \in SUBSET B, NEW j \in PageJob,
         \A e \in E : e.job = j
  PROVE  LET r == PageWork(B, E, j)
         IN  /\ r \in ConRecord /\ r.pc \in {"page", "ack"} /\ r.acks = E /\ r.batch = B \ E
             /\ r.pc = "page" => PageFits(r)
             /\ \A c \in Case : Spends(r, c) => \A e \in r.acks : ~ Covers(e.job, c)
<1> DEFINE r == PageWork(B, E, j)
           out == PageJobs(j.case)
<1>1. j \in Job /\ j.case \in Case \cup {0} /\ \A c \in Case : Covers(j, c) <=> c > j.case
  BY PageCovers
<1>2. out \subseteq Job /\ \A c \in Case : c > j.case => \E i \in out : Covers(i, c)
  BY <1>1, PageFacts
<1> HIDE DEF out
<1>3. r = [IdleConsumer EXCEPT !.pc = IF out = {} THEN "ack" ELSE "page", !.batch = B \ E,
                               !.acks = E, !.job = j, !.out = out]
  BY DEF PageWork, out
<1>4. /\ r \in ConRecord /\ r.pc = (IF out = {} THEN "ack" ELSE "page") /\ r.acks = E
      /\ r.batch = B \ E /\ r.job = j /\ r.out = out
  <2>1. r = [pc |-> IF out = {} THEN "ack" ELSE "page", batch |-> B \ E, job |-> j,
             acks |-> E, types |-> {}, out |-> out, tries |-> 0, read |-> 0]
    BY <1>3 DEF IdleConsumer
  <2>2. E \in SUBSET Entry /\ B \ E \in SUBSET Entry /\ 0 \in 0..SyncAttempts - 1
    BY SyncConstants
  <2> HIDE DEF r
  <2> QED BY <1>1, <1>2, <2>1, <2>2 DEF ConRecord, ConPC
<1> HIDE DEF r
<1>5. r.pc = "page" => PageFits(r)
  BY <1>4 DEF PageFits
<1>6. ASSUME NEW c \in Case, Spends(r, c), NEW e \in r.acks PROVE ~ Covers(e.job, c)
  BY <1>1, <1>2, <1>4, <1>6 DEF Spends
<1>9. /\ r \in ConRecord /\ r.pc \in {"page", "ack"} /\ r.acks = E /\ r.batch = B \ E
      /\ r.pc = "page" => PageFits(r)
      /\ \A c \in Case : Spends(r, c) => \A e \in r.acks : ~ Covers(e.job, c)
  BY <1>4, <1>5, <1>6
<1> QED BY <1>9 DEF r

\* The entries of one case are taken up together.
LEMMA CaseWorkFacts ==
  ASSUME NEW B \in SUBSET Entry, NEW E \in SUBSET B, NEW c \in Case,
         \A e \in E : e.job.case = c /\ e.job.kind \in {"case", "event"}
  PROVE  LET r == CaseWork(B, E, c)
         IN  /\ r \in ConRecord /\ r.pc = "sync" /\ r.acks = E /\ r.batch = B \ E
             /\ CaseFits(r)
<1> DEFINE r == CaseWork(B, E, c)
           T == TypesOf(E)
<1>1. T \in SUBSET (EventType \cup {None})
  <2>1. \A e \in E : e.job \in Job
    BY DEF Entry
  <2>2. \A e \in E : e.job.type \in EventType \cup {None}
    BY <2>1, JobKinds
  <2> QED BY <2>2 DEF TypesOf
<1> HIDE DEF T
<1>2. r = [IdleConsumer EXCEPT !.pc = "sync", !.batch = B \ E, !.acks = E,
                               !.job = CaseJob(c), !.types = T]
  BY DEF CaseWork, T
<1>3. CaseJob(c) \in Job
  BY JobFacts
<1>4. /\ r \in ConRecord /\ r.pc = "sync" /\ r.acks = E
      /\ r.batch = B \ E /\ r.job = CaseJob(c) /\ r.types = T
  <2>1. r = [pc |-> "sync", batch |-> B \ E, job |-> CaseJob(c), acks |-> E, types |-> T,
             out |-> {}, tries |-> 0, read |-> 0]
    BY <1>2 DEF IdleConsumer
  <2>2. E \in SUBSET Entry /\ B \ E \in SUBSET Entry /\ 0 \in 0..SyncAttempts - 1
    BY SyncConstants
  <2> HIDE DEF r
  <2> QED BY <1>1, <1>3, <2>1, <2>2 DEF ConRecord, ConPC
<1> HIDE DEF r
<1>5. CaseFits(r)
  BY <1>4 DEF CaseFits, T
<1>9. r \in ConRecord /\ r.pc = "sync" /\ r.acks = E /\ r.batch = B \ E /\ CaseFits(r)
  BY <1>4, <1>5
<1> QED BY <1>9 DEF r

\* What is known of the work that is taken up next.
Fresh(B, r) ==
  /\ r \in ConRecord /\ r.pc \in {"idle", "page", "ack", "sync", "requeue"}
  /\ r.acks \subseteq B /\ r.batch \subseteq B
  /\ r.pc \in {"page", "sync", "requeue"} => CaseFits(r) \/ PageFits(r)
  /\ \A c \in Case : Spends(r, c) => \A e \in r.acks : ~ Covers(e.job, c)

\* Whatever is left of a batch, no entry of it is spent when it is taken up.
LEMMA NextWorkFacts ==
  ASSUME NEW B \in SUBSET Entry
  PROVE  Fresh(B, NextWork(B))
<1> DEFINE Of(kind) == {e \in B : e.job.kind = kind}
           case == Min({e.job.case : e \in B})
<1>1. \A e \in B : e.job \in Job
  BY DEF Entry
<1>2. CASE B = {}
  <2>1. NextWork(B) = IdleConsumer
    BY <1>2 DEF NextWork
  <2>2. Fresh(B, IdleConsumer)
    BY IdleFacts DEF Fresh, Spends
  <2> QED BY <2>1, <2>2
<1>3. CASE B # {} /\ Of("cursor") # {}
  <2> DEFINE e == CHOOSE e \in Of("cursor") : TRUE
             r == PageWork(B, {e}, e.job)
  <2>1. NextWork(B) = r
    BY <1>3 DEF NextWork
  <2>2. e \in Of("cursor")
    BY <1>3
  <2> HIDE DEF e
  <2>3. e.job \in PageJob /\ {e} \subseteq B
    BY <1>1, <2>2, JobKinds DEF PageJob
  <2>4. /\ r \in ConRecord /\ r.pc \in {"page", "ack"} /\ r.acks = {e} /\ r.batch = B \ {e}
        /\ r.pc = "page" => PageFits(r)
        /\ \A c \in Case : Spends(r, c) => \A d \in r.acks : ~ Covers(d.job, c)
    BY <2>3, PageWorkFacts
  <2> HIDE DEF r
  <2> QED BY <2>1, <2>3, <2>4 DEF Fresh
<1>4. CASE B # {} /\ Of("cursor") = {} /\ Of("definition") # {}
  <2> DEFINE E == Of("definition")
             r == PageWork(B, E, Definition)
  <2>1. NextWork(B) = r
    BY <1>4 DEF NextWork
  <2>2. E \subseteq B /\ \A e \in E : e.job = Definition
    BY <1>1, JobKinds
  <2>3. Definition \in PageJob
    BY JobFacts
  <2> HIDE DEF E
  <2>4. /\ r \in ConRecord /\ r.pc \in {"page", "ack"} /\ r.acks = E /\ r.batch = B \ E
        /\ r.pc = "page" => PageFits(r)
        /\ \A c \in Case : Spends(r, c) => \A d \in r.acks : ~ Covers(d.job, c)
    BY <2>2, <2>3, PageWorkFacts
  <2> HIDE DEF r
  <2> QED BY <2>1, <2>2, <2>4 DEF Fresh
<1>5. CASE B # {} /\ Of("cursor") = {} /\ Of("definition") = {}
  <2> DEFINE E == {e \in B : e.job.case = case}
             r == CaseWork(B, E, case)
  <2>1. NextWork(B) = r
    BY <1>5 DEF NextWork
  <2>2. \A e \in B : e.job.kind \in {"case", "event"} /\ e.job.case \in Case
    BY <1>1, <1>5, JobKinds
  <2>3. case \in Case
    <3>1. {e.job.case : e \in B} \in SUBSET Nat /\ {e.job.case : e \in B} # {}
      BY <1>5, <2>2, CaseFacts
    <3>2. case \in {e.job.case : e \in B}
      BY <3>1, MinFacts
    <3> QED BY <2>2, <3>2
  <2> HIDE DEF case
  <2>4. E \subseteq B /\ \A e \in E : e.job.case = case /\ e.job.kind \in {"case", "event"}
    BY <2>2
  <2> HIDE DEF E
  <2>5. r \in ConRecord /\ r.pc = "sync" /\ r.acks = E /\ r.batch = B \ E /\ CaseFits(r)
    BY <2>3, <2>4, CaseWorkFacts
  <2> HIDE DEF r
  <2> QED BY <2>1, <2>4, <2>5 DEF Fresh, Spends
<1> QED BY <1>2, <1>3, <1>4, <1>5

\* A job is added to the stream as an entry that nobody knows.
LEMMA PublishFacts ==
  ASSUME TypeInv, NEW j \in Job, Publish(j)
  PROVE  \E e \in Entry : /\ e.job = j /\ e \notin Stream
                          /\ \A w \in Consumer : e \notin con[w].acks
                          /\ new' = new \cup {e} /\ pending' = pending
<1> DEFINE U == {f \in new \cup pending \cup InHand : f.job = j}
           used == {e.n : e \in U}
           n == Min((1..MaxCopies) \ used)
           e == [job |-> j, n |-> n]
<1>1. /\ used # 1..MaxCopies /\ new' = new \cup {e} /\ pending' = pending
  BY DEF Publish
<1>2. InHand \subseteq Entry /\ \A w \in Consumer : con[w].acks \subseteq InHand
  BY DEF InHand, TypeInv, ConRecord
<1>3. U \subseteq Entry
  BY <1>2 DEF TypeInv
<1>4. used \subseteq 1..MaxCopies
  BY <1>3 DEF Entry
<1> HIDE DEF used
<1>5. n \in (1..MaxCopies) \ used
  <2>1. 1..MaxCopies \in SUBSET Nat
    BY SyncConstants
  <2>2. (1..MaxCopies) \ used # {}
    BY <1>1, <1>4
  <2> QED BY <2>1, <2>2, MinFacts
<1> HIDE DEF n
<1>6. e \in Entry /\ e.job = j /\ e.n = n
  BY <1>5 DEF Entry
<1> HIDE DEF e
<1>7. e \notin U
  BY <1>5, <1>6 DEF used
<1>8. e \notin Stream /\ e \notin InHand
  BY <1>6, <1>7 DEF Stream
<1> QED BY <1>1, <1>2, <1>6, <1>8

\* The next attempt starts with the entries unspent.
LEMMA FailedFacts ==
  ASSUME TypeInv, NEW w \in Consumer, con[w].pc \in {"page", "sync", "computed"}
  PROVE  /\ Fresh(con[w].batch \cup con[w].acks, Failed(w))
         /\ Failed(w).acks = con[w].acks /\ Failed(w).pc \in {"requeue", "sync", "page"}
<1> DEFINE r == con[w]
           n == Failed(w)
<1>1. r \in ConRecord /\ (CaseFits(r) \/ PageFits(r)) /\ r.job \in Job
  <2>1. r \in ConRecord /\ ConFits(lock, version, w, r)
    BY DEF TypeInv
  <2>2. CaseFits(r) \/ PageFits(r)
    BY <2>1 DEF ConFits
  <2>3. CaseFits(r) => r.job \in Job
    BY JobFacts DEF CaseFits
  <2>4. PageFits(r) => r.job \in Job
    BY PageCovers DEF PageFits
  <2> QED BY <2>1, <2>2, <2>3, <2>4
<1>2. SUFFICES /\ n \in ConRecord /\ n.acks = r.acks /\ n.batch = r.batch
               /\ n.pc \in {"requeue", "sync", "page"} /\ (CaseFits(n) \/ PageFits(n))
               /\ \A c \in Case : Spends(n, c) => \A e \in n.acks : ~ Covers(e.job, c)
  <2> HIDE DEF n, r
  <2>1. Fresh(r.batch \cup r.acks, n) /\ n.acks = r.acks /\ n.pc \in {"requeue", "sync", "page"}
    BY <1>2 DEF Fresh
  <2> QED BY <2>1 DEF n, r
<1>3. CASE r.tries + 1 = SyncAttempts
  <2> DEFINE q == [r EXCEPT !.pc = "requeue"]
  <2>1. n = q
    BY <1>3 DEF Failed
  <2>2. /\ q \in ConRecord /\ q.acks = r.acks /\ q.batch = r.batch /\ q.pc = "requeue"
        /\ q.job = r.job /\ q.types = r.types
    BY <1>1 DEF ConRecord, ConPC
  <2> HIDE DEF q, r, n
  <2>3. CaseFits(q) \/ PageFits(q)
    BY <1>1, <2>2 DEF CaseFits, PageFits
  <2> QED BY <2>1, <2>2, <2>3 DEF Spends
<1>4. CASE r.tries + 1 # SyncAttempts /\ r.job.kind = "case"
  <2> DEFINE q == [r EXCEPT !.pc = "sync", !.tries = @ + 1, !.read = 0]
  <2>1. n = q
    BY <1>4 DEF Failed
  <2>2. r.tries + 1 \in 0..SyncAttempts - 1
    BY <1>1, <1>4, SyncConstants DEF ConRecord
  <2>3. /\ q \in ConRecord /\ q.acks = r.acks /\ q.batch = r.batch /\ q.pc = "sync"
        /\ q.job = r.job /\ q.types = r.types
    BY <1>1, <2>2 DEF ConRecord, ConPC
  <2>4. CaseFits(r)
    BY <1>1, <1>4, PageCovers DEF PageFits
  <2> HIDE DEF q, r, n
  <2>5. CaseFits(q)
    BY <2>3, <2>4 DEF CaseFits
  <2> QED BY <2>1, <2>3, <2>5 DEF Spends
<1>5. CASE r.tries + 1 # SyncAttempts /\ r.job.kind # "case"
  <2> DEFINE out == PageJobs(r.job.case)
             q == [r EXCEPT !.pc = "page", !.tries = @ + 1, !.out = out]
  <2>1. n = q
    BY <1>5 DEF Failed
  <2>2. r.tries + 1 \in 0..SyncAttempts - 1
    BY <1>1, <1>5, SyncConstants DEF ConRecord
  <2>3. PageFits(r)
    BY <1>1, <1>5, JobFacts DEF CaseFits
  <2>4. /\ r.job \in PageJob /\ r.job.case \in Case \cup {0}
        /\ \A c \in Case : Covers(r.job, c) <=> c > r.job.case
    BY <2>3, PageCovers DEF PageFits
  <2>5. out \subseteq Job /\ \A c \in Case : c > r.job.case => \E i \in out : Covers(i, c)
    BY <2>4, PageFacts
  <2> HIDE DEF out
  <2>6. /\ q \in ConRecord /\ q.acks = r.acks /\ q.batch = r.batch /\ q.pc = "page"
        /\ q.job = r.job /\ q.out = out
    BY <1>1, <2>2, <2>5 DEF ConRecord, ConPC
  <2> HIDE DEF q, r, n
  <2>7. PageFits(q)
    BY <2>3, <2>6 DEF PageFits
  <2>8. ASSUME NEW c \in Case, Spends(q, c), NEW e \in q.acks PROVE ~ Covers(e.job, c)
    <3>1. e.job = r.job
      BY <2>3, <2>6 DEF PageFits
    <3>2. \A i \in out : ~ Covers(i, c)
      BY <2>6, <2>8 DEF Spends
    <3> QED BY <2>4, <2>5, <3>1, <3>2
  <2> QED BY <2>1, <2>6, <2>7, <2>8
<1> QED BY <1>3, <1>4, <1>5

-----------------------------------------------------------------------------
(* Type correctness.                                                       *)

\* What a step leaves alone of the locks of worker v, and of the versions.
LockKept(v) == \A c \in Case : lock[c] = v => lock'[c] = v
VersionsGrow == \A c \in Case : version[c] <= version'[c]

\* A worker that does not step still fits.
LEMMA OthersFit ==
  ASSUME TypeInv, VersionsGrow, version' \in [Case -> Nat]
  PROVE  /\ \A v \in Consumer : LockKept(v) => ConFits(lock', version', v, con[v])
         /\ \A i \in Task : LockKept(i) => TaskFits(lock', version', i, task[i])
<1>1. ASSUME NEW v \in Consumer, LockKept(v) PROVE ConFits(lock', version', v, con[v])
  <2> DEFINE r == con[v]
  <2>1. r \in ConRecord /\ ConFits(lock, version, v, r)
    BY DEF TypeInv
  <2>2. ASSUME r.pc = "computed" PROVE lock'[r.job.case] = v /\ r.read <= version'[r.job.case]
    <3>1. CaseFits(r)
      BY <2>1, <2>2 DEF ConFits, PageFits
    <3>2. r.job.case \in Case
      BY <3>1, JobFacts DEF CaseFits
    <3>3. lock[r.job.case] = v /\ r.read <= version[r.job.case] /\ r.read \in Nat
      BY <2>1, <2>2 DEF ConFits, ConRecord
    <3> QED BY <1>1, <3>2, <3>3 DEF LockKept, VersionsGrow, TypeInv
  <2> HIDE DEF r
  <2>9. ConFits(lock', version', v, r)
    BY <2>1, <2>2 DEF ConFits
  <2> QED BY <2>9 DEF r
<1>2. ASSUME NEW i \in Task, LockKept(i) PROVE TaskFits(lock', version', i, task[i])
  <2> DEFINE t == task[i]
             c == Min(t.todo)
  <2>1. t \in TaskRecord /\ TaskFits(lock, version, i, t)
    BY DEF TypeInv
  <2>2. ASSUME t.pc = "computed" PROVE lock'[c] = i /\ t.read <= version'[c]
    <3>1. t.todo # {} /\ t.todo \in SUBSET Nat /\ t.todo \subseteq Case
      BY <2>1, <2>2, CaseFacts DEF TaskFits, TaskRecord, Open
    <3>2. c \in Case
      BY <3>1, MinFacts
    <3>3. lock[c] = i /\ t.read <= version[c] /\ t.read \in Nat
      BY <2>1, <2>2 DEF TaskFits, TaskRecord
    <3> HIDE DEF c
    <3> QED BY <1>2, <3>2, <3>3 DEF LockKept, VersionsGrow, TypeInv
  <2> HIDE DEF t
  <2>9. TaskFits(lock', version', i, t)
    BY <2>1, <2>2 DEF TaskFits
  <2> QED BY <2>9 DEF t
<1> QED BY <1>1, <1>2

WorkersFit ==
  /\ con' \in [Consumer -> ConRecord] /\ task' \in [Task -> TaskRecord]
  /\ \A v \in Consumer : ConFits(lock', version', v, con'[v])
  /\ \A i \in Task : TaskFits(lock', version', i, task'[i])

\* Consumer w moves to n.
LEMMA ConMoves ==
  ASSUME TypeInv, VersionsGrow, version' \in [Case -> Nat], NEW w \in Consumer,
         NEW n \in ConRecord, Set(w, n), ConFits(lock', version', w, n), UNCHANGED task,
         \A v \in Worker \ {w} : LockKept(v)
  PROVE  WorkersFit
<1>1. /\ con' \in [Consumer -> ConRecord]
      /\ \A v \in Consumer : con'[v] = IF v = w THEN n ELSE con[v]
  BY DEF TypeInv, Set
<1>2. \A i \in Task : LockKept(i)
  BY CaseFacts DEF Worker
<1>3. \A v \in Consumer \ {w} : LockKept(v)
  BY DEF Worker
<1>4. task' \in [Task -> TaskRecord] /\ \A i \in Task : TaskFits(lock', version', i, task'[i])
  BY <1>2, OthersFit DEF TypeInv
<1>5. \A v \in Consumer : ConFits(lock', version', v, con'[v])
  BY <1>1, <1>3, OthersFit
<1> QED BY <1>1, <1>4, <1>5 DEF WorkersFit

\* Callback i moves to n.
LEMMA TaskMoves ==
  ASSUME TypeInv, VersionsGrow, version' \in [Case -> Nat], NEW i \in Task,
         NEW n \in TaskRecord, task' = [task EXCEPT ![i] = n],
         TaskFits(lock', version', i, n), UNCHANGED con,
         \A v \in Worker \ {i} : LockKept(v)
  PROVE  WorkersFit
<1>1. /\ task' \in [Task -> TaskRecord]
      /\ \A k \in Task : task'[k] = IF k = i THEN n ELSE task[k]
  BY DEF TypeInv
<1>2. \A v \in Consumer : LockKept(v)
  BY CaseFacts DEF Worker
<1>3. \A k \in Task \ {i} : LockKept(k)
  BY DEF Worker
<1>4. con' \in [Consumer -> ConRecord] /\ \A v \in Consumer : ConFits(lock', version', v, con'[v])
  BY <1>2, OthersFit DEF TypeInv
<1>5. \A k \in Task : TaskFits(lock', version', k, task'[k])
  BY <1>1, <1>3, OthersFit
<1> QED BY <1>1, <1>4, <1>5 DEF WorkersFit

\* A lock that is free, or that worker w holds, is nobody else's.
LEMMA OwnLock ==
  ASSUME TypeInv, NEW w \in Worker, NEW c \in Case, NEW x,
         lock[c] \in {None, w}, lock' = [lock EXCEPT ![c] = x]
  PROVE  /\ \A v \in Worker \ {w} : LockKept(v)
         /\ \A d \in Case : lock'[d] = IF d = c THEN x ELSE lock[d]
         /\ x \in Worker \cup {None} => lock' \in [Case -> Worker \cup {None}]
  BY CaseFacts DEF TypeInv, LockKept

\* The locks of a worker that died are freed.
LEMMA FreedLocks ==
  ASSUME TypeInv, NEW w \in Worker,
         lock' = [c \in Case |-> IF lock[c] = w THEN None ELSE lock[c]]
  PROVE  /\ \A v \in Worker \ {w} : LockKept(v)
         /\ lock' \in [Case -> Worker \cup {None}]
  BY DEF TypeInv, LockKept

\* What is known of a consumer at its place.
LEMMA ConFacts ==
  ASSUME TypeInv, NEW w \in Consumer
  PROVE  /\ con[w] \in ConRecord /\ con[w].batch \subseteq Entry /\ con[w].acks \subseteq Entry
         /\ con[w].pc = "page" => PageFits(con[w])
         /\ con[w].pc \in {"sync", "computed"} => CaseFits(con[w]) /\ con[w].job.case \in Case
         /\ con[w].pc = "requeue" =>
              (CaseFits(con[w]) \/ PageFits(con[w])) /\ con[w].job \in Job
         /\ con[w].pc = "computed" =>
              /\ lock[con[w].job.case] = w /\ con[w].read \in Nat
              /\ con[w].read <= version[con[w].job.case]
<1> DEFINE r == con[w]
<1>1. r \in ConRecord /\ ConFits(lock, version, w, r)
  BY DEF TypeInv
<1>2. r.batch \subseteq Entry /\ r.acks \subseteq Entry /\ r.read \in Nat
  BY <1>1 DEF ConRecord
<1> HIDE DEF r
<1>3. CaseFits(r) => r.job.case \in Case /\ r.job \in Job
  BY JobFacts DEF CaseFits
<1>4. PageFits(r) => r.job \in Job
  BY PageCovers DEF PageFits
<1>5. r.pc \in {"page", "sync", "computed", "requeue"} => CaseFits(r) \/ PageFits(r)
  BY <1>1 DEF ConFits
<1>6. r.pc = "page" => ~ CaseFits(r)
  BY DEF CaseFits
<1>7. r.pc \in {"sync", "computed"} => ~ PageFits(r)
  BY DEF PageFits
<1>8. r.pc = "computed" => lock[r.job.case] = w /\ r.read <= version[r.job.case]
  BY <1>1 DEF ConFits
<1>9. /\ r \in ConRecord /\ r.batch \subseteq Entry /\ r.acks \subseteq Entry
      /\ r.pc = "page" => PageFits(r)
      /\ r.pc \in {"sync", "computed"} => CaseFits(r) /\ r.job.case \in Case
      /\ r.pc = "requeue" => (CaseFits(r) \/ PageFits(r)) /\ r.job \in Job
      /\ r.pc = "computed" => /\ lock[r.job.case] = w /\ r.read \in Nat
                              /\ r.read <= version[r.job.case]
  BY <1>1, <1>2, <1>3, <1>4, <1>5, <1>6, <1>7, <1>8
<1> QED BY <1>9 DEF r

\* A consumer that starts on other work, or on another attempt, fits.
LEMMA FreshFits ==
  ASSUME NEW B, NEW n, Fresh(B, n), NEW L, NEW V, NEW w
  PROVE  n \in ConRecord /\ ConFits(L, V, w, n)
  BY DEF Fresh, ConFits

\* Only the place of the consumer changes, to one without work.
LEMMA PlaceFits ==
  ASSUME TypeInv, NEW w \in Consumer, NEW p \in {"idle", "rollout", "mark", "ack"},
         NEW L, NEW V
  PROVE  LET n == [con[w] EXCEPT !.pc = p]
         IN  /\ n \in ConRecord /\ n.pc = p /\ n.acks = con[w].acks
             /\ ConFits(L, V, w, n)
<1> DEFINE n == [con[w] EXCEPT !.pc = p]
<1>1. con[w] \in ConRecord
  BY ConFacts
<1>2. n \in ConRecord /\ n.pc = p /\ n.acks = con[w].acks
  BY <1>1 DEF ConRecord, ConPC
<1> HIDE DEF n
<1>3. n \in ConRecord /\ n.pc = p /\ n.acks = con[w].acks /\ ConFits(L, V, w, n)
  BY <1>2 DEF ConFits
<1> QED BY <1>3 DEF n

\* The steps of consumer w, with those that fail.
ConSteps(w) ==
  \/ TakeLease(w) \/ RolloutPublish(w) \/ RolloutFails(w) \/ RolloutMark(w)
  \/ ReadGroup(w) \/ ClaimIdle(w) \/ \E v \in Consumer : ClaimFromSlow(w, v)
  \/ PublishPage(w) \/ PageFails(w) \/ SyncCase(w) \/ CommitCase(w) \/ SyncError(w)
  \/ Requeue(w) \/ RequeueFails(w) \/ AckAndDelete(w) \/ AckFails(w) \/ Crash(w)

\* The batch that a consumer gets consists of entries.
LEMMA DeliverFacts ==
  ASSUME TypeInv, NEW w \in Consumer,
         ReadGroup(w) \/ ClaimIdle(w) \/ \E v \in Consumer : ClaimFromSlow(w, v)
  PROVE  \E B \in SUBSET Entry : Deliver(w, B) /\ B \subseteq Stream /\ con[w].pc = "idle"
<1>1. CASE ReadGroup(w)
  BY <1>1 DEF ReadGroup, TypeInv, Stream, At
<1>2. CASE ClaimIdle(w)
  BY <1>2 DEF ClaimIdle, Idle, TypeInv, Stream, At
<1>3. CASE \E v \in Consumer : ClaimFromSlow(w, v)
  BY <1>3 DEF ClaimFromSlow, TypeInv, Stream, At
<1> QED BY <1>1, <1>2, <1>3

\* The steps after which a consumer starts on other work or another attempt.
LEMMA FreshSteps ==
  ASSUME TypeInv, NEW w \in Consumer,
         \/ ReadGroup(w) \/ ClaimIdle(w) \/ \E v \in Consumer : ClaimFromSlow(w, v)
         \/ PageFails(w) \/ SyncError(w) \/ RequeueFails(w) \/ AckAndDelete(w)
         \/ AckFails(w) \/ Crash(w)
         \/ (SyncCase(w) /\ RequiresSync(con[w].types) /\ lock[con[w].job.case] # None)
  PROVE  \E n, B : Set(w, n) /\ Fresh(B, n)
<1>1. CASE ReadGroup(w) \/ ClaimIdle(w) \/ \E v \in Consumer : ClaimFromSlow(w, v)
  <2>1. PICK B \in SUBSET Entry : Deliver(w, B)
    BY <1>1, DeliverFacts
  <2>2. Set(w, NextWork(B)) /\ Fresh(B, NextWork(B))
    BY <2>1, NextWorkFacts DEF Deliver
  <2> QED BY <2>2
<1>2. CASE PageFails(w) \/ SyncError(w)
           \/ (SyncCase(w) /\ RequiresSync(con[w].types) /\ lock[con[w].job.case] # None)
  <2>1. Set(w, Failed(w)) /\ con[w].pc \in {"page", "sync", "computed"}
    BY <1>2 DEF PageFails, SyncError, SyncCase, At
  <2> QED BY <2>1, FailedFacts
<1>3. CASE RequeueFails(w) \/ AckAndDelete(w)
  <2>1. Set(w, NextWork(con[w].batch)) /\ con[w].batch \in SUBSET Entry
    BY <1>3, ConFacts DEF RequeueFails, AckAndDelete
  <2> QED BY <2>1, NextWorkFacts
<1>4. CASE AckFails(w) \/ Crash(w)
  <2>1. Set(w, IdleConsumer)
    BY <1>4 DEF AckFails, Crash
  <2>2. Fresh({}, IdleConsumer)
    BY IdleFacts DEF Fresh, Spends
  <2> QED BY <2>1, <2>2
<1> QED BY <1>1, <1>2, <1>3, <1>4

\* What every step of a consumer leaves alone.
LEMMA ConLeaves ==
  ASSUME NEW w \in Consumer, ConSteps(w)
  PROVE  /\ UNCHANGED <<version, defs, task, changes, lost>>
         /\ faults' = faults \/ Fault
         /\ \/ UNCHANGED synced
            \/ CommitCase(w)
  BY DEF ConSteps, TakeLease, RolloutPublish, RolloutFails, RolloutMark, ReadGroup,
         ClaimIdle, ClaimFromSlow, Deliver, PublishPage, PageFails, SyncCase, CommitCase,
         SyncError, Requeue, RequeueFails, AckAndDelete, AckFails, Crash, dbVars

\* The locks after the step of a consumer.
LEMMA ConLocks ==
  ASSUME TypeInv, NEW w \in Consumer, ConSteps(w)
  PROVE  /\ lock' \in [Case -> Worker \cup {None}]
         /\ \A v \in Worker \ {w} : LockKept(v)
<1>1. w \in Worker
  BY DEF Worker
<1>2. CASE UNCHANGED lock
  BY <1>2 DEF TypeInv, LockKept
<1>3. CASE CommitCase(w) \/ SyncError(w)
  <2>1. con[w].job.case \in Case /\ lock[con[w].job.case] = w
    BY <1>3, ConFacts DEF CommitCase, SyncError, At
  <2>2. lock' = [lock EXCEPT ![con[w].job.case] = None]
    BY <1>3 DEF CommitCase, SyncError, SyncedTo
  <2> QED BY <1>1, <2>1, <2>2, OwnLock
<1>4. CASE Crash(w)
  BY <1>1, <1>4, FreedLocks DEF Crash
<1>5. CASE SyncCase(w)
  <2>1. con[w].job.case \in Case
    BY <1>5, ConFacts DEF SyncCase, At
  <2>2. \/ UNCHANGED lock
        \/ /\ lock[con[w].job.case] = None
           /\ lock' = [lock EXCEPT ![con[w].job.case] = w]
    BY <1>5 DEF SyncCase, Computed
  <2> QED BY <1>1, <1>2, <2>1, <2>2, OwnLock
<1>6. UNCHANGED lock \/ CommitCase(w) \/ SyncError(w) \/ Crash(w) \/ SyncCase(w)
  BY DEF ConSteps, TakeLease, RolloutPublish, RolloutFails, RolloutMark, ReadGroup,
         ClaimIdle, ClaimFromSlow, Deliver, PublishPage, PageFails, Requeue, RequeueFails,
         AckAndDelete, AckFails
<1> QED BY <1>2, <1>3, <1>4, <1>5, <1>6

\* The stream after the step of a consumer.
LEMMA ConStream ==
  ASSUME TypeInv, NEW w \in Consumer, ConSteps(w)
  PROVE  new' \subseteq Entry /\ pending' \subseteq Entry /\ new' \cap pending' = {}
<1>1. CASE UNCHANGED stream
  BY <1>1 DEF stream, TypeInv
<1>2. ASSUME NEW j \in Job, Publish(j)
      PROVE  new' \subseteq Entry /\ pending' \subseteq Entry /\ new' \cap pending' = {}
  BY <1>2, PublishFacts DEF TypeInv, Stream
<1>3. CASE PublishPage(w)
  <2>1. \A j \in con[w].out : j \in Job
    BY ConFacts DEF ConRecord
  <2>2. \E j \in con[w].out : Publish(j)
    BY <1>3 DEF PublishPage
  <2> QED BY <1>2, <2>1, <2>2
<1>4. CASE Requeue(w)
  <2>1. con[w].job \in Job /\ Publish(con[w].job)
    BY <1>4, ConFacts DEF Requeue, At
  <2> QED BY <1>2, <2>1
<1>5. CASE RolloutPublish(w)
  BY <1>2, <1>5, JobFacts DEF RolloutPublish
<1>6. CASE ReadGroup(w) \/ ClaimIdle(w) \/ \E v \in Consumer : ClaimFromSlow(w, v)
  <2>1. PICK B \in SUBSET Entry : Deliver(w, B)
    BY <1>6, DeliverFacts
  <2> QED BY <2>1 DEF Deliver, TypeInv
<1>7. CASE AckAndDelete(w)
  BY <1>7 DEF AckAndDelete, TypeInv
<1>8. \/ UNCHANGED stream \/ PublishPage(w) \/ Requeue(w) \/ RolloutPublish(w)
      \/ ReadGroup(w) \/ ClaimIdle(w) \/ \E v \in Consumer : ClaimFromSlow(w, v)
      \/ AckAndDelete(w)
  BY DEF ConSteps, TakeLease, RolloutFails, RolloutMark, PageFails, SyncCase, CommitCase,
         SyncError, RequeueFails, AckFails, Crash
<1> QED BY <1>1, <1>3, <1>4, <1>5, <1>6, <1>7, <1>8

\* The consumers after the step of one.
LEMMA ConShapes ==
  ASSUME TypeInv, NEW w \in Consumer, ConSteps(w)
  PROVE  WorkersFit
<1> DEFINE r == con[w]
<1>1. /\ UNCHANGED <<version, task>> /\ VersionsGrow /\ version' \in [Case -> Nat]
      /\ \A v \in Worker \ {w} : LockKept(v)
  BY ConLeaves, ConLocks DEF VersionsGrow, TypeInv
<1>2. SUFFICES \E n \in ConRecord : Set(w, n) /\ ConFits(lock', version', w, n)
  BY <1>1, ConMoves
<1>3. CASE \/ ReadGroup(w) \/ ClaimIdle(w) \/ \E v \in Consumer : ClaimFromSlow(w, v)
           \/ PageFails(w) \/ SyncError(w) \/ RequeueFails(w) \/ AckAndDelete(w)
           \/ AckFails(w) \/ Crash(w)
           \/ (SyncCase(w) /\ RequiresSync(con[w].types) /\ lock[con[w].job.case] # None)
  BY <1>3, FreshSteps, FreshFits
<1>4. CASE \/ TakeLease(w) \/ RolloutPublish(w) \/ RolloutFails(w) \/ RolloutMark(w)
           \/ CommitCase(w) \/ Requeue(w) \/ (SyncCase(w) /\ ~ RequiresSync(con[w].types))
  <2>1. \E p \in {"idle", "rollout", "mark", "ack"} : Set(w, [con[w] EXCEPT !.pc = p])
    BY <1>4 DEF TakeLease, RolloutPublish, RolloutFails, RolloutMark, CommitCase, Requeue,
                SyncCase
  <2> QED BY <2>1, PlaceFits
<1>5. CASE PublishPage(w)
  <2>1. PICK j \in r.out : Set(w, [r EXCEPT !.out = @ \ {j},
                                   !.pc = IF r.out = {j} THEN "ack" ELSE "page"])
    BY <1>5 DEF PublishPage
  <2> DEFINE n == [r EXCEPT !.out = @ \ {j}, !.pc = IF r.out = {j} THEN "ack" ELSE "page"]
  <2>2. r \in ConRecord /\ PageFits(r)
    BY <1>5, ConFacts DEF PublishPage, At
  <2>3. n \in ConRecord /\ n.pc \in {"ack", "page"} /\ n.acks = r.acks /\ n.job = r.job
    BY <2>2 DEF ConRecord, ConPC
  <2> HIDE DEF n
  <2>4. n.pc = "page" => PageFits(n)
    BY <2>2, <2>3 DEF PageFits
  <2>5. ConFits(lock', version', w, n)
    BY <2>3, <2>4 DEF ConFits
  <2> QED BY <2>1, <2>3, <2>5 DEF n
<1>6. CASE SyncCase(w) /\ RequiresSync(con[w].types) /\ lock[con[w].job.case] = None
  <2> DEFINE c == r.job.case
             n == [r EXCEPT !.pc = "computed", !.read = version[c]]
  <2>1. Set(w, n) /\ lock' = [lock EXCEPT ![c] = w]
    BY <1>6 DEF SyncCase, Computed
  <2>2. r \in ConRecord /\ CaseFits(r) /\ c \in Case
    BY <1>6, ConFacts DEF SyncCase, At
  <2>3. version[c] \in Nat /\ lock'[c] = w
    BY <2>1, <2>2 DEF TypeInv
  <2>4. /\ n \in ConRecord /\ n.pc = "computed" /\ n.acks = r.acks /\ n.job = r.job
        /\ n.types = r.types /\ n.read = version[c]
    BY <2>2, <2>3 DEF ConRecord, ConPC
  <2> HIDE DEF n
  <2>5. CaseFits(n)
    BY <2>2, <2>4 DEF CaseFits
  <2>6. ConFits(lock', version', w, n)
    BY <1>1, <2>3, <2>4, <2>5 DEF ConFits
  <2> QED BY <2>1, <2>4, <2>6
<1> QED BY <1>3, <1>4, <1>5, <1>6 DEF ConSteps

\* A step of a consumer keeps the types.
LEMMA ConType ==
  ASSUME TypeInv, NEW w \in Consumer, ConSteps(w)
  PROVE  TypeInv'
<1>1. /\ UNCHANGED <<version, defs, task, changes, lost>> /\ (faults' = faults \/ Fault)
      /\ UNCHANGED synced \/ CommitCase(w)
  BY ConLeaves
<1>2. synced' \in [Case -> Nat] /\ \A c \in Case : synced'[c] <= version'[c]
  <2>1. CASE UNCHANGED synced
    BY <1>1, <2>1 DEF TypeInv
  <2>2. CASE CommitCase(w)
    <3>1. /\ con[w].job.case \in Case /\ con[w].read \in Nat
          /\ con[w].read <= version[con[w].job.case]
      BY <2>2, ConFacts DEF CommitCase, At
    <3>2. synced' = [synced EXCEPT ![con[w].job.case] = con[w].read]
      BY <2>2 DEF CommitCase, SyncedTo
    <3> QED BY <1>1, <3>1, <3>2 DEF TypeInv
  <2> QED BY <1>1, <2>1, <2>2
<1>3. faults' \in 0..MaxEvents
  BY <1>1, SyncConstants DEF Fault, TypeInv
<1>4. marker' \in {None, "pending", "done"}
  BY DEF TypeInv, ConSteps, TakeLease, RolloutPublish, RolloutFails, RolloutMark, ReadGroup,
         ClaimIdle, ClaimFromSlow, Deliver, PublishPage, PageFails, SyncCase, CommitCase,
         SyncError, Requeue, RequeueFails, AckAndDelete, AckFails, Crash
<1>5. lock' \in [Case -> Worker \cup {None}]
  BY ConLocks
<1>6. new' \subseteq Entry /\ pending' \subseteq Entry /\ new' \cap pending' = {}
  BY ConStream
<1>7. WorkersFit
  BY ConShapes
<1> QED BY <1>1, <1>2, <1>3, <1>4, <1>5, <1>6, <1>7 DEF TypeInv, WorkersFit

\* A change concerns the cases of its scope.
LEMMA ChangeCovers ==
  ASSUME NEW j \in ChangeJob
  PROVE  /\ j \in Job /\ Scope(j) \subseteq Case /\ Scope(j) # {}
         /\ \A c \in Case : Covers(j, c) => c \in Scope(j)
         /\ j # Definition => \A c \in Case : Covers(j, c) => j.type \in defs
<1>1. CASE j = Definition
  BY <1>1, JobFacts, CaseFacts DEF Covers, Scope
<1>2. CASE j \in {Event(c, ty) : c \in Case, ty \in EventType}
  <2>1. PICK c \in Case, ty \in EventType : j = Event(c, ty)
    BY <1>2
  <2>2. j \in Job /\ j.kind = "event" /\ j.case = c /\ j # Definition
    BY <2>1, JobFacts
  <2> QED BY <2>2 DEF Covers, Scope
<1> QED BY <1>1, <1>2 DEF ChangeJob

\* A callback that is over.
LEMMA OverFacts ==
  LET n == [IdleTask EXCEPT !.pc = "over"]
  IN  n \in TaskRecord /\ n.pc = "over"
<1>1. 0 \in 0..InlineAttempts - 1
  BY SyncConstants
<1>2. ASSUME NEW n, n = [IdleTask EXCEPT !.pc = "over"]
      PROVE  n \in TaskRecord /\ n.pc = "over"
  <2>1. n = [pc |-> "over", job |-> None, todo |-> {}, missed |-> FALSE, tries |-> 0,
             read |-> 0]
    BY <1>2 DEF IdleTask
  <2> QED BY <1>1, <2>1 DEF TaskRecord, TaskPC
<1> QED BY <1>2

\* What is known of a callback that has not come to its end.
LEMMA TaskFacts ==
  ASSUME TypeInv, NEW i \in Task
  PROVE  /\ task[i] \in TaskRecord
         /\ task[i].pc \in Open =>
              /\ task[i].job \in ChangeJob /\ task[i].job \in Job
              /\ task[i].todo # {} /\ task[i].todo \subseteq Scope(task[i].job)
              /\ InlineScope(i) = Scope(task[i].job)
              /\ Min(task[i].todo) \in task[i].todo /\ Min(task[i].todo) \in Case
         /\ task[i].pc = "publish" => task[i].todo = Scope(task[i].job)
         /\ task[i].pc = "computed" =>
              /\ lock[Min(task[i].todo)] = i /\ task[i].read \in Nat
              /\ task[i].read <= version[Min(task[i].todo)]
<1> DEFINE t == task[i]
<1>1. t \in TaskRecord /\ TaskFits(lock, version, i, t)
  BY DEF TypeInv
<1>2. ASSUME t.pc \in Open
      PROVE  /\ t.job \in ChangeJob /\ t.job \in Job /\ t.todo # {}
             /\ t.todo \subseteq Scope(t.job) /\ InlineScope(i) = Scope(t.job)
             /\ Min(t.todo) \in t.todo /\ Min(t.todo) \in Case
  <2>1. t.job \in ChangeJob /\ t.todo # {} /\ t.todo \subseteq Scope(t.job)
    BY <1>1, <1>2 DEF TaskFits
  <2>2. t.todo \in SUBSET Nat /\ t.todo \subseteq Case
    BY <1>1, CaseFacts DEF TaskRecord
  <2>3. Min(t.todo) \in t.todo
    BY <2>1, <2>2, MinFacts
  <2>4. InlineScope(i) = Scope(t.job)
    BY DEF InlineScope, Scope
  <2> QED BY <2>1, <2>2, <2>3, <2>4, ChangeCovers
<1>3. /\ t.pc = "publish" => t.todo = Scope(t.job)
      /\ t.pc = "computed" => lock[Min(t.todo)] = i /\ t.read <= version[Min(t.todo)]
  BY <1>1 DEF TaskFits
<1>4. t.read \in Nat
  BY <1>1 DEF TaskRecord
<1> QED BY <1>1, <1>2, <1>3, <1>4

\* How a pass of callback i goes on after case c, which was missed or not (m).
Passed(i, c, m, n) ==
  /\ task' = [task EXCEPT ![i] = n] /\ n \in TaskRecord
  /\ \/ n.pc = "over" /\ ~ m /\ task[i].todo = {c} /\ lost' = lost
     \/ n.pc = "over" /\ lost' = lost \cup Scope(task[i].job)
     \/ /\ n.pc = "inline" /\ n.job = task[i].job /\ lost' = lost
        /\ n.todo = Scope(task[i].job)
     \/ /\ n.pc = "inline" /\ n.job = task[i].job /\ lost' = lost
        /\ n.todo = task[i].todo \ {c} /\ n.todo # {} /\ n.missed = m

\* The end of a pass in which a case was missed.
LEMMA EndFacts ==
  ASSUME TypeInv, NEW i \in Task, task[i].pc \in Open, NEW c, EndPass(i, TRUE)
  PROVE  \E n : Passed(i, c, TRUE, n)
<1> DEFINE t == task[i]
           o == [IdleTask EXCEPT !.pc = "over"]
<1>1. t \in TaskRecord /\ t.job \in ChangeJob /\ InlineScope(i) = Scope(t.job)
  BY TaskFacts
<1>2. o \in TaskRecord /\ o.pc = "over"
  BY OverFacts
<1>3. CASE t.tries + 1 < InlineAttempts
  <2> DEFINE n == [t EXCEPT !.tries = @ + 1, !.pc = "inline", !.todo = InlineScope(i),
                            !.missed = FALSE]
  <2>1. task' = [task EXCEPT ![i] = n] /\ lost' = lost
    BY <1>3 DEF EndPass, TypeInv
  <2>2. t.tries + 1 \in 0..InlineAttempts - 1 /\ InlineScope(i) \in SUBSET Case
    BY <1>1, <1>3, SyncConstants, ChangeCovers DEF TaskRecord
  <2>3. /\ n \in TaskRecord /\ n.pc = "inline" /\ n.job = t.job /\ n.todo = Scope(t.job)
    BY <1>1, <2>2 DEF TaskRecord, TaskPC
  <2> HIDE DEF n
  <2>4. Passed(i, c, TRUE, n)
    BY <2>1, <2>3 DEF Passed
  <2> QED BY <2>4
<1>4. CASE ~ (t.tries + 1 < InlineAttempts)
  <2>1. task' = [task EXCEPT ![i] = o] /\ lost' = lost \cup Scope(t.job)
    BY <1>1, <1>4 DEF EndPass, TaskOver
  <2> HIDE DEF o
  <2>2. Passed(i, c, TRUE, o)
    BY <1>2, <2>1 DEF Passed
  <2> QED BY <2>2
<1> QED BY <1>3, <1>4

\* After a case comes the next one, or the end of the pass.
LEMMA NextCaseFacts ==
  ASSUME TypeInv, NEW i \in Task, task[i].pc \in Open, NEW c \in task[i].todo,
         NEW m \in BOOLEAN, NextCase(i, c, m)
  PROVE  \E n : Passed(i, c, m, n)
<1> DEFINE t == task[i]
           o == [IdleTask EXCEPT !.pc = "over"]
<1>1. t \in TaskRecord /\ t.todo \in SUBSET Case
  BY TaskFacts DEF TaskRecord
<1>2. CASE t.todo = {c} /\ m
  <2>1. EndPass(i, TRUE) /\ m = TRUE
    BY <1>2 DEF NextCase
  <2> QED BY <2>1, EndFacts
<1>3. CASE t.todo = {c} /\ ~ m
  <2>1. task' = [task EXCEPT ![i] = o] /\ lost' = lost
    BY <1>3 DEF NextCase, EndPass, TaskOver
  <2>2. o \in TaskRecord /\ o.pc = "over"
    BY OverFacts
  <2> HIDE DEF o
  <2>3. Passed(i, c, m, o)
    BY <1>3, <2>1, <2>2 DEF Passed
  <2> QED BY <2>3
<1>4. CASE t.todo # {c}
  <2> DEFINE n == [t EXCEPT !.todo = @ \ {c}, !.missed = m, !.pc = "inline"]
  <2>1. task' = [task EXCEPT ![i] = n] /\ lost' = lost
    BY <1>4 DEF NextCase, TypeInv
  <2>2. /\ n \in TaskRecord /\ n.pc = "inline" /\ n.job = t.job /\ n.todo = t.todo \ {c}
        /\ n.missed = m
    BY <1>1 DEF TaskRecord, TaskPC
  <2>3. n.todo # {}
    BY <1>4, <2>2
  <2> HIDE DEF n
  <2>4. Passed(i, c, m, n)
    BY <2>1, <2>2, <2>3 DEF Passed
  <2> QED BY <2>4
<1> QED BY <1>2, <1>3, <1>4

\* A callback whose pass went on fits.
LEMMA PassedFits ==
  ASSUME TypeInv, NEW i \in Task, task[i].pc \in Open, NEW c, NEW m, NEW n,
         Passed(i, c, m, n), NEW L, NEW V
  PROVE  n \in TaskRecord /\ TaskFits(L, V, i, n) /\ lost' \subseteq Case
<1>1. /\ task[i].job \in ChangeJob /\ task[i].todo \subseteq Scope(task[i].job)
      /\ Scope(task[i].job) \subseteq Case /\ Scope(task[i].job) # {} /\ lost \subseteq Case
  BY TaskFacts, ChangeCovers DEF TypeInv
<1> QED BY <1>1 DEF Passed, TaskFits, Open

\* The steps of callback i, with those that fail.
TaskSteps(i) ==
  \/ PublishChange(i) \/ PublishFails(i) \/ ProcessDies(i)
  \/ InlineSync(i) \/ InlineCommit(i) \/ InlineError(i)

\* What every step of a callback leaves alone.
LEMMA TaskLeaves ==
  ASSUME NEW i \in Task, TaskSteps(i)
  PROVE  /\ UNCHANGED <<version, defs, marker, con, changes>> /\ task[i].pc \in Open
         /\ faults' = faults \/ Fault
         /\ UNCHANGED stream \/ PublishChange(i)
         /\ \/ UNCHANGED synced
            \/ InlineCommit(i)
  BY DEF TaskSteps, PublishChange, PublishFails, ProcessDies, InlineSync, InlineCommit,
         InlineError, dbVars, Open

\* The locks after the step of a callback.
LEMMA TaskLocks ==
  ASSUME TypeInv, NEW i \in Task, TaskSteps(i)
  PROVE  /\ lock' \in [Case -> Worker \cup {None}]
         /\ \A v \in Worker \ {i} : LockKept(v)
<1> DEFINE c == Min(task[i].todo)
<1>1. i \in Worker /\ task[i].pc \in Open
  BY TaskLeaves DEF Worker
<1>2. c \in Case
  BY <1>1, TaskFacts
<1>3. CASE UNCHANGED lock
  BY <1>3 DEF TypeInv, LockKept
<1>4. CASE InlineCommit(i) \/ InlineError(i)
  <2>1. lock[c] = i
    BY <1>4, TaskFacts DEF InlineCommit, InlineError
  <2>2. lock' = [lock EXCEPT ![c] = None]
    BY <1>4 DEF InlineCommit, InlineError, SyncedTo
  <2> HIDE DEF c
  <2> QED BY <1>1, <1>2, <2>1, <2>2, OwnLock
<1>5. CASE ProcessDies(i)
  BY <1>1, <1>5, FreedLocks DEF ProcessDies
<1>6. CASE InlineSync(i)
  <2>1. \/ UNCHANGED lock
        \/ lock[c] = None /\ lock' = [lock EXCEPT ![c] = i]
    BY <1>6 DEF InlineSync, Computed
  <2> HIDE DEF c
  <2> QED BY <1>1, <1>2, <1>3, <2>1, OwnLock
<1>7. UNCHANGED lock \/ InlineCommit(i) \/ InlineError(i) \/ ProcessDies(i) \/ InlineSync(i)
  BY DEF TaskSteps, PublishChange, PublishFails
<1> QED BY <1>3, <1>4, <1>5, <1>6, <1>7

\* Where the step of a callback ends its case or its pass, c is that case.
LEMMA TaskPasses ==
  ASSUME TypeInv, NEW i \in Task, NEW c, c = Min(task[i].todo)
  PROVE  /\ InlineCommit(i) \/ (InlineSync(i) /\ ~ RequiresSync(InlineTypes(i))) =>
              \E n : Passed(i, c, task[i].missed, n)
         /\ InlineError(i) \/ (InlineSync(i) /\ RequiresSync(InlineTypes(i)) /\ lock[c] # None)
              => \E n : Passed(i, c, TRUE, n)
<1>1. ASSUME task[i].pc \in Open PROVE task[i].missed \in BOOLEAN /\ c \in task[i].todo
  BY <1>1, TaskFacts DEF TaskRecord
<1>2. ASSUME InlineCommit(i) \/ (InlineSync(i) /\ ~ RequiresSync(InlineTypes(i)))
      PROVE  \E n : Passed(i, c, task[i].missed, n)
  <2>1. NextCase(i, c, task[i].missed) /\ task[i].pc \in Open
    BY <1>2 DEF InlineCommit, InlineSync, Open
  <2> QED BY <1>1, <2>1, NextCaseFacts
<1>3. ASSUME InlineError(i) PROVE \E n : Passed(i, c, TRUE, n)
  <2>1. EndPass(i, TRUE) /\ task[i].pc \in Open
    BY <1>3 DEF InlineError, Open
  <2> QED BY <2>1, EndFacts
<1>4. ASSUME InlineSync(i), RequiresSync(InlineTypes(i)), lock[c] # None
      PROVE  \E n : Passed(i, c, TRUE, n)
  <2>1. NextCase(i, c, TRUE) /\ task[i].pc \in Open
    BY <1>4 DEF InlineSync, Open
  <2> QED BY <1>1, <2>1, NextCaseFacts
<1> QED BY <1>2, <1>3, <1>4

\* The callbacks after the step of one.
LEMMA TaskShapes ==
  ASSUME TypeInv, NEW i \in Task, TaskSteps(i)
  PROVE  WorkersFit /\ lost' \subseteq Case /\ \E n : task' = [task EXCEPT ![i] = n]
<1> DEFINE t == task[i]
           c == Min(t.todo)
<1>1. /\ UNCHANGED <<version, con>> /\ VersionsGrow /\ version' \in [Case -> Nat]
      /\ t.pc \in Open /\ lost \subseteq Case
      /\ \A v \in Worker \ {i} : LockKept(v)
  BY TaskLeaves, TaskLocks DEF VersionsGrow, TypeInv
<1>2. /\ t \in TaskRecord /\ t.job \in ChangeJob /\ t.todo # {} /\ c \in Case
      /\ t.todo \subseteq Scope(t.job) /\ InlineScope(i) = Scope(t.job)
      /\ Scope(t.job) \subseteq Case
  BY <1>1, TaskFacts, ChangeCovers
<1>3. ASSUME NEW n \in TaskRecord, task' = [task EXCEPT ![i] = n],
             TaskFits(lock', version', i, n), lost' \subseteq Case
      PROVE  WorkersFit /\ lost' \subseteq Case /\ \E k : task' = [task EXCEPT ![i] = k]
  BY <1>1, <1>3, TaskMoves
<1>4. CASE PublishChange(i) \/ ProcessDies(i)
  <2> DEFINE n == [IdleTask EXCEPT !.pc = "over"]
  <2>1. n \in TaskRecord /\ n.pc = "over"
    BY OverFacts
  <2>2. task' = [task EXCEPT ![i] = n] /\ lost' \subseteq Case
    BY <1>1, <1>2, <1>4 DEF PublishChange, ProcessDies, TaskOver
  <2> HIDE DEF n
  <2>3. TaskFits(lock', version', i, n)
    BY <2>1 DEF TaskFits, Open
  <2> QED BY <1>3, <2>1, <2>2, <2>3
<1>5. CASE PublishFails(i)
  <2> DEFINE n == [t EXCEPT !.pc = "inline"]
  <2>1. n \in TaskRecord /\ n.pc = "inline" /\ n.job = t.job /\ n.todo = t.todo
    BY <1>2 DEF TaskRecord, TaskPC
  <2>2. task' = [task EXCEPT ![i] = n] /\ lost' \subseteq Case
    BY <1>1, <1>5 DEF PublishFails, TypeInv
  <2> HIDE DEF n
  <2>3. TaskFits(lock', version', i, n)
    BY <1>2, <2>1 DEF TaskFits
  <2> QED BY <1>3, <2>1, <2>2, <2>3
<1>6. CASE InlineSync(i) /\ RequiresSync(InlineTypes(i)) /\ lock[c] = None
  <2> DEFINE n == [t EXCEPT !.pc = "computed", !.read = version[c]]
  <2>1. version[c] \in Nat
    BY <1>2 DEF TypeInv
  <2>2. /\ n \in TaskRecord /\ n.pc = "computed" /\ n.job = t.job /\ n.todo = t.todo
        /\ n.read = version[c]
    BY <1>2, <2>1 DEF TaskRecord, TaskPC
  <2>3. /\ task' = [task EXCEPT ![i] = n] /\ lost' \subseteq Case
        /\ lock' = [lock EXCEPT ![c] = i]
    BY <1>1, <1>6 DEF InlineSync, Computed, TypeInv
  <2>4. lock'[c] = i
    BY <1>2, <2>3 DEF TypeInv
  <2> HIDE DEF n
  <2>5. TaskFits(lock', version', i, n)
    BY <1>1, <1>2, <2>1, <2>2, <2>4 DEF TaskFits
  <2> QED BY <1>3, <2>2, <2>3, <2>5
<1>7. CASE \/ InlineCommit(i) \/ InlineError(i)
           \/ InlineSync(i) /\ (~ RequiresSync(InlineTypes(i)) \/ lock[c] # None)
  <2>1. PICK m, n : Passed(i, c, m, n)
    BY <1>7, TaskPasses
  <2>2. n \in TaskRecord /\ TaskFits(lock', version', i, n) /\ lost' \subseteq Case
    BY <1>1, <2>1, PassedFits
  <2>3. task' = [task EXCEPT ![i] = n]
    BY <2>1 DEF Passed
  <2> QED BY <1>3, <2>2, <2>3
<1> QED BY <1>4, <1>5, <1>6, <1>7 DEF TaskSteps

\* A step of a callback keeps the types.
LEMMA TaskType ==
  ASSUME TypeInv, NEW i \in Task, TaskSteps(i)
  PROVE  TypeInv'
<1>1. /\ UNCHANGED <<version, defs, marker, con, changes>> /\ task[i].pc \in Open
      /\ faults' = faults \/ Fault
      /\ UNCHANGED stream \/ PublishChange(i)
      /\ UNCHANGED synced \/ InlineCommit(i)
  BY TaskLeaves
<1>2. synced' \in [Case -> Nat] /\ \A c \in Case : synced'[c] <= version'[c]
  <2>1. CASE UNCHANGED synced
    BY <1>1, <2>1 DEF TypeInv
  <2>2. CASE InlineCommit(i)
    <3> DEFINE c == Min(task[i].todo)
    <3>1. c \in Case /\ task[i].read \in Nat /\ task[i].read <= version[c]
      BY <1>1, <2>2, TaskFacts DEF InlineCommit
    <3>2. synced' = [synced EXCEPT ![c] = task[i].read]
      BY <2>2 DEF InlineCommit, SyncedTo
    <3> HIDE DEF c
    <3> QED BY <1>1, <3>1, <3>2 DEF TypeInv
  <2> QED BY <1>1, <2>1, <2>2
<1>3. faults' \in 0..MaxEvents
  BY <1>1, SyncConstants DEF Fault, TypeInv
<1>4. new' \subseteq Entry /\ pending' \subseteq Entry /\ new' \cap pending' = {}
  <2>1. CASE UNCHANGED stream
    BY <2>1 DEF stream, TypeInv
  <2>2. CASE PublishChange(i)
    <3>1. task[i].job \in Job /\ Publish(task[i].job)
      BY <1>1, <2>2, TaskFacts DEF PublishChange
    <3> QED BY <3>1, PublishFacts DEF TypeInv, Stream
  <2> QED BY <1>1, <2>1, <2>2
<1>5. lock' \in [Case -> Worker \cup {None}]
  BY TaskLocks
<1>6. WorkersFit /\ lost' \subseteq Case /\ \E n : task' = [task EXCEPT ![i] = n]
  BY TaskShapes
<1>7. \A k \in Task : k > changes' => task'[k].pc = "none"
  <2>1. \A k \in Task \ {i} : task'[k] = task[k]
    BY <1>6 DEF TypeInv
  <2>2. ~ (i > changes)
    BY <1>1 DEF TypeInv, Open
  <2> QED BY <1>1, <2>1, <2>2 DEF TypeInv
<1> QED BY <1>1, <1>2, <1>3, <1>4, <1>5, <1>6, <1>7 DEF TypeInv, WorkersFit

\* A change adds a callback where there was none.
LEMMA NewTaskFacts ==
  ASSUME TypeInv, NEW j \in ChangeJob, NewTask(j, Scope(j))
  PROVE  /\ changes' = changes + 1 /\ changes' \in Task /\ changes' \in 0..MaxEvents
         /\ task[changes'].pc = "none"
         /\ \E n \in TaskRecord :
              /\ task' = [task EXCEPT ![changes'] = n]
              /\ n.pc = "publish" /\ n.job = j /\ n.todo = Scope(j)
<1>1. changes' = changes + 1 /\ changes' \in Task /\ changes' \in 0..MaxEvents
  BY SyncConstants DEF NewTask, TypeInv, Task
<1>2. task[changes'].pc = "none"
  BY <1>1 DEF TypeInv
<1> DEFINE n == [IdleTask EXCEPT !.pc = "publish", !.job = j, !.todo = Scope(j)]
<1>3. task' = [task EXCEPT ![changes'] = n]
  BY DEF NewTask
<1>4. j \in Job /\ Scope(j) \subseteq Case /\ 0 \in 0..InlineAttempts - 1
  BY ChangeCovers, SyncConstants
<1>5. ASSUME NEW k, k = n
      PROVE  k \in TaskRecord /\ k.pc = "publish" /\ k.job = j /\ k.todo = Scope(j)
  <2>1. k = [pc |-> "publish", job |-> j, todo |-> Scope(j), missed |-> FALSE, tries |-> 0,
             read |-> 0]
    BY <1>5 DEF IdleTask
  <2> QED BY <1>4, <2>1 DEF TaskRecord, TaskPC
<1> HIDE DEF n
<1> QED BY <1>1, <1>2, <1>3, <1>5

\* A change keeps the types.
LEMMA ChangeType ==
  ASSUME TypeInv, Change
  PROVE  TypeInv'
<1>1. /\ UNCHANGED <<synced, lock, stream, marker, con, faults, lost>>
      /\ version' \in [Case -> Nat] /\ VersionsGrow /\ defs' \in Definitions
      /\ \E j \in ChangeJob : NewTask(j, Scope(j))
  <2>1. ASSUME NEW c \in Case, NEW ty \in EventType, CaseEvent(c, ty)
        PROVE  /\ UNCHANGED <<synced, lock, stream, marker, con, faults, lost>>
               /\ version' \in [Case -> Nat] /\ VersionsGrow /\ defs' \in Definitions
               /\ \E j \in ChangeJob : NewTask(j, Scope(j))
    <3>1. Event(c, ty) \in ChangeJob /\ Scope(Event(c, ty)) = {c}
      BY JobFacts DEF Scope
    <3>2. version' \in [Case -> Nat] /\ VersionsGrow
      BY <2>1 DEF CaseEvent, TypeInv, VersionsGrow
    <3> QED BY <2>1, <3>1, <3>2 DEF CaseEvent, TypeInv
  <2>2. ASSUME NEW D \in Definitions, ChangeDefinitions(D)
        PROVE  /\ UNCHANGED <<synced, lock, stream, marker, con, faults, lost>>
               /\ version' \in [Case -> Nat] /\ VersionsGrow /\ defs' \in Definitions
               /\ \E j \in ChangeJob : NewTask(j, Scope(j))
    <3>1. Definition \in ChangeJob /\ Scope(Definition) = Case
      BY JobFacts DEF Scope
    <3>2. version' \in [Case -> Nat] /\ VersionsGrow
      BY <2>2 DEF ChangeDefinitions, TypeInv, VersionsGrow
    <3> QED BY <2>2, <3>1, <3>2 DEF ChangeDefinitions
  <2> QED BY <2>1, <2>2 DEF Change
<1>2. PICK j \in ChangeJob : NewTask(j, Scope(j))
  BY <1>1
<1>3. changes' = changes + 1 /\ changes' \in Task /\ changes' \in 0..MaxEvents
  BY <1>2, NewTaskFacts
<1>4. PICK n \in TaskRecord : /\ task' = [task EXCEPT ![changes'] = n]
                              /\ n.pc = "publish" /\ n.job = j /\ n.todo = Scope(j)
  BY <1>2, NewTaskFacts
<1>5. TaskFits(lock', version', changes', n)
  BY <1>4, ChangeCovers DEF TaskFits, Open
<1>6. \A v \in Worker : LockKept(v)
  BY <1>1 DEF LockKept
<1>7. WorkersFit
  BY <1>1, <1>3, <1>4, <1>5, <1>6, TaskMoves
<1>8. \A k \in Task : k > changes' => task'[k].pc = "none"
  BY <1>3, <1>4 DEF TypeInv, Task
<1>9. \A c \in Case : synced'[c] <= version'[c]
  BY <1>1 DEF TypeInv, VersionsGrow
<1> QED BY <1>1, <1>3, <1>7, <1>8, <1>9 DEF TypeInv, WorkersFit, stream

\* A lease lapses or the consumer group starts anew: no worker moves.
QuietSteps == LeaseLapses \/ SlowLease \/ GroupRecreated

\* The steps by who takes them.
LEMMA NextSteps ==
  ASSUME Next
  PROVE  \/ Change \/ QuietSteps
         \/ \E i \in Task : TaskSteps(i)
         \/ \E w \in Consumer : ConSteps(w)
  BY DEF Next, Callback, Consume, Faulty, QuietSteps, TaskSteps, ConSteps

\* A deployment before or after its rollout fits the types.
LEMMA InitType == Init => TypeInv
<1> SUFFICES ASSUME Init PROVE TypeInv
  OBVIOUS
<1>1. /\ version \in [Case -> Nat] /\ synced \in [Case -> Nat]
      /\ \A c \in Case : synced[c] <= version[c]
  BY DEF Init
<1>2. changes \in 0..MaxEvents /\ faults \in 0..MaxEvents
  BY SyncConstants DEF Init
<1>3. con \in [Consumer -> ConRecord] /\ \A w \in Consumer : con[w] = IdleConsumer
  BY IdleFacts DEF Init
<1>4. \A w \in Consumer : ConFits(lock, version, w, con[w])
  BY <1>3, IdleFacts DEF ConFits
<1>5. IdleTask \in TaskRecord /\ IdleTask.pc = "none"
  <2>1. 0 \in 0..InlineAttempts - 1
    BY SyncConstants
  <2> QED BY <2>1 DEF IdleTask, TaskRecord, TaskPC
<1>6. task \in [Task -> TaskRecord] /\ \A i \in Task : task[i] = IdleTask
  BY <1>5 DEF Init
<1>7. \A i \in Task : TaskFits(lock, version, i, task[i]) /\ task[i].pc = "none"
  BY <1>5, <1>6 DEF TaskFits, Open
<1>8. /\ defs \in Definitions /\ lock \in [Case -> Worker \cup {None}]
      /\ new \subseteq Entry /\ pending \subseteq Entry /\ new \cap pending = {}
      /\ marker \in {None, "pending", "done"} /\ lost \subseteq Case
  BY DEF Init
<1> QED BY <1>1, <1>2, <1>3, <1>4, <1>6, <1>7, <1>8 DEF TypeInv

\* Every step keeps the types.
LEMMA TypeStep == TypeInv /\ [Next]_vars => TypeInv'
<1> SUFFICES ASSUME TypeInv, [Next]_vars PROVE TypeInv'
  OBVIOUS
<1>1. CASE UNCHANGED vars
  BY <1>1 DEF vars, dbVars, stream, TypeInv
<1>2. CASE QuietSteps
  <2>1. UNCHANGED <<dbVars, lock, con, task, changes, lost>>
    BY <1>2 DEF QuietSteps, LeaseLapses, SlowLease, GroupRecreated
  <2>2. faults' = faults \/ Fault
    BY <1>2 DEF QuietSteps, LeaseLapses, SlowLease, GroupRecreated
  <2>3. faults' \in 0..MaxEvents
    BY <2>2, SyncConstants DEF Fault, TypeInv
  <2>4. marker' \in {None, "pending", "done"}
    BY <1>2 DEF QuietSteps, LeaseLapses, SlowLease, GroupRecreated, TypeInv
  <2>5. new' \subseteq Entry /\ pending' \subseteq Entry /\ new' \cap pending' = {}
    BY <1>2 DEF QuietSteps, LeaseLapses, SlowLease, GroupRecreated, TypeInv, stream
  <2> QED BY <2>1, <2>3, <2>4, <2>5 DEF TypeInv, dbVars
<1> QED BY <1>1, <1>2, NextSteps, ChangeType, TaskType, ConType

\* The database, the stream, the consumers and the callbacks keep their shape in
\* every behaviour; in particular the rows are never ahead of the changes.
THEOREM SyncTypes == Spec => []TypeOK
<1>1. TypeInv => TypeOK
  <2> SUFFICES ASSUME TypeInv PROVE TypeOK
    OBVIOUS
  <2>1. \A w \in Consumer :
          /\ con[w].pc \in ConPC /\ con[w].batch \cup con[w].acks \subseteq Entry
          /\ con[w].job \in Job \cup {None} /\ con[w].out \subseteq Job
          /\ con[w].tries \in 0..SyncAttempts - 1
    BY DEF TypeInv, ConRecord
  <2>2. 0..SyncAttempts - 1 \subseteq 0..SyncAttempts
    BY SyncConstants
  <2>3. \A i \in Task : /\ task[i].pc \in TaskPC /\ task[i].todo \subseteq Case
                        /\ task[i].tries \in 0..InlineAttempts - 1
    BY DEF TypeInv, TaskRecord
  <2>4. 0..InlineAttempts - 1 \subseteq 0..InlineAttempts
    BY SyncConstants
  <2> QED BY <2>1, <2>2, <2>3, <2>4 DEF TypeOK, TypeInv, ConPC, TaskPC
<1> QED BY <1>1, InitType, TypeStep, PTL DEF Spec

-----------------------------------------------------------------------------
(* No change is lost.                                                      *)

\* Consumer w moves to n, and the entries it acknowledges may go.
LEMMA ConKept ==
  ASSUME TypeInv, NEW w \in Consumer, NEW n, Set(w, n), UNCHANGED <<task, lost>>,
         NEW c \in Case, NEW A, NEW k, Kept(Stream, con, task, lost, c, A, k),
         \A e \in Stream : e \in Stream' \/ (e \in con[w].acks /\ con[w].pc = "ack"),
         Spends(n, c) => \A e \in n.acks : Covers(e.job, c) =>
                           e \in con[w].acks /\ Spends(con[w], c)
  PROVE  Kept(Stream', con', task', lost', c, A, k)
<1>1. \A v \in Consumer : con'[v] = IF v = w THEN n ELSE con[v]
  BY DEF TypeInv, Set
<1>2. CASE c \in lost
  BY <1>2 DEF Kept
<1>3. CASE \E i \in Task : Counts(task[i], c) /\ (i = k => task[i].missed)
  BY <1>3 DEF Kept
<1>4. ASSUME NEW e \in Stream \ A, Covers(e.job, c),
             \A v \in Consumer : ~ (e \in con[v].acks /\ Spends(con[v], c))
      PROVE  Kept(Stream', con', task', lost', c, A, k)
  <2>1. e \in Stream'
    BY <1>4 DEF Spends
  <2>2. ASSUME NEW v \in Consumer PROVE ~ (e \in con'[v].acks /\ Spends(con'[v], c))
    <3>1. CASE v = w
      BY <1>1, <1>4, <3>1
    <3>2. CASE v # w
      BY <1>1, <1>4, <3>2
    <3> QED BY <3>1, <3>2
  <2> QED BY <1>4, <2>1, <2>2 DEF Kept
<1> QED BY <1>2, <1>3, <1>4 DEF Kept

\* An entry that was just published counts.
LEMMA PublishKept ==
  ASSUME TypeInv, NEW j \in Job, Publish(j), NEW c \in Case, Covers(j, c), NEW A, NEW k,
         A = {} \/ \E w \in Consumer : A = con[w].acks,
         \A v \in Consumer : con'[v].acks = con[v].acks
  PROVE  Kept(Stream', con', task', lost', c, A, k)
<1>1. PICK e \in Entry : /\ e.job = j /\ e \notin Stream
                         /\ \A w \in Consumer : e \notin con[w].acks
                         /\ new' = new \cup {e} /\ pending' = pending
  BY PublishFacts
<1>2. e \in Stream' \ A /\ Covers(e.job, c)
  BY <1>1 DEF Stream
<1> QED BY <1>1, <1>2 DEF Kept

\* The entries that a consumer takes up for one case, or for a page.
LEMMA AcksCover ==
  ASSUME NEW r, NEW c \in Case, NEW e \in r.acks, Covers(e.job, c)
  PROVE  /\ CaseFits(r) => r.job = CaseJob(c) /\ r.job.case = c /\ Covers(r.job, c)
         /\ PageFits(r) => Covers(r.job, c)
<1>1. ASSUME CaseFits(r) PROVE r.job = CaseJob(c) /\ r.job.case = c /\ Covers(r.job, c)
  <2>1. PICK d \in Case : /\ r.job = CaseJob(d)
                          /\ e.job.case = d /\ e.job.kind \in {"case", "event"}
    BY <1>1 DEF CaseFits
  <2>2. d = c
    BY <2>1 DEF Covers
  <2> QED BY <2>1, <2>2, JobFacts DEF Covers
<1>2. ASSUME PageFits(r) PROVE Covers(r.job, c)
  BY <1>2 DEF PageFits
<1> QED BY <1>1, <1>2

\* Events of no type in use need no sync.
LEMMA SkippedCover ==
  ASSUME NEW r, CaseFits(r), ~ RequiresSync(r.types), NEW c \in Case, NEW e \in r.acks
  PROVE  ~ Covers(e.job, c)
<1>1. r.types = TypesOf(r.acks) /\ r.types # {} /\ r.types \cap defs = {}
  BY DEF CaseFits, RequiresSync
<1>2. e.job.kind \in {"case", "event"}
  BY DEF CaseFits
<1>3. e.job.kind # "case" /\ e.job.type \in r.types
  BY <1>1 DEF TypesOf
<1> QED BY <1>1, <1>2, <1>3 DEF Covers

\* A step of a consumer leaves case c looked after, unless it commits its sync.
LEMMA ConStepKept ==
  ASSUME TypeInv, NEW w \in Consumer, ConSteps(w), NEW c \in Case, NEW A, NEW k,
         Kept(Stream, con, task, lost, c, A, k),
         A = {} \/ \E v \in Consumer : A = con[v].acks,
         ~ (CommitCase(w) /\ con[w].job.case = c)
  PROVE  Kept(Stream', con', task', lost', c, A, k)
<1> DEFINE r == con[w]
<1>1. UNCHANGED <<task, lost>> /\ r \in ConRecord /\ con \in [Consumer -> ConRecord]
  BY ConLeaves, ConFacts DEF TypeInv
<1>2. \A n : Set(w, n) => \A v \in Consumer : con'[v] = IF v = w THEN n ELSE con[v]
  BY <1>1 DEF Set
<1>3. ASSUME NEW n, Set(w, n), Stream \subseteq Stream',
             Spends(n, c) => \A e \in n.acks : Covers(e.job, c) =>
                               e \in r.acks /\ Spends(r, c)
      PROVE  Kept(Stream', con', task', lost', c, A, k)
  BY <1>1, <1>3, ConKept
<1>4. ASSUME NEW p \in {"idle", "rollout", "mark", "ack", "computed"}
      PROVE  LET n == [r EXCEPT !.pc = p] IN n.pc = p /\ n.acks = r.acks
  BY <1>1 DEF ConRecord
<1>5. CASE \/ ReadGroup(w) \/ ClaimIdle(w) \/ \E v \in Consumer : ClaimFromSlow(w, v)
           \/ PageFails(w) \/ SyncError(w) \/ RequeueFails(w) \/ AckAndDelete(w)
           \/ AckFails(w) \/ Crash(w)
           \/ (SyncCase(w) /\ RequiresSync(r.types) /\ lock[r.job.case] # None)
  <2>1. PICK n, B : Set(w, n) /\ Fresh(B, n)
    BY <1>5, FreshSteps
  <2>2. Spends(n, c) => \A e \in n.acks : ~ Covers(e.job, c)
    BY <2>1 DEF Fresh
  <2>3. \A e \in Stream : e \in Stream' \/ (e \in r.acks /\ r.pc = "ack")
    <3>1. CASE ReadGroup(w) \/ ClaimIdle(w) \/ \E v \in Consumer : ClaimFromSlow(w, v)
      <4>1. PICK D \in SUBSET Entry : Deliver(w, D)
        BY <3>1, DeliverFacts
      <4> QED BY <4>1 DEF Deliver, Stream
    <3>2. CASE AckAndDelete(w)
      BY <3>2 DEF AckAndDelete, Stream, At
    <3>3. CASE PageFails(w) \/ SyncError(w) \/ RequeueFails(w) \/ AckFails(w) \/ Crash(w)
               \/ SyncCase(w)
      BY <3>3 DEF PageFails, SyncError, RequeueFails, AckFails, Crash, SyncCase, stream,
                  Stream
    <3> QED BY <1>5, <3>1, <3>2, <3>3
  <2> QED BY <1>1, <2>1, <2>2, <2>3, ConKept
<1>6. CASE TakeLease(w) \/ RolloutPublish(w) \/ RolloutFails(w) \/ RolloutMark(w)
  <2>1. PICK p \in {"idle", "rollout", "mark"} : Set(w, [r EXCEPT !.pc = p])
    BY <1>6 DEF TakeLease, RolloutPublish, RolloutFails, RolloutMark
  <2>2. Stream \subseteq Stream'
    BY <1>6 DEF TakeLease, RolloutPublish, RolloutFails, RolloutMark, Publish, stream, Stream
  <2> DEFINE n == [r EXCEPT !.pc = p]
  <2>3. n.pc = p
    BY <1>4
  <2> HIDE DEF n
  <2>4. ~ Spends(n, c)
    BY <2>3 DEF Spends
  <2> QED BY <1>3, <2>1, <2>2, <2>4 DEF n
<1>7. CASE CommitCase(w) \/ (SyncCase(w) /\ ~ RequiresSync(r.types))
  <2> DEFINE n == [r EXCEPT !.pc = "ack"]
  <2>1. Set(w, n) /\ Stream \subseteq Stream' /\ r.pc \in {"sync", "computed"}
    BY <1>7 DEF CommitCase, SyncCase, stream, Stream, At
  <2>2. n.acks = r.acks /\ CaseFits(r)
    BY <1>4, <2>1, ConFacts
  <2>3. \A e \in r.acks : ~ Covers(e.job, c)
    <3>1. CASE CommitCase(w)
      BY <2>2, <3>1, AcksCover
    <3>2. CASE ~ RequiresSync(r.types)
      BY <2>2, <3>2, SkippedCover
    <3> QED BY <1>7, <3>1, <3>2
  <2> HIDE DEF n
  <2> QED BY <1>3, <2>1, <2>2, <2>3
<1>8. CASE SyncCase(w) /\ RequiresSync(r.types) /\ lock[r.job.case] = None
  <2> DEFINE n == [r EXCEPT !.pc = "computed", !.read = version[r.job.case]]
  <2>1. Set(w, n) /\ Stream \subseteq Stream'
    BY <1>8 DEF SyncCase, stream, Stream
  <2>2. n.pc = "computed"
    BY <1>1 DEF ConRecord
  <2> HIDE DEF n
  <2> QED BY <1>3, <2>1, <2>2 DEF Spends
<1>9. CASE Requeue(w)
  <2> DEFINE n == [r EXCEPT !.pc = "ack"]
  <2>1. Set(w, n) /\ Publish(r.job) /\ r.pc = "requeue" /\ Stream \subseteq Stream'
    BY <1>9 DEF Requeue, Publish, Stream, At
  <2>2. n.acks = r.acks /\ (CaseFits(r) \/ PageFits(r)) /\ r.job \in Job
    BY <1>4, <2>1, ConFacts
  <2> HIDE DEF n
  <2>3. CASE Covers(r.job, c)
    <3>1. \A v \in Consumer : con'[v].acks = con[v].acks
      BY <1>2, <2>1, <2>2
    <3> QED BY <2>1, <2>2, <2>3, <3>1, PublishKept
  <2>4. CASE ~ Covers(r.job, c)
    <3>1. \A e \in n.acks : ~ Covers(e.job, c)
      BY <2>2, <2>4, AcksCover
    <3> QED BY <1>3, <2>1, <3>1
  <2> QED BY <2>3, <2>4
<1>10. CASE PublishPage(w)
  <2>1. PICK j \in r.out :
          /\ Publish(j)
          /\ Set(w, [r EXCEPT !.out = @ \ {j}, !.pc = IF r.out = {j} THEN "ack" ELSE "page"])
    BY <1>10 DEF PublishPage
  <2> DEFINE n == [r EXCEPT !.out = @ \ {j}, !.pc = IF r.out = {j} THEN "ack" ELSE "page"]
  <2>2. /\ r.pc = "page" /\ j \in Job /\ Stream \subseteq Stream'
    BY <1>1, <1>10, <2>1 DEF PublishPage, Publish, Stream, At, ConRecord
  <2>3. n.acks = r.acks /\ n.out = r.out \ {j} /\ n.pc = IF r.out = {j} THEN "ack" ELSE "page"
    BY <1>1 DEF ConRecord
  <2>4. Set(w, n)
    BY <2>1
  <2> HIDE DEF n
  <2>5. CASE Covers(j, c)
    <3>1. \A v \in Consumer : con'[v].acks = con[v].acks
      BY <1>2, <2>3, <2>4
    <3> QED BY <2>1, <2>2, <2>5, <3>1, PublishKept
  <2>6. CASE ~ Covers(j, c)
    <3>1. Spends(n, c) => Spends(r, c)
      BY <2>2, <2>3, <2>6 DEF Spends
    <3> QED BY <1>3, <2>2, <2>3, <2>4, <3>1
  <2> QED BY <2>5, <2>6
<1> QED BY <1>5, <1>6, <1>7, <1>8, <1>9, <1>10 DEF ConSteps

\* Callback i moves to n, or gives up on its cases.
LEMMA TaskKept ==
  ASSUME TypeInv, NEW i \in Task, NEW n, task' = [task EXCEPT ![i] = n], UNCHANGED con,
         Stream \subseteq Stream', lost \subseteq lost',
         NEW c \in Case, NEW A, NEW k, Kept(Stream, con, task, lost, c, A, k), NEW l,
         l # i => l = k,
         Counts(task[i], c) /\ (i = k => task[i].missed) =>
           c \in lost' \/ (Counts(n, c) /\ (i = l => n.missed))
  PROVE  Kept(Stream', con', task', lost', c, A, l)
<1>1. \A m \in Task : task'[m] = IF m = i THEN n ELSE task[m]
  BY DEF TypeInv
<1>2. CASE c \in lost
  BY <1>2 DEF Kept
<1>3. CASE \E e \in Stream \ A : /\ Covers(e.job, c)
                                 /\ \A w \in Consumer : ~ (e \in con[w].acks /\ Spends(con[w], c))
  BY <1>3 DEF Kept
<1>4. ASSUME NEW m \in Task, Counts(task[m], c), m = k => task[m].missed
      PROVE  Kept(Stream', con', task', lost', c, A, l)
  <2>1. CASE m = i
    <3>1. c \in lost' \/ (Counts(n, c) /\ (i = l => n.missed))
      BY <1>4, <2>1
    <3>2. CASE c \in lost'
      BY <3>2 DEF Kept
    <3>3. CASE Counts(n, c) /\ (i = l => n.missed)
      <4>1. Counts(task'[i], c) /\ (i = l => task'[i].missed)
        BY <1>1, <3>3
      <4> QED BY <4>1 DEF Kept
    <3> QED BY <3>1, <3>2, <3>3
  <2>2. CASE m # i
    <3>1. Counts(task'[m], c) /\ (m = l => task'[m].missed)
      BY <1>1, <1>4, <2>2
    <3> QED BY <3>1 DEF Kept
  <2> QED BY <2>1, <2>2
<1> QED BY <1>2, <1>3, <1>4 DEF Kept

\* Case c stays looked after when a pass goes on after case d.
LEMMA PassedCounts ==
  ASSUME TypeInv, NEW i \in Task, task[i].pc \in Open, NEW d, NEW m, NEW n,
         Passed(i, d, m, n), task[i].missed => m,
         NEW c \in Case, Counts(task[i], c), task[i].missed \/ c # d \/ m
  PROVE  c \in lost' \/ Counts(n, c)
<1>1. Covers(task[i].job, c) /\ (task[i].missed \/ c \in task[i].todo)
  BY DEF Counts
<1>2. c \in Scope(task[i].job)
  BY <1>1, TaskFacts, ChangeCovers
<1> QED BY <1>1, <1>2 DEF Passed, Counts, Open

\* A change of a type that is not in use concerns no case.
LEMMA SkippedChange ==
  ASSUME TypeInv, NEW i \in Task, task[i].pc \in Open, ~ RequiresSync(InlineTypes(i)),
         NEW c \in Case
  PROVE  ~ Covers(task[i].job, c)
  BY TaskFacts, ChangeCovers DEF RequiresSync, InlineTypes

\* A step of a callback leaves case c looked after, unless it commits its sync.
LEMMA TaskStepKept ==
  ASSUME TypeInv, NEW i \in Task, TaskSteps(i), NEW c \in Case, NEW A, NEW k,
         Kept(Stream, con, task, lost, c, A, k), k # i,
         A = {} \/ \E v \in Consumer : A = con[v].acks,
         ~ (InlineCommit(i) /\ Min(task[i].todo) = c)
  PROVE  Kept(Stream', con', task', lost', c, A, k)
<1> DEFINE t == task[i]
           d == Min(t.todo)
<1>1. /\ UNCHANGED con /\ t.pc \in Open /\ t \in TaskRecord
      /\ t.job \in ChangeJob /\ t.job \in Job /\ InlineScope(i) = Scope(t.job)
      /\ t.todo \subseteq Scope(t.job)
  BY TaskLeaves, TaskFacts
<1>2. Counts(t, c) => c \in Scope(t.job)
  BY <1>1, ChangeCovers DEF Counts
<1>3. ASSUME NEW n, task' = [task EXCEPT ![i] = n], Stream \subseteq Stream',
             lost \subseteq lost', Counts(t, c) => c \in lost' \/ Counts(n, c)
      PROVE  Kept(Stream', con', task', lost', c, A, k)
  BY <1>1, <1>3, TaskKept
<1>4. CASE PublishChange(i)
  <2>1. Publish(t.job) /\ TaskOver(i) /\ UNCHANGED lost /\ Stream \subseteq Stream'
    BY <1>4 DEF PublishChange, Publish, Stream
  <2>2. CASE Covers(t.job, c)
    BY <1>1, <2>1, <2>2, PublishKept
  <2>3. CASE ~ Covers(t.job, c)
    <3>1. ~ Counts(t, c)
      BY <2>3 DEF Counts
    <3> QED BY <1>3, <2>1, <3>1 DEF TaskOver
  <2> QED BY <2>2, <2>3
<1>5. CASE ProcessDies(i)
  <2>1. TaskOver(i) /\ lost' = lost \cup Scope(t.job) /\ Stream \subseteq Stream'
    BY <1>1, <1>5 DEF ProcessDies, stream, Stream
  <2> QED BY <1>2, <1>3, <2>1 DEF TaskOver
<1>6. CASE PublishFails(i)
  <2> DEFINE n == [t EXCEPT !.pc = "inline"]
  <2>1. n.pc = "inline" /\ n.job = t.job /\ n.todo = t.todo /\ n.missed = t.missed
    BY <1>1 DEF TaskRecord
  <2>2. task' = [task EXCEPT ![i] = n] /\ UNCHANGED lost /\ Stream \subseteq Stream'
    BY <1>6 DEF PublishFails, stream, Stream, TypeInv
  <2> HIDE DEF n
  <2>3. Counts(t, c) => Counts(n, c)
    BY <2>1 DEF Counts, Open
  <2> QED BY <1>3, <2>2, <2>3
<1>7. CASE InlineSync(i) /\ RequiresSync(InlineTypes(i)) /\ lock[d] = None
  <2> DEFINE n == [t EXCEPT !.pc = "computed", !.read = version[d]]
  <2>1. n.pc = "computed" /\ n.job = t.job /\ n.todo = t.todo /\ n.missed = t.missed
    BY <1>1 DEF TaskRecord
  <2>2. task' = [task EXCEPT ![i] = n] /\ UNCHANGED lost /\ Stream \subseteq Stream'
    BY <1>7 DEF InlineSync, stream, Stream, TypeInv
  <2> HIDE DEF n
  <2>3. Counts(t, c) => Counts(n, c)
    BY <2>1 DEF Counts, Open
  <2> QED BY <1>3, <2>2, <2>3
<1>8. CASE \/ InlineCommit(i) \/ InlineError(i)
           \/ InlineSync(i) /\ (~ RequiresSync(InlineTypes(i)) \/ lock[d] # None)
  <2>1. Stream \subseteq Stream'
    BY <1>8 DEF InlineCommit, InlineError, InlineSync, stream, Stream
  <2>2. ASSUME NEW m, NEW n, Passed(i, d, m, n), t.missed => m,
               Counts(t, c) => t.missed \/ c # d \/ m
        PROVE  Kept(Stream', con', task', lost', c, A, k)
    <3>1. task' = [task EXCEPT ![i] = n] /\ lost \subseteq lost'
      BY <2>2 DEF Passed
    <3>2. Counts(t, c) => c \in lost' \/ Counts(n, c)
      BY <1>1, <2>2, PassedCounts
    <3> QED BY <1>3, <2>1, <3>1, <3>2
  <2>3. CASE InlineCommit(i)
    <3>1. PICK n : Passed(i, d, t.missed, n)
      BY <2>3, TaskPasses
    <3> QED BY <2>2, <2>3, <3>1
  <2>4. CASE InlineSync(i) /\ ~ RequiresSync(InlineTypes(i))
    <3>1. PICK n : Passed(i, d, t.missed, n)
      BY <2>4, TaskPasses
    <3>2. ~ Counts(t, c)
      BY <1>1, <2>4, SkippedChange DEF Counts
    <3> QED BY <2>2, <3>1, <3>2
  <2>5. CASE InlineError(i) \/ (InlineSync(i) /\ RequiresSync(InlineTypes(i)) /\ lock[d] # None)
    <3>1. PICK n : Passed(i, d, TRUE, n)
      BY <2>5, TaskPasses
    <3> QED BY <2>2, <3>1
  <2> QED BY <1>8, <2>3, <2>4, <2>5
<1> QED BY <1>4, <1>5, <1>6, <1>7, <1>8 DEF TaskSteps

\* A consumer commits what it computed of case c, and its entries are spent.
LEMMA ConCommitKept ==
  ASSUME TypeInv, NEW w \in Consumer, CommitCase(w), NEW c \in Case,
         Kept(Stream, con, task, lost, c, con[w].acks, None)
  PROVE  Kept(Stream', con', task', lost', c, {}, None)
<1> DEFINE n == [con[w] EXCEPT !.pc = "ack"]
<1>1. n.acks = con[w].acks /\ \A v \in Consumer : con'[v] = IF v = w THEN n ELSE con[v]
  BY ConFacts DEF CommitCase, Set, ConRecord, TypeInv
<1>2. UNCHANGED <<task, lost>> /\ Stream' = Stream
  BY DEF CommitCase, stream, Stream
<1> HIDE DEF n
<1>3. CASE c \in lost \/ \E i \in Task : Counts(task[i], c) /\ (i = None => task[i].missed)
  BY <1>2, <1>3 DEF Kept
<1>4. ASSUME NEW e \in Stream \ con[w].acks, Covers(e.job, c),
             \A v \in Consumer : ~ (e \in con[v].acks /\ Spends(con[v], c))
      PROVE  Kept(Stream', con', task', lost', c, {}, None)
  <2>1. \A v \in Consumer : ~ (e \in con'[v].acks /\ Spends(con'[v], c))
    BY <1>1, <1>4
  <2> QED BY <1>2, <1>4, <2>1 DEF Kept
<1> QED BY <1>3, <1>4 DEF Kept

\* A callback commits what it computed of case c.
LEMMA TaskCommitKept ==
  ASSUME TypeInv, NEW i \in Task, InlineCommit(i), NEW c \in Case, c = Min(task[i].todo),
         Kept(Stream, con, task, lost, c, {}, i)
  PROVE  Kept(Stream', con', task', lost', c, {}, None)
<1>1. PICK n : Passed(i, c, task[i].missed, n)
  BY TaskPasses
<1>2. task[i].pc \in Open /\ UNCHANGED con /\ Stream \subseteq Stream' /\ i # None
  BY CaseFacts DEF InlineCommit, Open, stream, Stream, Worker
<1>3. task' = [task EXCEPT ![i] = n] /\ lost \subseteq lost'
  BY <1>1 DEF Passed
<1>4. Counts(task[i], c) /\ task[i].missed => c \in lost' \/ Counts(n, c)
  BY <1>1, <1>2, PassedCounts
<1>5. Kept(Stream', con', task', lost', c, {}, i) \/ Kept(Stream', con', task', lost', c, {}, None)
  <2>1. CASE Counts(task[i], c) /\ task[i].missed
    <3>1. CASE c \in lost'
      BY <3>1 DEF Kept
    <3>2. CASE Counts(n, c)
      <4>1. Counts(task'[i], c)
        BY <1>3, <3>2 DEF TypeInv
      <4> QED BY <1>2, <4>1 DEF Kept
    <3> QED BY <1>4, <2>1, <3>1, <3>2
  <2>2. CASE ~ (Counts(task[i], c) /\ task[i].missed)
    BY <1>2, <1>3, <2>2, TaskKept
  <2> QED BY <2>1, <2>2
<1>6. i \in Task /\ None \notin Task
  BY CaseFacts DEF Worker
<1> QED BY <1>5, <1>6 DEF Kept

\* The invariant after a step that leaves the definitions alone.
KeptNext ==
  /\ \A c \in Case : \/ synced'[c] = version'[c] \/ Unrolled'
                     \/ Kept(Stream', con', task', lost', c, {}, None)
  /\ \A w \in Consumer, c \in Case : con'[w].pc = "computed" /\ con'[w].job.case = c =>
       \/ con'[w].read = version'[c]
       \/ Kept(Stream', con', task', lost', c, con'[w].acks, None)
  /\ \A i \in Task, c \in Case : task'[i].pc = "computed" /\ c = Min(task'[i].todo) =>
       \/ task'[i].read = version'[c]
       \/ Kept(Stream', con', task', lost', c, {}, i)

\* It is the invariant of the next state.
LEMMA KeptPrimed ==
  ASSUME UNCHANGED defs, KeptNext
  PROVE  KeptInv'
  BY DEF KeptNext, KeptInv, Kept, Spends, Counts, Covers

\* Two workers have not computed the same case.
LEMMA OneCommits ==
  ASSUME TypeInv, NEW c \in Case
  PROVE  /\ \A v, w \in Consumer : /\ con[v].pc = "computed" /\ con[v].job.case = c
                                   /\ con[w].pc = "computed" /\ con[w].job.case = c
                                   => v = w
         /\ \A v \in Consumer, i \in Task : /\ con[v].pc = "computed" /\ con[v].job.case = c
                                            /\ task[i].pc = "computed" /\ c = Min(task[i].todo)
                                            => FALSE
         /\ \A i, m \in Task : /\ task[i].pc = "computed" /\ c = Min(task[i].todo)
                               /\ task[m].pc = "computed" /\ c = Min(task[m].todo)
                               => i = m
  BY ConFacts, TaskFacts, CaseFacts

\* Where the step of a consumer takes it: to the mark by publishing the rollout,
\* to a computed case by reading it just now.
LEMMA ConPlace ==
  ASSUME TypeInv, NEW w \in Consumer, ConSteps(w)
  PROVE  /\ \A v \in Consumer \ {w} : con'[v] = con[v]
         /\ con'[w].pc = "mark" => RolloutPublish(w)
         /\ con'[w].pc = "computed" => con'[w].read = version[con'[w].job.case]
<1>1. \A n : Set(w, n) => con'[w] = n /\ \A v \in Consumer \ {w} : con'[v] = con[v]
  BY DEF Set, TypeInv
<1>2. \E n : Set(w, n)
  BY DEF ConSteps, TakeLease, RolloutPublish, RolloutFails, RolloutMark, ReadGroup,
     ClaimIdle, ClaimFromSlow, Deliver, PublishPage, PageFails, SyncCase, CommitCase,
     SyncError, Requeue, RequeueFails, AckAndDelete, AckFails, Crash
<1>3. con[w] \in ConRecord
  BY ConFacts
<1>4. CASE \/ ReadGroup(w) \/ ClaimIdle(w) \/ \E v \in Consumer : ClaimFromSlow(w, v)
           \/ PageFails(w) \/ SyncError(w) \/ RequeueFails(w) \/ AckAndDelete(w)
           \/ AckFails(w) \/ Crash(w)
           \/ (SyncCase(w) /\ RequiresSync(con[w].types) /\ lock[con[w].job.case] # None)
  <2>1. con'[w].pc \in {"idle", "page", "ack", "sync", "requeue"}
    BY <1>1, <1>4, FreshSteps DEF Fresh
  <2> QED BY <1>1, <1>2, <2>1
<1>5. CASE \/ TakeLease(w) \/ RolloutFails(w) \/ RolloutMark(w)
           \/ CommitCase(w) \/ Requeue(w) \/ (SyncCase(w) /\ ~ RequiresSync(con[w].types))
  <2>1. \E p \in {"idle", "rollout", "ack"} : Set(w, [con[w] EXCEPT !.pc = p])
    BY <1>5 DEF TakeLease, RolloutFails, RolloutMark, CommitCase, Requeue, SyncCase
  <2>2. con'[w].pc \in {"idle", "rollout", "ack"}
    BY <1>1, <1>3, <2>1 DEF ConRecord
  <2> QED BY <1>1, <1>2, <2>2
<1>6. CASE PublishPage(w)
  <2>1. PICK n : /\ Set(w, n)
                 /\ \E j \in con[w].out :
                      n = [con[w] EXCEPT !.out = @ \ {j},
                             !.pc = IF con[w].out = {j} THEN "ack" ELSE "page"]
    BY <1>6 DEF PublishPage
  <2>2. n.pc \in {"ack", "page"}
    BY <1>3, <2>1 DEF ConRecord
  <2> QED BY <1>1, <2>1, <2>2
<1>7. CASE SyncCase(w) /\ RequiresSync(con[w].types) /\ lock[con[w].job.case] = None
  <2> DEFINE n == [con[w] EXCEPT !.pc = "computed", !.read = version[con[w].job.case]]
  <2>1. Set(w, n)
    BY <1>7 DEF SyncCase
  <2>2. n.pc = "computed" /\ n.job = con[w].job /\ n.read = version[con[w].job.case]
    BY <1>3 DEF ConRecord
  <2> HIDE DEF n
  <2> QED BY <1>1, <2>1, <2>2
<1>8. CASE RolloutPublish(w)
  <2>1. Set(w, [con[w] EXCEPT !.pc = "mark"])
    BY <1>8 DEF RolloutPublish
  <2>2. con'[w].pc = "mark"
    BY <1>1, <1>3, <2>1 DEF ConRecord
  <2> QED BY <1>1, <1>2, <1>8, <2>2
<1> QED BY <1>4, <1>5, <1>6, <1>7, <1>8 DEF ConSteps

\* The rollout stays unpublished, or a step publishes it.
LEMMA UnrolledKept ==
  ASSUME TypeInv, Unrolled, NEW w \in Consumer, ConSteps(w), NEW c \in Case
  PROVE  Unrolled' \/ Kept(Stream', con', task', lost', c, {}, None)
<1>1. con[w].pc # "mark"
  BY DEF Unrolled
<1>2. CASE RolloutPublish(w)
  <2> DEFINE n == [con[w] EXCEPT !.pc = "mark"]
  <2>1. n.acks = con[w].acks /\ Set(w, n) /\ Publish(Definition)
    BY <1>2, ConFacts DEF RolloutPublish, ConRecord
  <2> HIDE DEF n
  <2>2. \A v \in Consumer : con'[v].acks = con[v].acks
    BY <2>1 DEF Set, TypeInv
  <2>3. Definition \in Job /\ Covers(Definition, c)
    BY JobFacts DEF Covers
  <2> QED BY <2>1, <2>2, <2>3, PublishKept
<1>3. CASE ~ RolloutPublish(w)
  <2>1. marker' # "done"
    BY <1>1, <1>3, SyncConstants DEF Unrolled, ConSteps, TakeLease, RolloutFails, RolloutMark, ReadGroup,
         ClaimIdle, ClaimFromSlow, Deliver, PublishPage, PageFails, SyncCase, CommitCase,
         SyncError, Requeue, RequeueFails, AckAndDelete, AckFails, Crash, At
  <2>2. con'[w].pc # "mark" /\ \A v \in Consumer \ {w} : con'[v] = con[v]
    BY <1>3, ConPlace
  <2> QED BY <2>1, <2>2 DEF Unrolled
<1> QED BY <1>2, <1>3

\* A step of a consumer leaves every case looked after.
LEMMA ConInv ==
  ASSUME TypeInv, KeptInv, NEW w \in Consumer, ConSteps(w)
  PROVE  KeptNext
<1>1. UNCHANGED <<version, task>> /\ (UNCHANGED synced \/ CommitCase(w))
  BY ConLeaves
<1>2. ASSUME NEW c \in Case
      PROVE  \/ synced'[c] = version'[c] \/ Unrolled'
             \/ Kept(Stream', con', task', lost', c, {}, None)
  <2>1. CASE CommitCase(w) /\ con[w].job.case = c
    <3>1. con[w].pc = "computed" /\ synced'[c] = con[w].read
      BY <2>1 DEF CommitCase, SyncedTo, At, TypeInv
    <3>2. CASE con[w].read = version[c]
      BY <1>1, <3>1, <3>2
    <3>3. CASE Kept(Stream, con, task, lost, c, con[w].acks, None)
      BY <2>1, <3>3, ConCommitKept
    <3> QED BY <2>1, <3>1, <3>2, <3>3 DEF KeptInv
  <2>2. CASE ~ (CommitCase(w) /\ con[w].job.case = c)
    <3>1. synced'[c] = synced[c]
      <4>1. CASE CommitCase(w)
        <5>1. synced' = [synced EXCEPT ![con[w].job.case] = con[w].read]
          BY <4>1 DEF CommitCase, SyncedTo
        <5> QED BY <2>2, <4>1, <5>1 DEF TypeInv
      <4> QED BY <1>1, <4>1
    <3>2. CASE synced[c] = version[c]
      BY <1>1, <3>1, <3>2
    <3>3. CASE Unrolled
      BY <3>3, UnrolledKept
    <3>4. CASE Kept(Stream, con, task, lost, c, {}, None)
      BY <2>2, <3>4, ConStepKept
    <3> QED BY <3>2, <3>3, <3>4 DEF KeptInv
  <2> QED BY <2>1, <2>2
<1>3. ASSUME NEW v \in Consumer, NEW c \in Case, con'[v].pc = "computed", con'[v].job.case = c
      PROVE  \/ con'[v].read = version'[c]
             \/ Kept(Stream', con', task', lost', c, con'[v].acks, None)
  <2>1. CASE v = w
    BY <1>1, <1>3, <2>1, ConPlace
  <2>2. CASE v # w
    <3>1. con'[v] = con[v]
      BY <2>2, ConPlace
    <3>2. ~ (CommitCase(w) /\ con[w].job.case = c)
      BY <1>3, <2>2, <3>1, OneCommits DEF CommitCase, At
    <3>3. CASE con[v].read = version[c]
      BY <1>1, <3>1, <3>3
    <3>4. CASE Kept(Stream, con, task, lost, c, con[v].acks, None)
      <4>1. Kept(Stream', con', task', lost', c, con[v].acks, None)
        BY <3>2, <3>4, ConStepKept
      <4> QED BY <3>1, <4>1
    <3> QED BY <1>3, <3>1, <3>3, <3>4 DEF KeptInv
  <2> QED BY <2>1, <2>2
<1>4. ASSUME NEW i \in Task, NEW c \in Case, task'[i].pc = "computed", c = Min(task'[i].todo)
      PROVE  \/ task'[i].read = version'[c]
             \/ Kept(Stream', con', task', lost', c, {}, i)
  <2>1. task[i].pc = "computed" /\ c = Min(task[i].todo)
    BY <1>1, <1>4
  <2>2. ~ (CommitCase(w) /\ con[w].job.case = c)
    BY <2>1, OneCommits DEF CommitCase, At
  <2>3. CASE task[i].read = version[c]
    BY <1>1, <2>3
  <2>4. CASE Kept(Stream, con, task, lost, c, {}, i)
    BY <2>2, <2>4, ConStepKept
  <2> QED BY <2>1, <2>3, <2>4 DEF KeptInv
<1> QED BY <1>2, <1>3, <1>4 DEF KeptNext

\* Where the step of a callback takes it: to a computed case by reading it just
\* now.
LEMMA TaskPlace ==
  ASSUME TypeInv, NEW i \in Task, TaskSteps(i)
  PROVE  /\ \A m \in Task \ {i} : task'[m] = task[m]
         /\ task'[i].pc = "computed" => task'[i].read = version[Min(task'[i].todo)]
<1> DEFINE t == task[i]
           d == Min(t.todo)
<1>1. \A n : task' = [task EXCEPT ![i] = n] =>
               task'[i] = n /\ \A m \in Task \ {i} : task'[m] = task[m]
  BY DEF TypeInv
<1>2. t \in TaskRecord
  BY TaskFacts
<1>3. CASE PublishChange(i) \/ ProcessDies(i)
  <2>1. task' = [task EXCEPT ![i] = [IdleTask EXCEPT !.pc = "over"]]
    BY <1>3 DEF PublishChange, ProcessDies, TaskOver
  <2> QED BY <1>1, <2>1, OverFacts
<1>4. CASE PublishFails(i)
  <2>1. task' = [task EXCEPT ![i] = [t EXCEPT !.pc = "inline"]]
    BY <1>4 DEF PublishFails, TypeInv
  <2>2. task'[i].pc = "inline"
    BY <1>1, <1>2, <2>1 DEF TaskRecord
  <2> QED BY <1>1, <2>1, <2>2
<1>5. CASE InlineSync(i) /\ RequiresSync(InlineTypes(i)) /\ lock[d] = None
  <2> DEFINE n == [t EXCEPT !.pc = "computed", !.read = version[d]]
  <2>1. task' = [task EXCEPT ![i] = n]
    BY <1>5 DEF InlineSync, TypeInv
  <2>2. n.todo = t.todo /\ n.read = version[d]
    BY <1>2 DEF TaskRecord
  <2> HIDE DEF n
  <2> QED BY <1>1, <2>1, <2>2
<1>6. CASE \/ InlineCommit(i) \/ InlineError(i)
           \/ InlineSync(i) /\ (~ RequiresSync(InlineTypes(i)) \/ lock[d] # None)
  <2>1. \E m, n : Passed(i, d, m, n)
    BY <1>6, TaskPasses
  <2>2. \E n : task' = [task EXCEPT ![i] = n] /\ n.pc \in {"over", "inline"}
    BY <2>1 DEF Passed
  <2> QED BY <1>1, <2>2
<1> QED BY <1>3, <1>4, <1>5, <1>6 DEF TaskSteps

\* A step of a callback leaves every case looked after.
LEMMA TaskInv ==
  ASSUME TypeInv, KeptInv, NEW i \in Task, TaskSteps(i)
  PROVE  KeptNext
<1> DEFINE d == Min(task[i].todo)
<1>1. /\ UNCHANGED <<version, con, marker>> /\ (UNCHANGED synced \/ InlineCommit(i))
      /\ i # None
  BY TaskLeaves, CaseFacts DEF Worker
<1>2. ASSUME NEW c \in Case
      PROVE  \/ synced'[c] = version'[c] \/ Unrolled'
             \/ Kept(Stream', con', task', lost', c, {}, None)
  <2>1. CASE InlineCommit(i) /\ d = c
    <3>1. task[i].pc = "computed" /\ synced'[c] = task[i].read
      BY <2>1 DEF InlineCommit, SyncedTo, TypeInv
    <3>2. CASE task[i].read = version[c]
      BY <1>1, <3>1, <3>2
    <3>3. CASE Kept(Stream, con, task, lost, c, {}, i)
      BY <2>1, <3>3, TaskCommitKept
    <3> QED BY <2>1, <3>1, <3>2, <3>3 DEF KeptInv
  <2>2. CASE ~ (InlineCommit(i) /\ d = c)
    <3>1. synced'[c] = synced[c]
      <4>1. CASE InlineCommit(i)
        <5>1. synced' = [synced EXCEPT ![d] = task[i].read]
          BY <4>1 DEF InlineCommit, SyncedTo
        <5> QED BY <2>2, <4>1, <5>1 DEF TypeInv
      <4> QED BY <1>1, <4>1
    <3>2. CASE synced[c] = version[c]
      BY <1>1, <3>1, <3>2
    <3>3. CASE Unrolled
      BY <1>1, <3>3 DEF Unrolled
    <3>4. CASE Kept(Stream, con, task, lost, c, {}, None)
      BY <1>1, <2>2, <3>4, TaskStepKept
    <3> QED BY <3>2, <3>3, <3>4 DEF KeptInv
  <2> QED BY <2>1, <2>2
<1>3. ASSUME NEW v \in Consumer, NEW c \in Case, con'[v].pc = "computed", con'[v].job.case = c
      PROVE  \/ con'[v].read = version'[c]
             \/ Kept(Stream', con', task', lost', c, con'[v].acks, None)
  <2>1. con'[v] = con[v]
    BY <1>1
  <2>2. ~ (InlineCommit(i) /\ d = c)
    BY <1>3, <2>1, OneCommits DEF InlineCommit
  <2>3. CASE con[v].read = version[c]
    BY <1>1, <2>3
  <2>4. CASE Kept(Stream, con, task, lost, c, con[v].acks, None)
    <3>1. Kept(Stream', con', task', lost', c, con[v].acks, None)
      BY <1>1, <2>2, <2>4, TaskStepKept
    <3> QED BY <2>1, <3>1
  <2> QED BY <1>3, <2>1, <2>3, <2>4 DEF KeptInv
<1>4. ASSUME NEW m \in Task, NEW c \in Case, task'[m].pc = "computed", c = Min(task'[m].todo)
      PROVE  \/ task'[m].read = version'[c]
             \/ Kept(Stream', con', task', lost', c, {}, m)
  <2>1. CASE m = i
    BY <1>1, <1>4, <2>1, TaskPlace
  <2>2. CASE m # i
    <3>1. task'[m] = task[m]
      BY <2>2, TaskPlace
    <3>2. ~ (InlineCommit(i) /\ d = c)
      BY <1>4, <2>2, <3>1, OneCommits DEF InlineCommit
    <3>3. CASE task[m].read = version[c]
      BY <1>1, <3>1, <3>3
    <3>4. CASE Kept(Stream, con, task, lost, c, {}, m)
      BY <2>2, <3>2, <3>4, TaskStepKept
    <3> QED BY <1>4, <3>1, <3>3, <3>4 DEF KeptInv
  <2> QED BY <2>1, <2>2
<1> QED BY <1>2, <1>3, <1>4 DEF KeptNext

\* So does a lease that lapses or a consumer group that starts anew.
LEMMA QuietInv ==
  ASSUME TypeInv, KeptInv, QuietSteps
  PROVE  KeptNext
<1>1. UNCHANGED <<version, synced, con, task, lost>> /\ Stream' = Stream
  BY DEF QuietSteps, LeaseLapses, SlowLease, GroupRecreated, dbVars, stream, Stream
<1>2. marker' = marker \/ marker' = None
  BY DEF QuietSteps, LeaseLapses, SlowLease, GroupRecreated
<1>3. Unrolled => Unrolled'
  BY <1>1, <1>2, SyncConstants DEF Unrolled
<1> QED BY <1>1, <1>3 DEF KeptInv, KeptNext

\* A change of case d is in the hands of its callback, and takes nothing out of
\* anybody else's.
LEMMA EventInv ==
  ASSUME TypeInv, KeptInv, NEW d \in Case, NEW ty \in EventType, CaseEvent(d, ty)
  PROVE  KeptNext /\ UNCHANGED defs
<1> DEFINE j == Event(d, ty)
           h == changes'
<1>1. /\ j \in ChangeJob /\ j.kind = "event" /\ j.case = d /\ j.type = ty /\ Scope(j) = {d}
  BY JobFacts DEF Scope
<1>2. NewTask(j, Scope(j)) /\ UNCHANGED <<synced, defs, marker, con, lost>> /\ Stream' = Stream
  BY <1>1 DEF CaseEvent, stream, Stream
<1>3. /\ h \in Task /\ task[h].pc = "none"
      /\ \E n \in TaskRecord : /\ task' = [task EXCEPT ![h] = n]
                               /\ n.pc = "publish" /\ n.job = j /\ n.todo = Scope(j)
  BY <1>1, <1>2, NewTaskFacts
<1> HIDE DEF h, j
<1>4. PICK n : task' = [task EXCEPT ![h] = n] /\ n.pc = "publish" /\ n.job = j /\ n.todo = {d}
  BY <1>1, <1>3
<1>5. task'[h] = n /\ \A m \in Task \ {h} : task'[m] = task[m]
  BY <1>3, <1>4 DEF TypeInv
<1>6. ASSUME NEW c \in Case, NEW A, NEW k, Kept(Stream, con, task, lost, c, A, k)
      PROVE  Kept(Stream', con', task', lost', c, A, k)
  <2>1. ~ Counts(task[h], c)
    BY <1>3 DEF Counts, Open
  <2> QED BY <1>2, <1>3, <1>4, <1>6, <2>1, TaskKept
<1>7. ASSUME NEW c \in Case, NEW A, NEW k, k # h, version'[c] # version[c]
      PROVE  Kept(Stream', con', task', lost', c, A, k)
  <2>1. c = d /\ ty \in defs
    BY <1>7 DEF CaseEvent, TypeInv
  <2>2. Counts(n, c)
    BY <1>1, <1>4, <2>1 DEF Counts, Covers, Open
  <2> QED BY <1>3, <1>5, <1>7, <2>2 DEF Kept
<1>8. None # h
  BY <1>3, CaseFacts DEF Worker
<1>9. ASSUME NEW c \in Case
      PROVE  \/ synced'[c] = version'[c] \/ Unrolled'
             \/ Kept(Stream', con', task', lost', c, {}, None)
  <2>1. CASE version'[c] # version[c]
    BY <1>7, <1>8, <2>1
  <2>2. CASE version'[c] = version[c]
    <3>1. Unrolled => Unrolled'
      BY <1>2 DEF Unrolled
    <3> QED BY <1>2, <1>6, <2>2, <3>1 DEF KeptInv
  <2> QED BY <2>1, <2>2
<1>10. ASSUME NEW v \in Consumer, NEW c \in Case, con'[v].pc = "computed", con'[v].job.case = c
       PROVE  \/ con'[v].read = version'[c]
              \/ Kept(Stream', con', task', lost', c, con'[v].acks, None)
  <2>1. CASE version'[c] # version[c]
    BY <1>7, <1>8, <2>1
  <2>2. CASE version'[c] = version[c]
    BY <1>2, <1>6, <1>10, <2>2 DEF KeptInv
  <2> QED BY <2>1, <2>2
<1>11. ASSUME NEW m \in Task, NEW c \in Case, task'[m].pc = "computed", c = Min(task'[m].todo)
       PROVE  \/ task'[m].read = version'[c]
              \/ Kept(Stream', con', task', lost', c, {}, m)
  <2>1. m # h
    BY <1>4, <1>5, <1>11
  <2>2. task'[m] = task[m]
    BY <1>5, <2>1
  <2>3. CASE version'[c] # version[c]
    BY <1>7, <2>1, <2>3
  <2>4. CASE version'[c] = version[c]
    <3>1. CASE task[m].read = version[c]
      BY <2>2, <2>4, <3>1
    <3>2. CASE Kept(Stream, con, task, lost, c, {}, m)
      BY <1>6, <3>2
    <3> QED BY <1>11, <2>2, <3>1, <3>2 DEF KeptInv
  <2> QED BY <2>3, <2>4
<1> QED BY <1>2, <1>9, <1>10, <1>11 DEF KeptNext

\* The callback of a change of the definitions looks after every case.
LEMMA DefinitionsInv ==
  ASSUME TypeInv, NEW D \in Definitions, ChangeDefinitions(D)
  PROVE  KeptInv'
<1>1. Definition \in ChangeJob /\ Scope(Definition) = Case /\ Definition.kind = "definition"
  BY JobFacts DEF Scope
<1>2. NewTask(Definition, Scope(Definition))
  BY <1>1 DEF ChangeDefinitions
<1>3. PICK h \in Task :
        \E n \in TaskRecord : /\ task' = [task EXCEPT ![h] = n]
                              /\ n.pc = "publish" /\ n.job = Definition /\ n.todo = Case
  BY <1>1, <1>2, NewTaskFacts
<1>4. task'[h].pc = "publish" /\ task'[h].job.kind = "definition" /\ task'[h].todo = Case
  BY <1>1, <1>3 DEF TypeInv
<1>5. None # h
  BY <1>3, CaseFacts DEF Worker
<1>6. (\A c \in Case : Counts(task[h], c))'
  BY <1>4 DEF Counts, Covers, Open
<1>7. (\A c \in Case : Kept(Stream, con, task, lost, c, {}, None))'
  BY <1>3, <1>5, <1>6 DEF Kept
<1>8. (\A w \in Consumer, c \in Case : Kept(Stream, con, task, lost, c, con[w].acks, None))'
  BY <1>3, <1>5, <1>6 DEF Kept
<1>9. (\A i \in Task, c \in Case : task[i].pc = "computed" =>
                                     Kept(Stream, con, task, lost, c, {}, i))'
  BY <1>3, <1>4, <1>6 DEF Kept
<1> QED BY <1>7, <1>8, <1>9 DEF KeptInv

\* At the start nothing has changed, or the rollout is still to come.
LEMMA InitKept == Init => KeptInv
<1> SUFFICES ASSUME Init PROVE KeptInv
  OBVIOUS
<1>1. /\ \A w \in Consumer : con[w].pc = "idle"
      /\ \A i \in Task : task[i].pc = "none"
  BY DEF Init, IdleConsumer, IdleTask
<1>2. CASE marker = None
  BY <1>1, <1>2, SyncConstants DEF KeptInv, Unrolled
<1>3. CASE marker = "done"
  BY <1>1, <1>3, SyncConstants DEF Init, KeptInv
<1> QED BY <1>2, <1>3 DEF Init

\* Every step leaves every case looked after.
LEMMA KeptStep == TypeInv /\ KeptInv /\ [Next]_vars => KeptInv'
<1> SUFFICES ASSUME TypeInv, KeptInv, [Next]_vars PROVE KeptInv'
  OBVIOUS
<1>1. CASE UNCHANGED vars
  BY <1>1 DEF vars, dbVars, stream, KeptInv, Stream, Unrolled, Kept, Spends, Counts, Covers
<1>2. CASE Change
  BY <1>2, EventInv, DefinitionsInv, KeptPrimed DEF Change
<1>3. ASSUME NEW i \in Task, TaskSteps(i) PROVE KeptInv'
  BY <1>3, TaskInv, TaskLeaves, KeptPrimed
<1>4. ASSUME NEW w \in Consumer, ConSteps(w) PROVE KeptInv'
  BY <1>4, ConInv, ConLeaves, KeptPrimed
<1>5. CASE QuietSteps
  <2>1. UNCHANGED defs
    BY <1>5 DEF QuietSteps, LeaseLapses, SlowLease, GroupRecreated, dbVars
  <2> QED BY <1>5, <2>1, QuietInv, KeptPrimed
<1> QED BY <1>1, <1>2, <1>3, <1>4, <1>5, NextSteps

\* Somebody who looks after a case is an entry of the stream or a callback under
\* way.
LEMMA KeptSafe == TypeInv /\ KeptInv => NoLostChange
<1> SUFFICES ASSUME TypeInv, KeptInv, NEW c \in Case \ lost, synced[c] < version[c]
             PROVE  \/ \E e \in new \cup pending : Covers(e.job, c)
                    \/ \E i \in Task : task[i].pc \in Open /\ Covers(task[i].job, c)
                    \/ marker # "done"
  BY DEF NoLostChange, Open
<1>1. synced[c] # version[c]
  BY DEF TypeInv
<1> QED BY <1>1 DEF KeptInv, Kept, Stream, Unrolled, Counts

\* Whatever the number of cases, consumers, attempts, changes and faults: a change
\* that the duration rows do not show yet is in the stream, in an after-commit
\* callback or in the rollout, unless a callback gave up on the case or died.
THEOREM NoChangeLost == Spec => []NoLostChange
<1>1. Init => TypeInv /\ KeptInv
  BY InitType, InitKept
<1>2. TypeInv /\ KeptInv /\ [Next]_vars => (TypeInv /\ KeptInv)'
  BY TypeStep, KeptStep
<1> QED BY <1>1, <1>2, KeptSafe, PTL DEF Spec
=============================================================================

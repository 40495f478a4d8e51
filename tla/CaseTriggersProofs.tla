------------------------- MODULE CaseTriggersProofs -------------------------
(***************************************************************************)
(* Theorems about CaseTriggers, for every set of consumers, workflows and  *)
(* definitions, any number of stream entries and any number of faults.     *)
(***************************************************************************)
EXTENDS CaseTriggers, WellFoundedInduction, TLAPS

-----------------------------------------------------------------------------
(* The inductive invariant.                                                *)

ConPC == {"idle", "begin", "lock", "dispatch", "flushed", "mark", "raise", "unlock",
          "next", "ack", "stopped"}

ConRecord ==
  [pc : ConPC, batch : SUBSET Message, msg : Message \cup {0}, cur : Workflow \cup {None},
   todo : SUBSET Workflow, ack : BOOLEAN, off : SUBSET Workflow, failed : BOOLEAN]

Stages == {"lock", "dispatch", "flushed", "mark", "raise", "unlock"}

\* What a consumer works on: entries that were delivered and the workflow it
\* stands at, which is the comment's, x, where only that can fail.  M are the
\* states of the entries.
Fits(M, x, r) ==
  /\ r.pc \notin {"idle", "stopped"} =>
       r.msg \in Message /\ \A m \in r.batch \cup {r.msg} : M[m] \notin {"none", "new"}
  /\ r.pc \in Stages => r.cur \in Workflow /\ r.cur \in Configured \cup {x}
  /\ r.pc \in {"flushed", "raise"} => r.cur = x
  /\ r.todo \subseteq Configured \ {x}
  /\ r.off \subseteq Configured \ {x}

TypeInv ==
  /\ explicit \in Explicit /\ origin \in {"user", "workflow"} /\ entitled \in BOOLEAN
  /\ defn \in Definitions
  /\ online \subseteq Configured /\ done \subseteq Workflow /\ lock \subseteq Workflow
  /\ status \in {None, "running", "failed"} /\ (status # None <=> explicit # None)
  /\ msg \in [Message -> {"none", "new", "pending", "acked", "lost"}]
  /\ con \in [Consumer -> ConRecord] /\ \A w \in Consumer : Fits(msg, explicit, con[w])
  /\ begun \in BOOLEAN /\ dispatched \in [Consumer -> [Workflow -> Nat]]
  /\ extra \in 0..MaxExtra /\ faults \in 0..MaxFaults

\* The due workflows that were neither started nor, for the comment's, marked
\* as failed.
Unhandled ==
  {wf \in Due : IF wf = explicit THEN ~ begun /\ status # "failed"
                ELSE \A w \in Consumer : dispatched[w][wf] = 0}

\* How far a consumer may vouch for the workflows of the event: with the
\* acknowledgement still open it has handled all but those to do.  U are the
\* unhandled workflows, b says that the comment's workflow has begun.
Vouches(U, b, r) ==
  /\ r.pc = "flushed" => r.failed \/ b
  /\ r.pc = "mark" \/ (r.pc = "unlock" /\ r.ack) => r.cur \notin U
  /\ r.pc = "next" /\ r.ack => U \subseteq r.todo
  /\ r.pc \in Stages /\ r.cur # explicit /\ r.ack => U \subseteq r.todo \cup {r.cur}
  /\ r.pc = "ack" => U = {}
  /\ \A wf \in r.off : defn[wf] # "valid"

HandledInv ==
  /\ done \cap Unhandled = {}
  /\ \A w \in Consumer : Vouches(Unhandled, begun, con[w])
  /\ \A wf \in Configured : wf # explicit /\ defn[wf] = "valid" => wf \in online
  /\ (\E m \in Message : msg[m] = "acked") => Unhandled = {}

\* A dispatch that no marker and no consumer on its way to the marker stands
\* for was paid for by a fault.  f are the faults, D the markers, d the
\* dispatches of workflow wf by a consumer with record r.
Starts(f, D, d, r, wf) ==
  /\ d <= 1 + f
  /\ wf \notin D /\ ~ (r.pc = "mark" /\ r.cur = wf) => d <= f
  /\ r.pc \in {"lock", "dispatch"} /\ r.cur = wf => d <= f

StartsInv ==
  /\ \A w \in Consumer, wf \in Workflow \ {explicit} :
       Starts(faults, done, dispatched[w][wf], con[w], wf)
  /\ \A w \in Consumer : explicit \in Workflow =>
       /\ dispatched[w][explicit] <= 1
       /\ ~ begun => dispatched[w][explicit] = 0

-----------------------------------------------------------------------------
(* Operators of the model.                                                 *)

Less == {p \in Nat \X Nat : p[1] < p[2]}

\* Every set of numbers has a least one, by the library's theorem.
LEMMA LessWellFounded == IsWellFoundedOn(Less, Nat)
<1>1. OpToRel(<, Nat) = Less
  BY Zenon DEF OpToRel, Less
<1> QED BY <1>1, NatLessThanWellFounded, Zenon

\* A nonempty set of numbers has a least element.
LEMMA MinFacts ==
  ASSUME NEW B \in SUBSET Nat, B # {}
  PROVE  Min(B) \in B
<1>1. \A x, y \in Nat : <<x, y>> \in Less <=> x < y
  BY DEF Less
<1>2. PICK x \in B : \A y \in B : ~ (<<y, x>> \in Less)
  BY LessWellFounded, WFMin
<1>3. ASSUME NEW y \in B PROVE x <= y
  <2>1. x \in Nat /\ y \in Nat
    OBVIOUS
  <2>2. ~ (<<y, x>> \in Less)
    BY <1>2
  <2>3. ~ (y < x)
    BY <1>1, <2>1, <2>2
  <2> QED BY <2>1, <2>3
<1> QED BY <1>3 DEF Min

\* A consumer that has nothing in hand.
LEMMA IdleType ==
  /\ IdleConsumer \in ConRecord /\ IdleConsumer.pc = "idle"
  /\ IdleConsumer.todo = {} /\ IdleConsumer.off = {}
  BY DEF IdleConsumer, ConRecord, ConPC

\* A batch is taken up with one of its entries, or nothing is left to do.
LEMMA HandleFacts ==
  ASSUME NEW B \in SUBSET Message
  PROVE  /\ Handle(B) \in ConRecord /\ Handle(B).todo = {} /\ Handle(B).off = {}
         /\ \/ Handle(B).pc = "idle"
            \/ /\ Handle(B).pc = "begin"
               /\ Handle(B).msg \in B /\ Handle(B).batch \subseteq B
<1>1. CASE B = {}
  BY <1>1, IdleType DEF Handle
<1>2. CASE B # {}
  <2> DEFINE m == Min(B)
             n == [IdleConsumer EXCEPT !.pc = "begin", !.msg = m, !.batch = B \ {m}]
  <2>1. m \in B
    BY <1>2, MinFacts, TriggerConstants DEF Message
  <2>2. Handle(B) = n
    BY <1>2 DEF Handle
  <2> HIDE DEF m
  <2>3. /\ n \in ConRecord /\ n.todo = {} /\ n.off = {} /\ n.pc = "begin" /\ n.msg = m
        /\ n.batch = B \ {m}
    BY <2>1 DEF IdleConsumer, ConRecord, ConPC
  <2> HIDE DEF n
  <2> QED BY <2>1, <2>2, <2>3
<1> QED BY <1>1, <1>2

\* After a workflow come the triggers, which are loaded once.
LEMMA AfterFacts ==
  ASSUME NEW r \in ConRecord, DueTriggers \subseteq Workflow
  PROVE  /\ After(r) \in ConRecord /\ After(r).pc = "next" /\ After(r).ack = r.ack
         /\ After(r).msg = r.msg /\ After(r).batch = r.batch /\ After(r).off = r.off
         /\ After(r).todo = IF r.cur = explicit THEN (IF entitled THEN DueTriggers ELSE {})
                            ELSE r.todo
<1>1. CASE r.cur = explicit
  BY <1>1 DEF After, Loaded, ConRecord, ConPC
<1>2. CASE r.cur # explicit
  BY <1>2 DEF After, ConRecord, ConPC
<1> QED BY <1>1, <1>2

\* A refused lock leaves the entry pending.
LEMMA RefusedFacts ==
  ASSUME NEW r \in ConRecord, DueTriggers \subseteq Workflow
  PROVE  /\ Refused(r) \in ConRecord /\ Refused(r).pc = "next" /\ Refused(r).ack = FALSE
         /\ Refused(r).msg = r.msg /\ Refused(r).batch = r.batch /\ Refused(r).off = r.off
         /\ Refused(r).todo = IF r.cur = explicit THEN (IF entitled THEN DueTriggers ELSE {})
                              ELSE r.todo
<1> DEFINE n == [r EXCEPT !.ack = FALSE]
<1>1. /\ n \in ConRecord /\ n.ack = FALSE /\ n.msg = r.msg /\ n.batch = r.batch
      /\ n.off = r.off /\ n.cur = r.cur /\ n.todo = r.todo
  BY DEF ConRecord
<1>2. Refused(r) = After(n)
  BY DEF Refused
<1> HIDE DEF n
<1> QED BY <1>1, <1>2, AfterFacts

-----------------------------------------------------------------------------
(* Type correctness.                                                       *)

\* An entry that was delivered once is never undelivered.
Delivered ==
  \A m \in Message : msg[m] \notin {"none", "new"} => msg'[m] \notin {"none", "new"}

\* A consumer moves to n.
LEMMA ConMoves ==
  ASSUME TypeInv, NEW w \in Consumer, NEW n \in ConRecord, Set(w, n),
         explicit' = explicit, Delivered, Fits(msg', explicit, n)
  PROVE  /\ con' \in [Consumer -> ConRecord]
         /\ \A v \in Consumer : Fits(msg', explicit', con'[v])
<1>1. /\ con' \in [Consumer -> ConRecord]
      /\ \A v \in Consumer : con'[v] = IF v = w THEN n ELSE con[v]
  BY DEF TypeInv, Set
<1>2. ASSUME NEW v \in Consumer PROVE Fits(msg', explicit, con[v])
  <2>1. Fits(msg, explicit, con[v]) /\ con[v].batch \subseteq Message
    BY DEF TypeInv, ConRecord
  <2> QED BY <2>1 DEF Fits, Delivered
<1> QED BY <1>1, <1>2

\* What is known of a consumer.
LEMMA ConFacts ==
  ASSUME TypeInv, NEW w \in Consumer
  PROVE  /\ con[w] \in ConRecord /\ Fits(msg, explicit, con[w])
         /\ con[w].pc \in ConPC /\ con[w].batch \subseteq Message
         /\ con[w].todo \subseteq Configured \ {explicit}
         /\ con[w].off \subseteq Configured \ {explicit}
         /\ DueTriggers \subseteq Configured \ {explicit} /\ DueTriggers \subseteq Workflow
  BY TriggerConstants DEF TypeInv, ConRecord, DueTriggers, Fits

\* The rest of a batch is taken up.
LEMMA HandleFits ==
  ASSUME NEW M, NEW x, NEW B \in SUBSET Message,
         \A m \in B : M[m] \notin {"none", "new"}
  PROVE  Handle(B) \in ConRecord /\ Fits(M, x, Handle(B))
  BY HandleFacts DEF Fits, Stages

\* A consumer that goes on with the same message.
LEMMA OnwardFits ==
  ASSUME NEW M, NEW x, NEW r, NEW n, Fits(M, x, r), r.pc \notin {"idle", "stopped"},
         n.msg = r.msg, n.batch = r.batch,
         n.pc \in Stages => n.cur \in Workflow /\ n.cur \in Configured \cup {x},
         n.pc \in {"flushed", "raise"} => n.cur = x,
         n.todo \subseteq Configured \ {x}, n.off \subseteq Configured \ {x}
  PROVE  Fits(M, x, n)
  BY DEF Fits

\* Only the place changes.
LEMMA GotoFits ==
  ASSUME TypeInv, NEW w \in Consumer, NEW p \in ConPC \ {"idle", "stopped"},
         con[w].pc \notin {"idle", "stopped"}, p \in Stages => con[w].pc \in Stages,
         p \in {"flushed", "raise"} => con[w].cur = explicit
  PROVE  [con[w] EXCEPT !.pc = p] \in ConRecord
         /\ Fits(msg, explicit, [con[w] EXCEPT !.pc = p])
<1> DEFINE r == con[w]
           n == [r EXCEPT !.pc = p]
<1>1. r \in ConRecord /\ Fits(msg, explicit, r)
  BY ConFacts
<1>2. /\ n \in ConRecord /\ n.pc = p /\ n.msg = r.msg /\ n.batch = r.batch /\ n.cur = r.cur
      /\ n.todo = r.todo /\ n.off = r.off
  BY <1>1 DEF ConRecord
<1>9. Fits(msg, explicit, n)
  <2> HIDE DEF n
  <2>1. n.pc \in Stages => n.cur \in Workflow /\ n.cur \in Configured \cup {explicit}
    BY <1>1, <1>2 DEF Fits
  <2> QED BY <1>1, <1>2, <2>1, OnwardFits, ConFacts
<1> QED BY <1>2, <1>9

\* Steps of a consumer with the message in its hands.
LEMMA ConsumeType ==
  ASSUME TypeInv, NEW w \in Consumer, UNCHANGED <<explicit, msg>>,
         \/ Begin(w) \/ \E wf \in Workflow : CheckDone(w, wf)
         \/ TakeLock(w) \/ LockReplyLost(w) \/ DispatchExplicit(w) \/ ExplicitStartFails(w)
         \/ CommitExplicit(w) \/ DispatchTrigger(w) \/ Mark(w) \/ Unlock(w) \/ Commit(w)
  PROVE  /\ con' \in [Consumer -> ConRecord]
         /\ \A v \in Consumer : Fits(msg', explicit', con'[v])
<1> USE TriggerConstants
<1> DEFINE r == con[w]
<1>1. /\ r \in ConRecord /\ Fits(msg, explicit, r) /\ r.batch \subseteq Message
      /\ r.todo \subseteq Configured \ {explicit} /\ r.off \subseteq Configured \ {explicit}
      /\ DueTriggers \subseteq Configured \ {explicit} /\ DueTriggers \subseteq Workflow
  BY ConFacts
<1>2. Delivered
  BY DEF Delivered
<1>3. SUFFICES \E n \in ConRecord : Set(w, n) /\ Fits(msg, explicit, n)
  BY <1>2, ConMoves
<1>4. r.pc \notin {"idle", "stopped"}
  BY DEF Begin, CheckDone, TakeLock, LockReplyLost, DispatchExplicit, ExplicitStartFails,
         CommitExplicit, DispatchTrigger, Mark, Unlock, Commit, At
<1>5. /\ \A m \in r.batch : msg[m] \notin {"none", "new"}
  BY <1>1, <1>4 DEF Fits
<1>6. Handle(r.batch) \in ConRecord /\ Fits(msg, explicit, Handle(r.batch))
  BY <1>1, <1>5, HandleFits
<1>7. After(r) \in ConRecord /\ Fits(msg, explicit, After(r))
  <2> DEFINE n == After(r)
  <2>1. /\ n \in ConRecord /\ n.pc = "next" /\ n.msg = r.msg /\ n.batch = r.batch
        /\ n.off = r.off /\ n.todo \subseteq Configured \ {explicit}
    BY <1>1, AfterFacts
  <2>9. Fits(msg, explicit, n)
    <3> HIDE DEF n
    <3> QED BY <1>1, <1>4, <2>1, OnwardFits DEF Stages
  <2> QED BY <2>1, <2>9
<1>8. Refused(r) \in ConRecord /\ Fits(msg, explicit, Refused(r))
  <2> DEFINE n == Refused(r)
  <2>1. /\ n \in ConRecord /\ n.pc = "next" /\ n.msg = r.msg /\ n.batch = r.batch
        /\ n.off = r.off /\ n.todo \subseteq Configured \ {explicit}
    BY <1>1, RefusedFacts
  <2>9. Fits(msg, explicit, n)
    <3> HIDE DEF n
    <3> QED BY <1>1, <1>4, <2>1, OnwardFits DEF Stages
  <2> QED BY <2>1, <2>9
<1>9. CASE Begin(w)
  <2>1. Loaded(r) \in ConRecord /\ Fits(msg, explicit, Loaded(r))
    <3> DEFINE n == Loaded(r)
    <3>1. /\ n \in ConRecord /\ n.pc = "next" /\ n.msg = r.msg /\ n.batch = r.batch
          /\ n.off = r.off /\ n.todo \subseteq Configured \ {explicit}
      BY <1>1 DEF Loaded, ConRecord, ConPC
    <3>9. Fits(msg, explicit, n)
      <4> HIDE DEF n
      <4> QED BY <1>1, <1>4, <3>1, OnwardFits DEF Stages
    <3> QED BY <3>1, <3>9
  <2>2. [r EXCEPT !.pc = "ack"] \in ConRecord /\ Fits(msg, explicit, [r EXCEPT !.pc = "ack"])
    BY <1>4, GotoFits DEF ConPC, Stages
  <2>3. ASSUME explicit # None
        PROVE  /\ [r EXCEPT !.pc = "lock", !.cur = explicit] \in ConRecord
               /\ Fits(msg, explicit, [r EXCEPT !.pc = "lock", !.cur = explicit])
    <3> DEFINE n == [r EXCEPT !.pc = "lock", !.cur = explicit]
    <3>1. explicit \in Workflow
      BY <2>3 DEF TypeInv
    <3>2. /\ n \in ConRecord /\ n.pc = "lock" /\ n.msg = r.msg /\ n.batch = r.batch
          /\ n.off = r.off /\ n.todo = r.todo /\ n.cur = explicit
      BY <1>1, <3>1 DEF ConRecord, ConPC
    <3>9. Fits(msg, explicit, n)
      <4> HIDE DEF n
      <4> QED BY <1>1, <1>4, <3>1, <3>2, OnwardFits DEF Stages
    <3> QED BY <3>2, <3>9
  <2> QED BY <1>9, <2>1, <2>2, <2>3 DEF Begin
<1>10. ASSUME NEW wf \in Workflow, CheckDone(w, wf)
       PROVE  \E n \in ConRecord : Set(w, n) /\ Fits(msg, explicit, n)
  <2> DEFINE n == [r EXCEPT !.todo = @ \ {wf}]
             k == [n EXCEPT !.pc = "lock", !.cur = wf]
  <2>1. /\ n \in ConRecord /\ n.pc = r.pc /\ n.msg = r.msg /\ n.batch = r.batch
        /\ n.off = r.off /\ n.todo \subseteq r.todo /\ n.cur = r.cur
    BY <1>1 DEF ConRecord
  <2>2. Set(w, n) \/ Set(w, k)
    BY <1>10 DEF CheckDone
  <2> HIDE DEF n
  <2>3. /\ k \in ConRecord /\ k.pc = "lock" /\ k.msg = r.msg /\ k.batch = r.batch
        /\ k.off = r.off /\ k.todo = n.todo /\ k.cur = wf
    BY <2>1 DEF ConRecord, ConPC
  <2> HIDE DEF k
  <2>4. Fits(msg, explicit, n)
    BY <1>1, <1>4, <1>10, <2>1, OnwardFits DEF CheckDone, At, Stages
  <2>5. Fits(msg, explicit, k)
    BY <1>1, <1>4, <1>10, <2>1, <2>3, OnwardFits DEF Stages, CheckDone
  <2> QED BY <2>1, <2>2, <2>3, <2>4, <2>5
<1>11. CASE TakeLock(w) \/ LockReplyLost(w)
  <2>1. /\ [r EXCEPT !.pc = "dispatch"] \in ConRecord
        /\ Fits(msg, explicit, [r EXCEPT !.pc = "dispatch"])
    BY <1>4, <1>11, GotoFits DEF ConPC, Stages, TakeLock, LockReplyLost, At
  <2> QED BY <1>8, <1>11, <2>1 DEF TakeLock, LockReplyLost
<1>12. CASE DispatchExplicit(w) \/ ExplicitStartFails(w)
  <2>1. r.pc = "dispatch" /\ r.cur = explicit /\ r.cur \in Workflow
    BY <1>1, <1>12 DEF DispatchExplicit, ExplicitStartFails, At, Fits, Stages
  <2>2. /\ [r EXCEPT !.pc = "raise"] \in ConRecord
        /\ Fits(msg, explicit, [r EXCEPT !.pc = "raise"])
        /\ [r EXCEPT !.pc = "flushed"] \in ConRecord
        /\ Fits(msg, explicit, [r EXCEPT !.pc = "flushed"])
    BY <2>1, GotoFits DEF ConPC, Stages
  <2>3. /\ [r EXCEPT !.pc = "flushed", !.failed = TRUE] \in ConRecord
        /\ Fits(msg, explicit, [r EXCEPT !.pc = "flushed", !.failed = TRUE])
    <3> DEFINE n == [r EXCEPT !.pc = "flushed", !.failed = TRUE]
    <3>1. /\ n \in ConRecord /\ n.pc = "flushed" /\ n.msg = r.msg /\ n.batch = r.batch
          /\ n.off = r.off /\ n.todo = r.todo /\ n.cur = r.cur
      BY <1>1 DEF ConRecord, ConPC
    <3>9. Fits(msg, explicit, n)
      <4> HIDE DEF n
      <4> QED BY <1>1, <1>4, <2>1, <3>1, OnwardFits
    <3> QED BY <3>1, <3>9
  <2>4. \/ Set(w, [r EXCEPT !.pc = "raise"]) \/ Set(w, [r EXCEPT !.pc = "flushed"])
        \/ Set(w, [r EXCEPT !.pc = "flushed", !.failed = TRUE])
    BY <1>12 DEF DispatchExplicit, ExplicitStartFails
  <2> QED BY <2>2, <2>3, <2>4
<1>13. CASE CommitExplicit(w) \/ Mark(w)
  <2>1. r.pc \in {"flushed", "mark"}
    BY <1>13 DEF CommitExplicit, Mark, At
  <2>2. \A p \in {"mark", "unlock"} :
          [r EXCEPT !.pc = p] \in ConRecord /\ Fits(msg, explicit, [r EXCEPT !.pc = p])
    BY <1>4, <2>1, GotoFits DEF ConPC, Stages
  <2> QED BY <1>13, <2>2 DEF CommitExplicit, Mark, Goto
<1>14. CASE DispatchTrigger(w)
  <2>1. /\ r.cur \in Workflow /\ r.cur # explicit /\ r.cur \in Configured
        /\ r.pc = "dispatch"
    BY <1>1, <1>14 DEF DispatchTrigger, At, Fits, Stages
  <2>2. /\ [r EXCEPT !.pc = "mark"] \in ConRecord
        /\ Fits(msg, explicit, [r EXCEPT !.pc = "mark"])
    BY <1>4, <2>1, GotoFits DEF ConPC, Stages
  <2>3. /\ [r EXCEPT !.pc = "mark", !.off = @ \cup {r.cur}] \in ConRecord
        /\ Fits(msg, explicit, [r EXCEPT !.pc = "mark", !.off = @ \cup {r.cur}])
    <3> DEFINE n == [r EXCEPT !.pc = "mark", !.off = @ \cup {r.cur}]
    <3>1. /\ n \in ConRecord /\ n.pc = "mark" /\ n.msg = r.msg /\ n.batch = r.batch
          /\ n.off = r.off \cup {r.cur} /\ n.todo = r.todo /\ n.cur = r.cur
      BY <1>1, <2>1 DEF ConRecord, ConPC
    <3>9. Fits(msg, explicit, n)
      <4> HIDE DEF n
      <4> QED BY <1>1, <1>4, <2>1, <3>1, OnwardFits
    <3> QED BY <3>1, <3>9
  <2>4. \/ Set(w, [r EXCEPT !.pc = "mark"])
        \/ Set(w, [r EXCEPT !.pc = "mark", !.off = @ \cup {r.cur}])
    BY <1>14 DEF DispatchTrigger, Goto
  <2> QED BY <2>2, <2>3, <2>4
<1>15. CASE Unlock(w)
  BY <1>6, <1>7, <1>15 DEF Unlock
<1>16. CASE Commit(w)
  <2>1. [r EXCEPT !.pc = "ack"] \in ConRecord /\ Fits(msg, explicit, [r EXCEPT !.pc = "ack"])
    BY <1>4, GotoFits DEF ConPC, Stages
  <2> QED BY <1>6, <1>16, <2>1 DEF Commit
<1> QED BY <1>9, <1>10, <1>11, <1>12, <1>13, <1>14, <1>15, <1>16

\* Entries change hands: what is delivered was or becomes pending.
LEMMA DeliverType ==
  ASSUME TypeInv, NEW w \in Consumer, NEW M \in SUBSET Message, Deliver(w, M)
  PROVE  /\ msg' \in [Message -> {"none", "new", "pending", "acked", "lost"}]
         /\ con' \in [Consumer -> ConRecord]
         /\ \A v \in Consumer : Fits(msg', explicit', con'[v])
<1>1. /\ msg' \in [Message -> {"none", "new", "pending", "acked", "lost"}]
      /\ \A m \in Message : msg'[m] = IF m \in M THEN "pending" ELSE msg[m]
  BY DEF TypeInv, Deliver
<1>2. Delivered
  BY <1>1 DEF Delivered
<1>3. Handle(M) \in ConRecord /\ Fits(msg', explicit, Handle(M))
  BY <1>1, HandleFits
<1> QED BY <1>1, <1>2, <1>3, ConMoves DEF Deliver, eventVars

\* An entry changes its state and no consumer moves.
LEMMA MessageType ==
  ASSUME TypeInv, UNCHANGED <<explicit, con>>, Delivered
  PROVE  /\ con' \in [Consumer -> ConRecord]
         /\ \A v \in Consumer : Fits(msg', explicit', con'[v])
<1>1. con' \in [Consumer -> ConRecord]
  BY DEF TypeInv
<1>2. ASSUME NEW v \in Consumer PROVE Fits(msg', explicit, con[v])
  <2>1. Fits(msg, explicit, con[v]) /\ con[v].batch \subseteq Message
    BY DEF TypeInv, ConRecord
  <2> QED BY <2>1 DEF Fits, Delivered
<1> QED BY <1>1, <1>2

\* An entry is acknowledged and the rest of the batch is taken up.
LEMMA AcknowledgeType ==
  ASSUME TypeInv, NEW w \in Consumer, Acknowledge(w)
  PROVE  /\ msg' \in [Message -> {"none", "new", "pending", "acked", "lost"}]
         /\ con' \in [Consumer -> ConRecord]
         /\ \A v \in Consumer : Fits(msg', explicit', con'[v])
<1> DEFINE r == con[w]
<1>1. /\ r.batch \subseteq Message /\ r.msg \in Message
      /\ \A m \in r.batch : msg[m] \notin {"none", "new"}
  BY ConFacts DEF Fits, Acknowledge, At
<1>2. /\ msg' \in [Message -> {"none", "new", "pending", "acked", "lost"}]
      /\ \A m \in Message : msg'[m] = IF m = r.msg THEN Acked(r.msg) ELSE msg[m]
  BY <1>1 DEF TypeInv, Acknowledge, Acked
<1>3. Delivered
  BY <1>2 DEF Delivered, Acked
<1>4. Handle(r.batch) \in ConRecord /\ Fits(msg', explicit, Handle(r.batch))
  BY <1>1, <1>3, HandleFits DEF Delivered
<1> QED BY <1>2, <1>3, <1>4, ConMoves DEF Acknowledge, eventVars

\* An error leaves a consumer stopped, at another stage or with its next entry.
LEMMA ErrorType ==
  ASSUME TypeInv, NEW w \in Consumer, Error(w) \/ Crash(w)
  PROVE  /\ con' \in [Consumer -> ConRecord]
         /\ \A v \in Consumer : Fits(msg', explicit', con'[v])
<1> DEFINE r == con[w]
<1>1. /\ r \in ConRecord /\ Fits(msg, explicit, r) /\ r.batch \subseteq Message
      /\ r.todo \subseteq Configured \ {explicit} /\ r.off \subseteq Configured \ {explicit}
  BY ConFacts
<1>2. UNCHANGED <<explicit, msg>> /\ Delivered
  BY DEF Error, Crash, eventVars, redisVars, Delivered
<1>3. SUFFICES \E n \in ConRecord : Set(w, n) /\ Fits(msg, explicit, n)
  BY <1>2, ConMoves
<1>4. CASE Crash(w)
  <2>1. Fits(msg, explicit, IdleConsumer)
    BY IdleType DEF Fits, Stages
  <2> QED BY <1>4, <2>1, IdleType DEF Crash
<1>5. CASE Error(w) /\ r.pc \in {"idle", "ack"}
  <2> DEFINE n == [IdleConsumer EXCEPT !.pc = "stopped"]
  <2>1. n \in ConRecord /\ n.pc = "stopped" /\ n.todo = {} /\ n.off = {}
    BY DEF IdleConsumer, ConRecord, ConPC
  <2>2. Set(w, n)
    BY <1>5 DEF Error
  <2> HIDE DEF n
  <2>3. Fits(msg, explicit, n)
    BY <2>1 DEF Fits, Stages
  <2> QED BY <2>1, <2>2, <2>3
<1>6. CASE Error(w) /\ r.pc \in {"dispatch", "mark"} /\ r.cur # explicit
  <2> DEFINE n == [r EXCEPT !.pc = "unlock", !.ack = FALSE]
  <2>1. /\ n \in ConRecord /\ n.pc = "unlock" /\ n.msg = r.msg /\ n.batch = r.batch
        /\ n.off = r.off /\ n.todo = r.todo /\ n.cur = r.cur
    BY <1>1 DEF ConRecord, ConPC
  <2>2. Set(w, n)
    BY <1>6 DEF Error
  <2>3. r.cur \in Workflow /\ r.cur \in Configured \cup {explicit}
    BY <1>1, <1>6 DEF Fits, Stages
  <2> HIDE DEF n
  <2>4. Fits(msg, explicit, n)
    BY <1>1, <1>6, <2>1, <2>3, OnwardFits
  <2> QED BY <2>1, <2>2, <2>4
<1>7. CASE Error(w) /\ r.pc \in {"dispatch", "flushed", "mark"} /\ r.cur = explicit
  <2>1. [r EXCEPT !.pc = "raise"] \in ConRecord
        /\ Fits(msg, explicit, [r EXCEPT !.pc = "raise"])
    BY <1>7, GotoFits DEF ConPC, Stages
  <2>2. Set(w, [r EXCEPT !.pc = "raise"])
    BY <1>7 DEF Error, Goto
  <2> QED BY <2>1, <2>2
<1>8. CASE Error(w) /\ r.pc \in {"begin", "next", "lock", "unlock", "raise"}
  <2>1. \A m \in r.batch : msg[m] \notin {"none", "new"}
    BY <1>1, <1>8 DEF Fits
  <2>2. Set(w, Handle(r.batch))
    BY <1>8 DEF Error
  <2> QED BY <1>1, <2>1, <2>2, HandleFits
<1>9. ASSUME Error(w)
      PROVE  \/ r.pc \in {"idle", "ack"}
             \/ r.pc \in {"dispatch", "mark"} /\ r.cur # explicit
             \/ r.pc \in {"dispatch", "flushed", "mark"} /\ r.cur = explicit
             \/ r.pc \in {"begin", "next", "lock", "unlock", "raise"}
  BY <1>9 DEF Error
<1> QED BY <1>4, <1>5, <1>6, <1>7, <1>8, <1>9

\* A start is counted for the workflow the consumer stands at.
LEMMA CountedFacts ==
  ASSUME TypeInv, NEW w \in Consumer, con[w].cur \in Workflow
  PROVE  /\ Counted(w) \in [Consumer -> [Workflow -> Nat]]
         /\ \A v \in Consumer, wf \in Workflow :
              Counted(w)[v][wf] = IF v = w /\ wf = con[w].cur THEN dispatched[v][wf] + 1
                                  ELSE dispatched[v][wf]
  BY DEF TypeInv, Counted

\* The types hold at first.
LEMMA InitType == Init => TypeInv
<1> SUFFICES ASSUME Init PROVE TypeInv
  OBVIOUS
<1> USE TriggerConstants
<1>1. \A w \in Consumer : Fits(msg, explicit, con[w])
  BY IdleType DEF Init, Fits, Stages
<1>2. con \in [Consumer -> ConRecord]
  BY IdleType DEF Init
<1>3. msg \in [Message -> {"none", "new", "pending", "acked", "lost"}]
  BY DEF Init
<1>4. begun \in BOOLEAN /\ dispatched \in [Consumer -> [Workflow -> Nat]]
  BY DEF Init
<1>5. extra \in 0..MaxExtra /\ faults \in 0..MaxFaults
  BY DEF Init
<1>6. /\ explicit \in Explicit /\ origin \in {"user", "workflow"} /\ entitled \in BOOLEAN
      /\ defn \in Definitions
      /\ online \subseteq Configured /\ done \subseteq Workflow /\ lock \subseteq Workflow
  BY DEF Init
<1>7. status \in {None, "running", "failed"} /\ (status # None <=> explicit # None)
  BY DEF Init
<1> QED BY <1>1, <1>2, <1>3, <1>4, <1>5, <1>6, <1>7 DEF TypeInv

\* Every step keeps the types of the variables.
LEMMA TypeStep == TypeInv /\ [Next]_vars => TypeInv'
<1> SUFFICES ASSUME TypeInv, [Next]_vars PROVE TypeInv'
  OBVIOUS
<1> USE TriggerConstants
<1> DEFINE States == {"none", "new", "pending", "acked", "lost"}
           ConType == /\ con' \in [Consumer -> ConRecord]
                      /\ \A v \in Consumer : Fits(msg', explicit', con'[v])
<1>1. CASE UNCHANGED vars
  BY <1>1 DEF vars, eventVars, dbVars, redisVars, runVars, TypeInv
<1>2. ASSUME NEW m \in Message, Add(m), msg[m] = "none", UNCHANGED <<explicit, con>>
      PROVE  msg' \in [Message -> States] /\ ConType
  <2>1. /\ msg' \in [Message -> States]
        /\ \A k \in Message : msg'[k] = IF k = m THEN "new" ELSE msg[k]
    BY <1>2 DEF TypeInv, Add
  <2>2. Delivered
    BY <1>2, <2>1 DEF Delivered
  <2> QED BY <1>2, <2>1, <2>2, MessageType
<1>3. CASE PublishEvent
  <2>1. msg' \in [Message -> States] /\ ConType
    BY <1>2, <1>3 DEF PublishEvent, Unpublished, Message, eventVars
  <2> QED BY <1>3, <2>1 DEF PublishEvent, eventVars, dbVars, runVars, TypeInv
<1>4. ASSUME NEW m \in Message, PublishRepeated(m) PROVE TypeInv'
  <2>1. msg' \in [Message -> States] /\ ConType
    BY <1>2, <1>4 DEF PublishRepeated, eventVars
  <2> QED BY <1>4, <2>1 DEF PublishRepeated, Extra, eventVars, dbVars, runVars, TypeInv
<1>5. CASE PublishFails
  <2>1. CASE Add(1)
    <3>1. msg' \in [Message -> States] /\ ConType
      BY <1>2, <1>5, <2>1 DEF PublishFails, Unpublished, Message, eventVars
    <3> QED BY <1>5, <3>1 DEF PublishFails, Fault, eventVars, runVars, TypeInv
  <2>2. CASE UNCHANGED msg
    BY <1>5, <2>2 DEF PublishFails, Fault, eventVars, runVars, TypeInv
  <2> QED BY <1>5, <2>1, <2>2 DEF PublishFails
<1>6. ASSUME NEW w \in Consumer, NEW M \in SUBSET Message, Deliver(w, M),
             extra' \in 0..MaxExtra, faults' = faults
      PROVE  TypeInv'
  <2>1. msg' \in [Message -> States] /\ ConType
    BY <1>6, DeliverType
  <2> QED BY <1>6, <2>1 DEF Deliver, eventVars, dbVars, runVars, TypeInv
<1>7. ASSUME NEW w \in Consumer, ReadGroup(w) \/ ClaimIdle(w) PROVE TypeInv'
  BY <1>6, <1>7 DEF ReadGroup, ClaimIdle, New, Idle, Pending, TypeInv
<1>8. ASSUME NEW w \in Consumer, NEW v \in Consumer, ClaimFromSlow(w, v) PROVE TypeInv'
  <2>1. extra' \in 0..MaxExtra
    BY <1>8 DEF ClaimFromSlow, Extra, TypeInv
  <2> QED BY <1>6, <1>8, <2>1 DEF ClaimFromSlow, Pending
<1>9. CASE GroupRecreated
  <2>1. /\ msg' \in [Message -> States]
        /\ \A m \in Message : msg'[m] \in {msg[m], "lost"}
    BY <1>9 DEF TypeInv, GroupRecreated
  <2>2. Delivered
    BY <2>1 DEF Delivered
  <2>3. ConType
    BY <1>9, <2>2, MessageType DEF GroupRecreated, eventVars
  <2> QED BY <1>9, <2>1, <2>3 DEF GroupRecreated, Fault, eventVars, dbVars, runVars, TypeInv
<1>10. ASSUME NEW w \in Consumer, Begin(w) \/ \E wf \in Workflow : CheckDone(w, wf)
       PROVE  TypeInv'
  <2>1. ConType
    BY <1>10, ConsumeType DEF Begin, CheckDone, eventVars, redisVars
  <2> QED BY <1>10, <2>1
       DEF Begin, CheckDone, eventVars, dbVars, redisVars, runVars, TypeInv
<1>11. ASSUME NEW w \in Consumer, TakeLock(w) \/ LockReplyLost(w) PROVE TypeInv'
  <2>1. ConType
    BY <1>11, ConsumeType DEF TakeLock, LockReplyLost, eventVars
  <2>2. con[w].cur \in Workflow
    BY <1>11, ConFacts DEF TakeLock, LockReplyLost, At, Fits, Stages
  <2>3. lock' \subseteq Workflow
    BY <1>11, <2>2 DEF TakeLock, LockReplyLost, TypeInv
  <2> QED BY <1>11, <2>1, <2>3
       DEF TakeLock, LockReplyLost, Fault, eventVars, dbVars, runVars, TypeInv
<1>12. ASSUME NEW w \in Consumer,
              DispatchExplicit(w) \/ ExplicitStartFails(w) \/ DispatchTrigger(w)
       PROVE  TypeInv'
  <2>1. ConType
    BY <1>12, ConsumeType
       DEF DispatchExplicit, ExplicitStartFails, DispatchTrigger, eventVars, redisVars
  <2>2. con[w].cur \in Workflow
    BY <1>12, ConFacts
       DEF DispatchExplicit, ExplicitStartFails, DispatchTrigger, At, Fits, Stages
  <2>3. dispatched' \in {dispatched, Counted(w)}
    BY <1>12 DEF DispatchExplicit, ExplicitStartFails, DispatchTrigger
  <2>4. dispatched' \in [Consumer -> [Workflow -> Nat]]
    BY <2>2, <2>3, CountedFacts DEF TypeInv
  <2>5. begun' \in BOOLEAN
    BY <1>12 DEF DispatchExplicit, ExplicitStartFails, DispatchTrigger, TypeInv
  <2>6. faults' \in 0..MaxFaults
    <3>1. faults' = faults \/ Fault
      BY <1>12 DEF DispatchExplicit, ExplicitStartFails, DispatchTrigger
    <3> QED BY <3>1 DEF Fault, TypeInv
  <2> QED BY <1>12, <2>1, <2>4, <2>5, <2>6
       DEF DispatchExplicit, ExplicitStartFails, DispatchTrigger, eventVars, dbVars,
           redisVars, TypeInv
<1>13. ASSUME NEW w \in Consumer, CommitExplicit(w) PROVE TypeInv'
  <2>1. ConType
    BY <1>13, ConsumeType DEF CommitExplicit, eventVars, redisVars
  <2>2. explicit # None
    BY <1>13, ConFacts DEF CommitExplicit, At, Fits, Stages
  <2> QED BY <1>13, <2>1, <2>2 DEF CommitExplicit, eventVars, redisVars, runVars, TypeInv
<1>14. ASSUME NEW w \in Consumer, Mark(w) PROVE TypeInv'
  <2>1. ConType
    BY <1>14, ConsumeType DEF Mark, eventVars
  <2>2. con[w].cur \in Workflow
    BY <1>14, ConFacts DEF Mark, At, Fits, Stages
  <2> QED BY <1>14, <2>1, <2>2 DEF Mark, MarkDone, eventVars, dbVars, runVars, TypeInv
<1>15. ASSUME NEW w \in Consumer, Unlock(w) PROVE TypeInv'
  <2>1. ConType
    BY <1>15, ConsumeType DEF Unlock, eventVars
  <2> QED BY <1>15, <2>1 DEF Unlock, eventVars, dbVars, runVars, TypeInv
<1>16. ASSUME NEW w \in Consumer, Commit(w) PROVE TypeInv'
  <2>1. ConType
    BY <1>16, ConsumeType DEF Commit, eventVars, redisVars
  <2> QED BY <1>16, <2>1 DEF Commit, eventVars, redisVars, runVars, TypeInv
<1>17. ASSUME NEW w \in Consumer, Acknowledge(w) PROVE TypeInv'
  <2>1. msg' \in [Message -> States] /\ ConType
    BY <1>17, AcknowledgeType
  <2> QED BY <1>17, <2>1 DEF Acknowledge, eventVars, dbVars, runVars, TypeInv
<1>18. ASSUME NEW w \in Consumer, Error(w) \/ Crash(w) PROVE TypeInv'
  <2>1. ConType
    BY <1>18, ErrorType
  <2> QED BY <1>18, <2>1
       DEF Error, Crash, Fault, eventVars, dbVars, redisVars, runVars, TypeInv
<1>19. ASSUME NEW wf \in Workflow,
              ExpireLock(wf) \/ ExpireSlowLock(wf) \/ ExpireDone(wf)
       PROVE  TypeInv'
  BY <1>19 DEF ExpireLock, ExpireSlowLock, ExpireDone, Fault, eventVars, dbVars, runVars,
               TypeInv
<1> QED BY <1>1, <1>3, <1>4, <1>5, <1>7, <1>8, <1>9, <1>10, <1>11, <1>12, <1>13, <1>14,
           <1>15, <1>16, <1>17, <1>18, <1>19
     DEF Next, Consume, Faulty

\* The event, the database, Redis and the consumers keep their shape in every
\* behaviour of the consumers, publishers and faults: no consumer works on an
\* entry that was not delivered or on a workflow the event does not concern.
THEOREM TriggerTypes == Spec => []TypeOK
<1>1. TypeInv => TypeOK
  BY DEF TypeInv, TypeOK, Fits, Stages, ConRecord, ConPC
<1> QED BY <1>1, InitType, TypeStep, PTL DEF Spec

-----------------------------------------------------------------------------
(* Acknowledged entries are handled.                                       *)

\* The event does not change and nothing that was handled is undone.
LEMMA Progress ==
  ASSUME TypeInv, [Next]_vars
  PROVE  /\ UNCHANGED eventVars /\ Due' = Due /\ Unhandled' \subseteq Unhandled
         /\ (begun => begun') /\ (status = "failed" => status' = "failed")
         /\ \A w \in Consumer, wf \in Workflow : dispatched'[w][wf] >= dispatched[w][wf]
<1>1. UNCHANGED eventVars
  BY DEF vars, Next, Consume, Faulty, PublishEvent, PublishRepeated, PublishFails, Deliver,
         ReadGroup, ClaimIdle, ClaimFromSlow, GroupRecreated, Begin, CheckDone, TakeLock,
         LockReplyLost, DispatchExplicit, ExplicitStartFails, CommitExplicit,
         DispatchTrigger, Mark, Unlock, Commit, Acknowledge, Error, Crash, ExpireLock,
         ExpireSlowLock, ExpireDone
<1>2. begun => begun'
  BY DEF vars, runVars, Next, Consume, Faulty, PublishEvent, PublishRepeated, PublishFails,
         Deliver, ReadGroup, ClaimIdle, ClaimFromSlow, GroupRecreated, Begin, CheckDone,
         TakeLock, LockReplyLost, DispatchExplicit, ExplicitStartFails, CommitExplicit,
         DispatchTrigger, Mark, Unlock, Commit, Acknowledge, Error, Crash, ExpireLock,
         ExpireSlowLock, ExpireDone
<1>3. status = "failed" => status' = "failed"
  BY DEF vars, dbVars, Next, Consume, Faulty, PublishEvent, PublishRepeated, PublishFails,
         Deliver, ReadGroup, ClaimIdle, ClaimFromSlow, GroupRecreated, Begin, CheckDone,
         TakeLock, LockReplyLost, DispatchExplicit, ExplicitStartFails, CommitExplicit,
         DispatchTrigger, Mark, Unlock, Commit, Acknowledge, Error, Crash, ExpireLock,
         ExpireSlowLock, ExpireDone
<1>4. \/ UNCHANGED dispatched
      \/ \E w \in Consumer : /\ DispatchExplicit(w) \/ DispatchTrigger(w)
                             /\ dispatched' = Counted(w)
  BY DEF vars, runVars, Next, Consume, Faulty, PublishEvent, PublishRepeated, PublishFails,
         Deliver, ReadGroup, ClaimIdle, ClaimFromSlow, GroupRecreated, Begin, CheckDone,
         TakeLock, LockReplyLost, DispatchExplicit, ExplicitStartFails, CommitExplicit,
         DispatchTrigger, Mark, Unlock, Commit, Acknowledge, Error, Crash, ExpireLock,
         ExpireSlowLock, ExpireDone
<1>5. \A w \in Consumer, wf \in Workflow : dispatched'[w][wf] >= dispatched[w][wf]
  <2>1. \A w \in Consumer, wf \in Workflow : dispatched[w][wf] \in Nat
    BY DEF TypeInv
  <2>2. CASE UNCHANGED dispatched
    BY <2>1, <2>2
  <2>3. ASSUME NEW w \in Consumer, DispatchExplicit(w) \/ DispatchTrigger(w),
               dispatched' = Counted(w)
        PROVE  \A v \in Consumer, wf \in Workflow : dispatched'[v][wf] >= dispatched[v][wf]
    <3>1. con[w].cur \in Workflow
      BY <2>3, ConFacts DEF DispatchExplicit, DispatchTrigger, At, Fits, Stages
    <3> QED BY <2>1, <2>3, <3>1, CountedFacts
  <2> QED BY <1>4, <2>2, <2>3
<1>6. Due' = Due
  BY <1>1 DEF Due, eventVars
<1>7. Unhandled' \subseteq Unhandled
  <2> SUFFICES ASSUME NEW wf \in Unhandled' PROVE wf \in Unhandled
    OBVIOUS
  <2>1. wf \in Due /\ explicit' = explicit
    BY <1>1, <1>6 DEF Unhandled, eventVars
  <2>2. CASE wf = explicit
    BY <1>2, <1>3, <2>1, <2>2 DEF Unhandled
  <2>3. CASE wf # explicit
    <3>1. wf \in Workflow
      BY <2>1, <2>3, TriggerConstants DEF Due
    <3>2. ASSUME NEW w \in Consumer PROVE dispatched[w][wf] = 0
      <4>1. dispatched'[w][wf] = 0
        BY <2>1, <2>3 DEF Unhandled
      <4>2. dispatched[w][wf] \in Nat
        BY <3>1 DEF TypeInv
      <4> QED BY <1>5, <3>1, <4>1, <4>2
    <3> QED BY <2>1, <2>3, <3>2 DEF Unhandled
  <2> QED BY <2>2, <2>3
<1> QED BY <1>1, <1>2, <1>3, <1>5, <1>6, <1>7

\* What a consumer vouches for holds as long as less is unhandled.
LEMMA VouchesOn ==
  ASSUME NEW U, NEW V \in SUBSET U, NEW b, NEW c, b => c, NEW r, Vouches(U, b, r)
  PROVE  Vouches(V, c, r)
  BY DEF Vouches

\* A batch that is taken up vouches for nothing.
LEMMA HandleVouches ==
  ASSUME NEW U, NEW b, NEW B \in SUBSET Message
  PROVE  Vouches(U, b, Handle(B))
<1> DEFINE n == Handle(B)
<1>1. n.pc \in {"idle", "begin"} /\ n.off = {}
  BY HandleFacts
<1>9. Vouches(U, b, n)
  <2> HIDE DEF n
  <2> QED BY <1>1 DEF Vouches, Stages
<1> QED BY <1>9

\* The triggers that are loaded hold every unhandled workflow but the comment's.
LEMMA LoadedAll ==
  ASSUME TypeInv, HandledInv
  PROVE  Unhandled \ {explicit} \subseteq IF entitled THEN DueTriggers ELSE {}
  BY DEF TypeInv, HandledInv, Unhandled, Due, DueTriggers

\* A consumer moves to n, the other ones vouch for what they did.
LEMMA HandledMoves ==
  ASSUME TypeInv, HandledInv, UNCHANGED eventVars, Unhandled' \subseteq Unhandled,
         begun => begun', NEW w \in Consumer, NEW n, Set(w, n),
         Vouches(Unhandled', begun', n)
  PROVE  \A v \in Consumer : Vouches(Unhandled', begun', con'[v])
<1>1. \A v \in Consumer : con'[v] = IF v = w THEN n ELSE con[v]
  BY DEF TypeInv, Set
<1>2. \A v \in Consumer : Vouches(Unhandled', begun', con[v])
  BY VouchesOn DEF HandledInv
<1> QED BY <1>1, <1>2

\* A consumer that is through with a workflow it handled, or that keeps the
\* entry pending, goes on to the triggers or the next of them.
LEMMA AfterVouches ==
  ASSUME TypeInv, HandledInv, NEW U \in SUBSET Unhandled, NEW b,
         NEW r \in ConRecord, \A wf \in r.off : defn[wf] # "valid",
         r.ack /\ r.cur = explicit => explicit \notin U,
         r.ack /\ r.cur # explicit => U \subseteq r.todo
  PROVE  Vouches(U, b, After(r))
<1> DEFINE n == After(r)
<1>1. DueTriggers \subseteq Workflow
  BY TriggerConstants DEF DueTriggers
<1>2. /\ n.pc = "next" /\ n.ack = r.ack /\ n.off = r.off
      /\ n.todo = IF r.cur = explicit THEN (IF entitled THEN DueTriggers ELSE {})
                  ELSE r.todo
  BY <1>1, AfterFacts
<1>3. r.ack => U \subseteq n.todo
  <2>1. CASE r.cur = explicit
    BY <1>2, <2>1, LoadedAll
  <2>2. CASE r.cur # explicit
    BY <1>2, <2>2
  <2> QED BY <2>1, <2>2
<1>9. Vouches(U, b, n)
  <2> HIDE DEF n
  <2> QED BY <1>2, <1>3 DEF Vouches, Stages
<1> QED BY <1>9

\* Steps of a consumer with the message in its hands: what it vouches for next.
LEMMA ConsumeVouches ==
  ASSUME TypeInv, HandledInv, [Next]_vars, NEW w \in Consumer,
         \/ Begin(w) \/ \E wf \in Workflow : CheckDone(w, wf)
         \/ TakeLock(w) \/ LockReplyLost(w) \/ DispatchExplicit(w) \/ ExplicitStartFails(w)
         \/ CommitExplicit(w) \/ DispatchTrigger(w) \/ Mark(w) \/ Unlock(w) \/ Commit(w)
         \/ Acknowledge(w)
  PROVE  \A v \in Consumer : Vouches(Unhandled', begun', con'[v])
<1> USE TriggerConstants
<1> DEFINE r == con[w]
           U == Unhandled'
           b == begun'
<1>1. /\ r \in ConRecord /\ Fits(msg, explicit, r) /\ r.batch \subseteq Message
      /\ DueTriggers \subseteq Workflow
  BY ConFacts
<1>2. /\ UNCHANGED eventVars /\ U \subseteq Unhandled /\ (begun => b)
      /\ explicit' = explicit /\ Due' = Due
  BY Progress DEF eventVars
<1>3. SUFFICES \E n : Set(w, n) /\ Vouches(U, b, n)
  BY <1>2, HandledMoves
<1>4. Vouches(U, b, r)
  BY <1>2, VouchesOn DEF HandledInv
<1>5. Vouches(U, b, Handle(r.batch))
  BY <1>1, HandleVouches
<1>6. Vouches(U, b, Refused(r))
  <2> DEFINE k == [r EXCEPT !.ack = FALSE]
  <2>1. k \in ConRecord /\ k.ack = FALSE /\ k.off = r.off
    BY <1>1 DEF ConRecord
  <2>2. \A wf \in r.off : defn[wf] # "valid"
    BY <1>4 DEF Vouches
  <2>3. Refused(r) = After(k)
    BY DEF Refused
  <2> HIDE DEF k, U, b
  <2> QED BY <1>2, <2>1, <2>2, <2>3, AfterVouches
<1> HIDE DEF U, b
<1>7. ASSUME NEW p \in ConPC
      PROVE  LET n == [r EXCEPT !.pc = p]
             IN  /\ n.pc = p /\ n.cur = r.cur /\ n.todo = r.todo /\ n.ack = r.ack
                 /\ n.off = r.off /\ n.failed = r.failed
  BY <1>1 DEF ConRecord
<1>8. CASE Begin(w)
  <2>1. CASE origin = "workflow"
    <3> DEFINE n == [r EXCEPT !.pc = "ack"]
    <3>1. Set(w, n)
      BY <1>8, <2>1 DEF Begin
    <3>2. n.pc = "ack" /\ n.off = r.off
      BY <1>7 DEF ConPC
    <3>3. U = {}
      BY <1>2, <2>1 DEF Unhandled, Due
    <3> HIDE DEF n
    <3>4. Vouches(U, b, n)
      BY <1>4, <3>2, <3>3 DEF Vouches, Stages
    <3> QED BY <3>1, <3>4
  <2>2. CASE origin # "workflow" /\ (explicit = None \/ explicit \in done)
    <3> DEFINE n == Loaded(r)
    <3>1. Set(w, n)
      BY <1>8, <2>2 DEF Begin
    <3>2. /\ n.pc = "next" /\ n.off = r.off
          /\ n.todo = IF entitled THEN DueTriggers ELSE {}
      BY <1>1 DEF Loaded, ConRecord
    <3>3. explicit \notin Unhandled
      BY <2>2 DEF Unhandled, Due, HandledInv
    <3>4. U \subseteq n.todo
      BY <1>2, <3>2, <3>3, LoadedAll
    <3> HIDE DEF n
    <3>5. Vouches(U, b, n)
      BY <1>4, <3>2, <3>4 DEF Vouches, Stages
    <3> QED BY <3>1, <3>5
  <2>3. CASE origin # "workflow" /\ ~ (explicit = None \/ explicit \in done)
    <3> DEFINE n == [r EXCEPT !.pc = "lock", !.cur = explicit]
    <3>1. Set(w, n)
      BY <1>8, <2>3 DEF Begin
    <3>2. n.pc = "lock" /\ n.off = r.off /\ n.cur = explicit
      BY <1>1 DEF ConRecord
    <3> HIDE DEF n
    <3>3. Vouches(U, b, n)
      BY <1>4, <3>2 DEF Vouches, Stages
    <3> QED BY <3>1, <3>3
  <2> QED BY <2>1, <2>2, <2>3
<1>9. ASSUME NEW wf \in Workflow, CheckDone(w, wf)
      PROVE  \E n : Set(w, n) /\ Vouches(U, b, n)
  <2> DEFINE n == [r EXCEPT !.todo = @ \ {wf}]
             k == [n EXCEPT !.pc = "lock", !.cur = wf]
  <2>1. /\ n \in ConRecord /\ n.pc = r.pc /\ n.off = r.off /\ n.todo = r.todo \ {wf}
        /\ n.ack = r.ack /\ r.pc = "next"
    BY <1>1, <1>9 DEF ConRecord, CheckDone, At
  <2>2. IF wf \in done THEN Set(w, n) ELSE Set(w, k)
    BY <1>9 DEF CheckDone
  <2> HIDE DEF n
  <2>3. /\ k.pc = "lock" /\ k.off = r.off /\ k.todo = n.todo /\ k.cur = wf /\ k.ack = r.ack
    BY <2>1 DEF ConRecord
  <2> HIDE DEF k
  <2>4. CASE wf \in done
    <3>1. wf \notin U
      BY <1>2, <2>4 DEF HandledInv
    <3>2. Vouches(U, b, n)
      BY <1>4, <2>1, <3>1 DEF Vouches, Stages
    <3> QED BY <2>2, <2>4, <3>2
  <2>5. CASE wf \notin done
    <3>1. Vouches(U, b, k)
      BY <1>4, <2>1, <2>3 DEF Vouches, Stages
    <3> QED BY <2>2, <2>5, <3>1
  <2> QED BY <2>4, <2>5
<1>10. CASE TakeLock(w) \/ LockReplyLost(w)
  <2> DEFINE n == [r EXCEPT !.pc = "dispatch"]
  <2>1. /\ n.pc = "dispatch" /\ n.cur = r.cur /\ n.todo = r.todo /\ n.ack = r.ack
        /\ n.off = r.off /\ r.pc = "lock"
    BY <1>7, <1>10 DEF ConPC, TakeLock, LockReplyLost, At
  <2>2. Set(w, n) \/ Set(w, Refused(r))
    BY <1>10 DEF TakeLock, LockReplyLost
  <2> HIDE DEF n
  <2>3. Vouches(U, b, n)
    BY <1>4, <2>1 DEF Vouches, Stages
  <2> QED BY <1>6, <2>2, <2>3
<1>11. CASE DispatchExplicit(w) \/ ExplicitStartFails(w)
  <2> DEFINE n == [r EXCEPT !.pc = "raise"]
             k == [r EXCEPT !.pc = "flushed", !.failed = TRUE]
             l == [r EXCEPT !.pc = "flushed"]
  <2>1. /\ n.pc = "raise" /\ n.cur = r.cur /\ n.off = r.off
        /\ k.pc = "flushed" /\ k.cur = r.cur /\ k.off = r.off /\ k.failed = TRUE
        /\ l.pc = "flushed" /\ l.cur = r.cur /\ l.off = r.off
    BY <1>1 DEF ConRecord
  <2>2. r.cur = explicit
    BY <1>11 DEF DispatchExplicit, ExplicitStartFails
  <2>3. defn[r.cur] \in {"valid", "missing", "invalid"}
    <3>1. r.cur \in Workflow
      BY <1>1, <1>11 DEF DispatchExplicit, ExplicitStartFails, At, Fits, Stages
    <3> QED BY <3>1 DEF TypeInv
  <2>4. Set(w, n) \/ Set(w, k) \/ (Set(w, l) /\ b)
    BY <1>11, <2>3 DEF DispatchExplicit, ExplicitStartFails, b
  <2> HIDE DEF n, k, l
  <2>5. Vouches(U, b, n) /\ Vouches(U, b, k) /\ (b => Vouches(U, b, l))
    BY <1>4, <2>1, <2>2 DEF Vouches, Stages
  <2> QED BY <2>4, <2>5
<1>12. CASE CommitExplicit(w)
  <2> DEFINE n == [r EXCEPT !.pc = "mark"]
  <2>1. n.pc = "mark" /\ n.cur = r.cur /\ n.off = r.off /\ n.ack = r.ack /\ Set(w, n)
    BY <1>7, <1>12 DEF ConPC, CommitExplicit, Goto
  <2>2. r.cur = explicit /\ r.pc = "flushed"
    BY <1>1, <1>12 DEF CommitExplicit, At, Fits
  <2>3. r.failed => status' = "failed"
    BY <1>12 DEF CommitExplicit
  <2>4. r.failed \/ b
    BY <1>4, <2>2 DEF Vouches
  <2>5. r.cur \notin U
    BY <1>2, <2>2, <2>3, <2>4 DEF Unhandled, U, b
  <2> HIDE DEF n
  <2>6. Vouches(U, b, n)
    BY <1>4, <2>1, <2>2, <2>5 DEF Vouches, Stages
  <2> QED BY <2>1, <2>6
<1>13. CASE DispatchTrigger(w)
  <2> DEFINE n == [r EXCEPT !.pc = "mark"]
             k == [r EXCEPT !.pc = "mark", !.off = @ \cup {r.cur}]
  <2>1. /\ n.pc = "mark" /\ n.cur = r.cur /\ n.off = r.off /\ n.ack = r.ack
        /\ n.todo = r.todo
        /\ k.pc = "mark" /\ k.cur = r.cur /\ k.off = r.off \cup {r.cur} /\ k.ack = r.ack
        /\ k.todo = r.todo
    BY <1>1 DEF ConRecord
  <2>2. r.cur # explicit /\ r.pc = "dispatch" /\ r.cur \in Workflow
    BY <1>1, <1>13 DEF DispatchTrigger, At, Fits, Stages
  <2>3. CASE defn[r.cur] = "valid"
    <3>1. Set(w, n) /\ dispatched' = Counted(w)
      BY <1>13, <2>3 DEF DispatchTrigger, Goto
    <3>2. dispatched'[w][r.cur] = dispatched[w][r.cur] + 1 /\ dispatched[w][r.cur] \in Nat
      BY <2>2, <3>1, CountedFacts DEF TypeInv
    <3>3. r.cur \notin U
      BY <1>2, <2>2, <3>2 DEF Unhandled, U
    <3> HIDE DEF n
    <3>4. Vouches(U, b, n)
      BY <1>4, <2>1, <2>2, <3>3 DEF Vouches, Stages
    <3> QED BY <3>1, <3>4
  <2>4. CASE defn[r.cur] # "valid"
    <3>1. Set(w, k)
      BY <1>13, <2>4 DEF DispatchTrigger
    <3>2. r.cur \notin U
      BY <1>2, <2>2, <2>4 DEF Unhandled, Due
    <3> HIDE DEF k
    <3>4. Vouches(U, b, k)
      BY <1>4, <2>1, <2>2, <2>4, <3>2 DEF Vouches, Stages
    <3> QED BY <3>1, <3>4
  <2> QED BY <2>3, <2>4
<1>14. CASE Mark(w)
  <2> DEFINE n == [r EXCEPT !.pc = "unlock"]
  <2>1. /\ n.pc = "unlock" /\ n.cur = r.cur /\ n.off = r.off /\ n.ack = r.ack
        /\ n.todo = r.todo /\ r.pc = "mark" /\ Set(w, n)
    BY <1>7, <1>14 DEF ConPC, Mark, Goto, At
  <2> HIDE DEF n
  <2>2. Vouches(U, b, n)
    BY <1>4, <2>1 DEF Vouches, Stages
  <2> QED BY <2>1, <2>2
<1>15. CASE Unlock(w)
  <2>1. CASE r.pc = "raise"
    BY <1>5, <1>15, <2>1 DEF Unlock, At
  <2>2. CASE r.pc = "unlock"
    <3>1. Set(w, After(r))
      BY <1>15, <2>2 DEF Unlock, At
    <3>2. /\ \A wf \in r.off : defn[wf] # "valid"
          /\ r.ack => r.cur \notin U
          /\ r.ack /\ r.cur # explicit => U \subseteq r.todo
      BY <1>4, <2>2 DEF Vouches, Stages
    <3>3. Vouches(U, b, After(r))
      BY <1>1, <1>2, <3>2, AfterVouches
    <3> QED BY <3>1, <3>3
  <2> QED BY <1>15, <2>1, <2>2 DEF Unlock, At
<1>16. CASE Commit(w)
  <2> DEFINE n == [r EXCEPT !.pc = "ack"]
  <2>1. n.pc = "ack" /\ n.off = r.off
    BY <1>7 DEF ConPC
  <2>2. IF r.ack THEN Set(w, n) ELSE Set(w, Handle(r.batch))
    BY <1>16 DEF Commit
  <2>3. r.ack => U = {}
    BY <1>4, <1>16 DEF Vouches, Commit, At
  <2> HIDE DEF n
  <2>4. r.ack => Vouches(U, b, n)
    BY <1>4, <2>1, <2>3 DEF Vouches, Stages
  <2> QED BY <1>5, <2>2, <2>4
<1>17. CASE Acknowledge(w)
  BY <1>5, <1>17 DEF Acknowledge
<1> QED BY <1>8, <1>9, <1>10, <1>11, <1>12, <1>13, <1>14, <1>15, <1>16, <1>17

\* A consumer that takes up a delivery, fails or is started again vouches for
\* nothing, or keeps the entry pending.
LEMMA FaultVouches ==
  ASSUME TypeInv, HandledInv, [Next]_vars, NEW w \in Consumer,
         Error(w) \/ Crash(w) \/ \E M \in SUBSET Message : Deliver(w, M)
  PROVE  \A v \in Consumer : Vouches(Unhandled', begun', con'[v])
<1> DEFINE r == con[w]
           U == Unhandled'
           b == begun'
<1>1. /\ r \in ConRecord /\ Fits(msg, explicit, r) /\ r.batch \subseteq Message
  BY ConFacts
<1>2. UNCHANGED eventVars /\ U \subseteq Unhandled /\ (begun => b)
  BY Progress
<1>3. SUFFICES \E n : Set(w, n) /\ Vouches(U, b, n)
  BY <1>2, HandledMoves
<1>4. Vouches(U, b, r)
  BY <1>2, VouchesOn DEF HandledInv
<1> HIDE DEF U, b
<1>5. \A B \in SUBSET Message : Vouches(U, b, Handle(B))
  BY HandleVouches
<1>6. CASE \E M \in SUBSET Message : Deliver(w, M)
  BY <1>5, <1>6 DEF Deliver
<1>7. CASE Crash(w)
  <2>1. Vouches(U, b, IdleConsumer)
    BY IdleType DEF Vouches, Stages
  <2> QED BY <1>7, <2>1 DEF Crash
<1>8. CASE Error(w) /\ r.pc \in {"idle", "ack"}
  <2> DEFINE n == [IdleConsumer EXCEPT !.pc = "stopped"]
  <2>1. n.pc = "stopped" /\ n.off = {} /\ Set(w, n)
    BY <1>8 DEF IdleConsumer, Error
  <2> HIDE DEF n
  <2>2. Vouches(U, b, n)
    BY <2>1 DEF Vouches, Stages
  <2> QED BY <2>1, <2>2
<1>9. CASE Error(w) /\ r.pc \in {"dispatch", "mark"} /\ r.cur # explicit
  <2> DEFINE n == [r EXCEPT !.pc = "unlock", !.ack = FALSE]
  <2>1. n.pc = "unlock" /\ n.off = r.off /\ n.ack = FALSE /\ Set(w, n)
    BY <1>1, <1>9 DEF ConRecord, Error
  <2> HIDE DEF n
  <2>2. Vouches(U, b, n)
    BY <1>4, <2>1 DEF Vouches
  <2> QED BY <2>1, <2>2
<1>10. CASE Error(w) /\ r.pc \in {"dispatch", "flushed", "mark"} /\ r.cur = explicit
  <2> DEFINE n == [r EXCEPT !.pc = "raise"]
  <2>1. n.pc = "raise" /\ n.off = r.off /\ n.cur = r.cur /\ Set(w, n)
    BY <1>1, <1>10 DEF ConRecord, Error, Goto
  <2> HIDE DEF n
  <2>2. Vouches(U, b, n)
    BY <1>4, <1>10, <2>1 DEF Vouches
  <2> QED BY <2>1, <2>2
<1>11. CASE Error(w) /\ r.pc \in {"begin", "next", "lock", "unlock", "raise"}
  <2>1. Set(w, Handle(r.batch))
    BY <1>11 DEF Error
  <2> QED BY <1>1, <1>5, <2>1
<1>12. ASSUME Error(w)
       PROVE  \/ r.pc \in {"idle", "ack"}
              \/ r.pc \in {"dispatch", "mark"} /\ r.cur # explicit
              \/ r.pc \in {"dispatch", "flushed", "mark"} /\ r.cur = explicit
              \/ r.pc \in {"begin", "next", "lock", "unlock", "raise"}
  BY <1>12 DEF Error
<1> QED BY <1>6, <1>7, <1>8, <1>9, <1>10, <1>11, <1>12

\* Every step leaves each consumer with what it may vouch for.
LEMMA VouchesStep ==
  ASSUME TypeInv, HandledInv, [Next]_vars
  PROVE  \A v \in Consumer : Vouches(Unhandled', begun', con'[v])
<1>1. CASE UNCHANGED con
  <2>1. Unhandled' \subseteq Unhandled /\ (begun => begun')
    BY Progress
  <2>2. \A v \in Consumer : Vouches(Unhandled', begun', con[v])
    BY <2>1, VouchesOn DEF HandledInv
  <2> QED BY <1>1, <2>2
<1>2. ASSUME NEW w \in Consumer,
             \/ Begin(w) \/ \E wf \in Workflow : CheckDone(w, wf)
             \/ TakeLock(w) \/ LockReplyLost(w) \/ DispatchExplicit(w)
             \/ ExplicitStartFails(w) \/ CommitExplicit(w) \/ DispatchTrigger(w)
             \/ Mark(w) \/ Unlock(w) \/ Commit(w) \/ Acknowledge(w)
      PROVE  \A v \in Consumer : Vouches(Unhandled', begun', con'[v])
  BY <1>2, ConsumeVouches
<1>3. ASSUME NEW w \in Consumer,
             \/ Error(w) \/ Crash(w) \/ ReadGroup(w) \/ ClaimIdle(w)
             \/ \E v \in Consumer : ClaimFromSlow(w, v)
      PROVE  \A v \in Consumer : Vouches(Unhandled', begun', con'[v])
  <2>1. Error(w) \/ Crash(w) \/ \E M \in SUBSET Message : Deliver(w, M)
    BY <1>3 DEF ReadGroup, ClaimIdle, ClaimFromSlow, New, Idle, Pending
  <2> QED BY <2>1, FaultVouches
<1>4. CASE \/ UNCHANGED vars \/ PublishEvent \/ \E m \in Message : PublishRepeated(m)
           \/ PublishFails \/ GroupRecreated
           \/ \E wf \in Workflow : ExpireLock(wf) \/ ExpireSlowLock(wf) \/ ExpireDone(wf)
  BY <1>1, <1>4 DEF vars, PublishEvent, PublishRepeated, PublishFails, GroupRecreated,
                    ExpireLock, ExpireSlowLock, ExpireDone
<1> QED BY <1>2, <1>3, <1>4 DEF Next, Consume, Faulty

\* A marker is set only for a workflow that was handled.
LEMMA MarkersStep ==
  ASSUME TypeInv, HandledInv, [Next]_vars
  PROVE  done' \cap Unhandled' = {}
<1>1. Unhandled' \subseteq Unhandled
  BY Progress
<1>2. done' \subseteq done \/ \E w \in Consumer : Mark(w)
  BY DEF vars, redisVars, Next, Consume, Faulty, PublishEvent, PublishRepeated,
         PublishFails, Deliver, ReadGroup, ClaimIdle, ClaimFromSlow, GroupRecreated, Begin,
         CheckDone, TakeLock, LockReplyLost, DispatchExplicit, ExplicitStartFails,
         CommitExplicit, DispatchTrigger, Unlock, Commit, Acknowledge, Error, Crash,
         ExpireLock, ExpireSlowLock, ExpireDone
<1>3. ASSUME NEW w \in Consumer, Mark(w) PROVE done' \cap Unhandled' = {}
  <2>1. Vouches(Unhandled, begun, con[w]) /\ con[w].pc = "mark"
    BY <1>3 DEF HandledInv, Mark, At
  <2>2. con[w].cur \notin Unhandled
    BY <2>1 DEF Vouches
  <2> QED BY <1>1, <1>3, <2>2 DEF Mark, MarkDone, HandledInv
<1> QED BY <1>1, <1>2, <1>3 DEF HandledInv

\* Only triggers without a valid definition go offline.
LEMMA OnlineStep ==
  ASSUME TypeInv, HandledInv, [Next]_vars
  PROVE  \A wf \in Configured : wf # explicit /\ defn[wf] = "valid" => wf \in online'
<1>1. online' = online \/ \E w \in Consumer : Commit(w)
  BY DEF vars, dbVars, Next, Consume, Faulty, PublishEvent, PublishRepeated,
         PublishFails, Deliver, ReadGroup, ClaimIdle, ClaimFromSlow, GroupRecreated, Begin,
         CheckDone, TakeLock, LockReplyLost, DispatchExplicit, ExplicitStartFails,
         CommitExplicit, DispatchTrigger, Mark, Unlock, Acknowledge, Error, Crash,
         ExpireLock, ExpireSlowLock, ExpireDone
<1>2. ASSUME NEW w \in Consumer, Commit(w)
      PROVE  \A wf \in Configured : wf # explicit /\ defn[wf] = "valid" => wf \in online'
  <2>1. \A wf \in con[w].off : defn[wf] # "valid"
    BY DEF HandledInv, Vouches
  <2> QED BY <1>2, <2>1 DEF Commit, HandledInv
<1> QED BY <1>1, <1>2 DEF HandledInv

\* An entry is acknowledged by a consumer that handled every due workflow.
LEMMA AckedStep ==
  ASSUME TypeInv, HandledInv, [Next]_vars, NEW m \in Message, msg'[m] = "acked"
  PROVE  Unhandled' = {}
<1>1. Unhandled' \subseteq Unhandled
  BY Progress
<1>2. CASE msg[m] = "acked"
  BY <1>1, <1>2 DEF HandledInv
<1>3. CASE \E w \in Consumer : Acknowledge(w)
  <2>1. PICK w \in Consumer : Acknowledge(w)
    BY <1>3
  <2>2. Vouches(Unhandled, begun, con[w]) /\ con[w].pc = "ack"
    BY <2>1 DEF HandledInv, Acknowledge, At
  <2> QED BY <1>1, <2>2 DEF Vouches
<1>4. CASE UNCHANGED msg
  BY <1>2, <1>4
<1>5. ASSUME NEW k \in Message, Add(k) PROVE msg[m] = "acked"
  BY <1>5 DEF Add, TypeInv
<1>6. ASSUME NEW w \in Consumer, NEW M, Deliver(w, M) PROVE msg[m] = "acked"
  BY <1>6 DEF Deliver
<1>7. ASSUME GroupRecreated PROVE msg[m] = "acked"
  BY <1>7 DEF GroupRecreated
<1>8. \/ UNCHANGED msg \/ GroupRecreated
      \/ \E w \in Consumer : Acknowledge(w)
      \/ \E w \in Consumer, M \in SUBSET Message : Deliver(w, M)
      \/ \E k \in Message : Add(k)
  <2>1. 1 \in Message
    BY TriggerConstants DEF Message
  <2>2. ASSUME NEW w \in Consumer,
               ReadGroup(w) \/ ClaimIdle(w) \/ \E v \in Consumer : ClaimFromSlow(w, v)
        PROVE  \E M \in SUBSET Message : Deliver(w, M)
    BY <2>2 DEF ReadGroup, ClaimIdle, ClaimFromSlow, New, Idle, Pending
  <2> QED BY <2>1, <2>2 DEF vars, redisVars, Next, Consume, Faulty, PublishEvent, PublishRepeated,
         PublishFails, Begin,
         CheckDone, TakeLock, LockReplyLost, DispatchExplicit, ExplicitStartFails,
         CommitExplicit, DispatchTrigger, Mark, Unlock, Commit, Error, Crash,
         ExpireLock, ExpireSlowLock, ExpireDone
<1> QED BY <1>2, <1>3, <1>4, <1>5, <1>6, <1>7, <1>8

\* Every step keeps the invariant of handled entries.
LEMMA HandledStep == TypeInv /\ HandledInv /\ [Next]_vars => HandledInv'
<1> SUFFICES ASSUME TypeInv, HandledInv, [Next]_vars PROVE HandledInv'
  OBVIOUS
<1>1. explicit' = explicit /\ defn' = defn
  BY Progress DEF eventVars
<1>2. \A w \in Consumer : Vouches(Unhandled', begun', con'[w])
  BY VouchesStep
<1>3. \A w \in Consumer : Vouches(Unhandled, begun, con[w])'
  BY <1>1, <1>2 DEF Vouches
<1> QED BY <1>1, <1>3, MarkersStep, OnlineStep, AckedStep DEF HandledInv

\* At first nothing is dispatched and no consumer vouches for anything.
LEMMA InitHandled == Init => HandledInv
<1> SUFFICES ASSUME Init PROVE HandledInv
  OBVIOUS
<1>1. \A w \in Consumer : Vouches(Unhandled, begun, con[w])
  BY IdleType DEF Init, Vouches, Stages
<1> QED BY <1>1 DEF Init, HandledInv

\* An entry of the stream is acknowledged only when every workflow the event is
\* due to start was dispatched and the comment's was started or the comment
\* marked as failed, whatever locks are refused, lost or expire, whichever
\* consumer fails and however the entries are claimed.
THEOREM AckedOnlyHandled == Spec => []AckedIsHandled
<1>1. TypeInv /\ HandledInv => AckedIsHandled
  <2> SUFFICES ASSUME TypeInv, HandledInv, \E m \in Message : msg[m] = "acked",
                      NEW wf \in Due
               PROVE  IF wf = explicit THEN begun \/ status = "failed"
                      ELSE \E w \in Consumer : dispatched[w][wf] > 0
    BY DEF AckedIsHandled
  <2>1. wf \notin Unhandled
    BY DEF HandledInv
  <2>2. CASE wf = explicit
    BY <2>1, <2>2 DEF Unhandled
  <2>3. CASE wf # explicit
    <3>1. wf \in Workflow
      BY <2>3, TriggerConstants DEF Due
    <3>2. PICK w \in Consumer : dispatched[w][wf] # 0
      BY <2>1, <2>3 DEF Unhandled
    <3>3. dispatched[w][wf] \in Nat
      BY <3>1 DEF TypeInv
    <3> QED BY <2>3, <3>2, <3>3
  <2> QED BY <2>2, <2>3
<1> QED BY <1>1, InitType, TypeStep, InitHandled, HandledStep, PTL DEF Spec

-----------------------------------------------------------------------------
(* Starts per consumer.                                                    *)

\* Without a dispatch and without a fault: a consumer leaves the place before
\* the marker only with the marker set, and comes to a lock only past a marker
\* that was not there.
LEMMA StartsOn ==
  ASSUME NEW f \in Nat, NEW d \in Nat, NEW D, NEW E, D \subseteq E, NEW r, NEW n, NEW wf,
         Starts(f, D, d, r, wf),
         r.pc = "mark" /\ r.cur = wf => (n.pc = "mark" /\ n.cur = wf) \/ wf \in E,
         n.pc \in {"lock", "dispatch"} /\ n.cur = wf =>
           \/ r.pc \in {"lock", "dispatch"} /\ r.cur = wf
           \/ wf \notin D /\ r.pc # "mark"
  PROVE  Starts(f, E, d, n, wf)
  BY DEF Starts

\* A fault pays for one more dispatch.
LEMMA StartsPaid ==
  ASSUME NEW f \in Nat, NEW d \in Nat, NEW D, NEW E, NEW r, NEW n, NEW wf,
         Starts(f, D, d, r, wf)
  PROVE  Starts(f + 1, E, d, n, wf)
  BY DEF Starts

\* The steps of consumer w that are no fault.
Works(w) == Consume(w) \/ ClaimIdle(w) \/ \E v \in Consumer : ClaimFromSlow(w, v)

\* A consumer dispatches, marks and moves for itself.
LEMMA WorksAlone ==
  ASSUME TypeInv, NEW w \in Consumer, Works(w)
  PROVE  /\ faults' = faults /\ done \subseteq done'
         /\ \A v \in Consumer \ {w} : /\ con'[v] = con[v]
                                      /\ \A wf \in Workflow :
                                           dispatched'[v][wf] = dispatched[v][wf]
<1>1. faults' = faults /\ done \subseteq done' /\ \E n : Set(w, n)
  BY DEF Works, Consume, ReadGroup, ClaimIdle, ClaimFromSlow, Deliver, Begin, CheckDone,
         TakeLock, DispatchExplicit, CommitExplicit, DispatchTrigger, Mark, MarkDone, Unlock,
         Commit, Acknowledge, Goto, redisVars
<1>2. \A v \in Consumer \ {w} : con'[v] = con[v]
  BY <1>1 DEF Set, TypeInv
<1>3. \/ UNCHANGED dispatched
      \/ /\ DispatchExplicit(w) \/ DispatchTrigger(w)
         /\ dispatched' = Counted(w)
  BY DEF Works, Consume, ReadGroup, ClaimIdle, ClaimFromSlow, Deliver, Begin, CheckDone,
         TakeLock, DispatchExplicit, CommitExplicit, DispatchTrigger, Mark, Unlock,
         Commit, Acknowledge, runVars
<1>4. CASE UNCHANGED dispatched
  BY <1>1, <1>2, <1>4
<1>5. CASE (DispatchExplicit(w) \/ DispatchTrigger(w)) /\ dispatched' = Counted(w)
  <2>1. con[w].cur \in Workflow
    BY <1>5, ConFacts DEF DispatchExplicit, DispatchTrigger, At, Fits, Stages
  <2> QED BY <1>1, <1>2, <1>5, <2>1, CountedFacts
<1> QED BY <1>3, <1>4, <1>5

\* What a consumer dispatched itself stays within what was paid for.
LEMMA OwnStarts ==
  ASSUME TypeInv, StartsInv, NEW w \in Consumer, Works(w), NEW wf \in Workflow \ {explicit}
  PROVE  Starts(faults, done', dispatched'[w][wf], con'[w], wf)
<1> USE TriggerConstants
<1> DEFINE r == con[w]
           n == con'[w]
           d == dispatched[w][wf]
<1>0. SUFFICES Starts(faults, done', dispatched'[w][wf], n, wf)
  OBVIOUS
<1>1. /\ r \in ConRecord /\ Fits(msg, explicit, r) /\ r.batch \subseteq Message
      /\ DueTriggers \subseteq Workflow
  BY ConFacts
<1>2. faults \in Nat /\ d \in Nat /\ done \subseteq done' /\ Starts(faults, done, d, r, wf)
  BY WorksAlone DEF TypeInv, StartsInv
<1>3. \A k : Set(w, k) => n = k
  BY DEF TypeInv, Set
<1>4. ASSUME UNCHANGED dispatched, n.pc \notin {"lock", "dispatch", "mark"},
             r.pc # "mark" \/ r.cur # wf \/ wf \in done'
      PROVE  Starts(faults, done', dispatched'[w][wf], n, wf)
  <2> HIDE DEF r, n
  <2> QED BY <1>2, <1>4, StartsOn
<1>5. \A B \in SUBSET Message : Handle(B).pc \in {"idle", "begin"}
  BY HandleFacts
<1>6. ASSUME NEW M \in SUBSET Message, Deliver(w, M)
      PROVE  Starts(faults, done', dispatched'[w][wf], n, wf)
  <2>1. n.pc \in {"idle", "begin"} /\ r.pc = "idle" /\ UNCHANGED dispatched
    BY <1>3, <1>5, <1>6 DEF Deliver, At, runVars
  <2> QED BY <1>4, <2>1
<1>7. CASE ReadGroup(w) \/ ClaimIdle(w) \/ \E v \in Consumer : ClaimFromSlow(w, v)
  BY <1>6, <1>7 DEF ReadGroup, ClaimIdle, ClaimFromSlow, New, Idle, Pending
<1>8. CASE Begin(w)
  <2>1. r.pc = "begin" /\ UNCHANGED dispatched
    BY <1>8 DEF Begin, At, runVars
  <2>2. n.pc \in {"ack", "next"} \/ (n.pc = "lock" /\ n.cur = explicit)
    <3>1. n \in {[r EXCEPT !.pc = "ack"], Loaded(r), [r EXCEPT !.pc = "lock", !.cur = explicit]}
      BY <1>3, <1>8 DEF Begin
    <3> HIDE DEF n
    <3> QED BY <1>1, <3>1 DEF ConRecord, Loaded
  <2> HIDE DEF r, n
  <2> QED BY <1>2, <2>1, <2>2, StartsOn
<1>9. ASSUME NEW k \in Workflow, CheckDone(w, k)
      PROVE  Starts(faults, done', dispatched'[w][wf], n, wf)
  <2>1. r.pc = "next" /\ UNCHANGED dispatched /\ done' = done
    BY <1>9 DEF CheckDone, At, runVars, redisVars
  <2>2. n.pc = "next" \/ (n.pc = "lock" /\ n.cur = k /\ k \notin done)
    <3> DEFINE q == [r EXCEPT !.todo = @ \ {k}]
    <3>1. n = IF k \in done THEN q ELSE [q EXCEPT !.pc = "lock", !.cur = k]
      BY <1>3, <1>9 DEF CheckDone
    <3>2. q \in ConRecord /\ q.pc = "next"
      BY <1>1, <2>1 DEF ConRecord
    <3> HIDE DEF n, q
    <3> QED BY <3>1, <3>2 DEF ConRecord
  <2> HIDE DEF r, n
  <2> QED BY <1>2, <2>1, <2>2, StartsOn
<1>10. CASE TakeLock(w)
  <2>1. r.pc = "lock" /\ UNCHANGED dispatched
    BY <1>10 DEF TakeLock, At, runVars
  <2>2. n.pc = "next" \/ (n.pc = "dispatch" /\ n.cur = r.cur)
    <3>1. n \in {Refused(r), [r EXCEPT !.pc = "dispatch"]}
      BY <1>3, <1>10 DEF TakeLock
    <3>2. Refused(r).pc = "next"
      BY <1>1, RefusedFacts
    <3> HIDE DEF n
    <3> QED BY <1>1, <3>1, <3>2 DEF ConRecord
  <2> HIDE DEF r, n
  <2> QED BY <1>2, <2>1, <2>2, StartsOn
<1>11. CASE DispatchExplicit(w)
  <2>1. r.pc = "dispatch" /\ r.cur = explicit /\ r.cur \in Workflow
    BY <1>1, <1>11 DEF DispatchExplicit, At, Fits, Stages
  <2>2. dispatched'[w][wf] = d
    BY <1>11, <2>1, CountedFacts DEF DispatchExplicit
  <2>3. n.pc \in {"raise", "flushed"}
    <3>1. n \in {[r EXCEPT !.pc = "raise"], [r EXCEPT !.pc = "flushed"],
                 [r EXCEPT !.pc = "flushed", !.failed = TRUE]}
      BY <1>3, <1>11 DEF DispatchExplicit
    <3> HIDE DEF n
    <3> QED BY <1>1, <3>1 DEF ConRecord
  <2> HIDE DEF r, n, d
  <2> QED BY <1>2, <2>1, <2>2, <2>3, StartsOn
<1>12. CASE CommitExplicit(w)
  <2>1. r.pc = "flushed" /\ r.cur = explicit /\ UNCHANGED dispatched
    BY <1>1, <1>12 DEF CommitExplicit, At, Fits, runVars
  <2>2. n.pc = "mark"
    BY <1>1, <1>3, <1>12 DEF CommitExplicit, Goto, ConRecord
  <2> HIDE DEF r, n
  <2> QED BY <1>2, <2>1, <2>2, StartsOn
<1>13. CASE DispatchTrigger(w)
  <2>1. r.pc = "dispatch" /\ r.cur \in Workflow
    BY <1>1, <1>13 DEF DispatchTrigger, At, Fits, Stages
  <2>2. n.pc = "mark" /\ n.cur = r.cur
    <3>1. n \in {[r EXCEPT !.pc = "mark"], [r EXCEPT !.pc = "mark", !.off = @ \cup {r.cur}]}
      BY <1>3, <1>13 DEF DispatchTrigger, Goto
    <3> HIDE DEF n
    <3> QED BY <1>1, <3>1 DEF ConRecord
  <2>3. dispatched' \in {dispatched, Counted(w)}
    BY <1>13 DEF DispatchTrigger
  <2>4. dispatched'[w][wf] = d \/ (r.cur = wf /\ dispatched'[w][wf] = d + 1)
    BY <2>1, <2>3, CountedFacts
  <2> HIDE DEF r, n, d
  <2> QED BY <1>2, <2>1, <2>2, <2>4 DEF Starts
<1>14. CASE Mark(w)
  <2>1. UNCHANGED dispatched /\ r.cur \in done'
    BY <1>14 DEF Mark, MarkDone, runVars
  <2>2. n.pc = "unlock"
    BY <1>1, <1>3, <1>14 DEF Mark, Goto, ConRecord
  <2> QED BY <1>4, <2>1, <2>2
<1>15. CASE Unlock(w)
  <2>1. UNCHANGED dispatched /\ r.pc # "mark"
    BY <1>15 DEF Unlock, At, runVars
  <2>2. n.pc \in {"idle", "begin", "next"}
    <3>1. n \in {Handle(r.batch), After(r)}
      BY <1>3, <1>15 DEF Unlock
    <3> QED BY <1>1, <1>5, <3>1, AfterFacts
  <2> QED BY <1>4, <2>1, <2>2
<1>16. CASE Commit(w)
  <2>1. UNCHANGED dispatched /\ r.pc = "next"
    BY <1>16 DEF Commit, At, runVars
  <2>2. n.pc \in {"idle", "begin", "ack"}
    <3>1. n \in {Handle(r.batch), [r EXCEPT !.pc = "ack"]}
      BY <1>3, <1>16 DEF Commit
    <3>2. [r EXCEPT !.pc = "ack"].pc = "ack"
      BY <1>1 DEF ConRecord
    <3> QED BY <1>1, <1>5, <3>1, <3>2
  <2> QED BY <1>4, <2>1, <2>2
<1>17. CASE Acknowledge(w)
  <2>1. UNCHANGED dispatched /\ r.pc = "ack"
    BY <1>17 DEF Acknowledge, At, runVars
  <2>2. n.pc \in {"idle", "begin"}
    BY <1>1, <1>3, <1>5, <1>17 DEF Acknowledge
  <2> QED BY <1>4, <2>1, <2>2
<1> QED BY <1>7, <1>8, <1>9, <1>10, <1>11, <1>12, <1>13, <1>14, <1>15, <1>16, <1>17
     DEF Works, Consume

\* Every step keeps the account of starts and faults.
LEMMA StartsStep == TypeInv /\ StartsInv /\ [Next]_vars => StartsInv'
<1> SUFFICES ASSUME TypeInv, StartsInv, [Next]_vars PROVE StartsInv'
  OBVIOUS
<1>1. explicit' = explicit /\ (begun => begun')
  BY Progress DEF eventVars
<1>2. ASSUME NEW v \in Consumer, NEW wf \in Workflow \ {explicit}
      PROVE  Starts(faults', done', dispatched'[v][wf], con'[v], wf)
  <2>1. /\ faults \in Nat /\ dispatched[v][wf] \in Nat
        /\ Starts(faults, done, dispatched[v][wf], con[v], wf)
    BY DEF TypeInv, StartsInv
  <2>2. ASSUME NEW w \in Consumer, Works(w)
        PROVE  Starts(faults', done', dispatched'[v][wf], con'[v], wf)
    <3>1. CASE v = w
      BY <2>2, <3>1, OwnStarts, WorksAlone
    <3>2. CASE v # w
      <4>1. /\ faults' = faults /\ done \subseteq done' /\ con'[v] = con[v]
            /\ dispatched'[v][wf] = dispatched[v][wf]
        BY <2>2, <3>2, WorksAlone
      <4> QED BY <2>1, <4>1, StartsOn
    <3> QED BY <3>1, <3>2
  <2>3. ASSUME UNCHANGED <<con, done, dispatched, faults>>
        PROVE  Starts(faults', done', dispatched'[v][wf], con'[v], wf)
    BY <2>1, <2>3
  <2>4. ASSUME faults' = faults + 1, UNCHANGED dispatched
        PROVE  Starts(faults', done', dispatched'[v][wf], con'[v], wf)
    BY <2>1, <2>4, StartsPaid
  <2>5. CASE \/ UNCHANGED vars \/ PublishEvent \/ \E m \in Message : PublishRepeated(m)
             \/ \E k \in Workflow : ExpireLock(k)
    BY <2>3, <2>5 DEF vars, redisVars, runVars, PublishEvent, PublishRepeated, ExpireLock
  <2>6. CASE Faulty
    BY <2>4, <2>6 DEF Faulty, PublishFails, GroupRecreated, LockReplyLost,
                      ExplicitStartFails, Error, Crash, ExpireSlowLock, ExpireDone, Fault,
                      runVars
  <2>7. \/ \E w \in Consumer : Works(w)
        \/ UNCHANGED vars \/ PublishEvent \/ \E m \in Message : PublishRepeated(m)
        \/ \E k \in Workflow : ExpireLock(k)
        \/ Faulty
    BY DEF Next, Works
  <2> QED BY <2>2, <2>5, <2>6, <2>7
<1>3. ASSUME NEW v \in Consumer, explicit \in Workflow
      PROVE  dispatched'[v][explicit] <= 1 /\ (~ begun' => dispatched'[v][explicit] = 0)
  <2>1. /\ dispatched[v][explicit] \in Nat /\ dispatched[v][explicit] <= 1
        /\ ~ begun => dispatched[v][explicit] = 0
    BY <1>3 DEF TypeInv, StartsInv
  <2>2. \/ UNCHANGED dispatched
        \/ \E w \in Consumer : DispatchExplicit(w) \/ DispatchTrigger(w)
    BY DEF vars, runVars, Next, Consume, Faulty, PublishEvent, PublishRepeated,
           PublishFails, Deliver, ReadGroup, ClaimIdle, ClaimFromSlow, GroupRecreated,
           Begin, CheckDone, TakeLock, LockReplyLost, ExplicitStartFails, CommitExplicit,
           Mark, Unlock, Commit, Acknowledge, Error, Crash, ExpireLock, ExpireSlowLock,
           ExpireDone
  <2>3. CASE UNCHANGED dispatched
    BY <1>1, <2>1, <2>3
  <2>4. ASSUME NEW w \in Consumer, DispatchTrigger(w)
        PROVE  dispatched'[v][explicit] = dispatched[v][explicit]
    <3>1. con[w].cur \in Workflow /\ con[w].cur # explicit
      BY <2>4, ConFacts DEF DispatchTrigger, At, Fits, Stages
    <3>2. dispatched' \in {dispatched, Counted(w)}
      BY <2>4 DEF DispatchTrigger
    <3> QED BY <1>3, <3>1, <3>2, CountedFacts
  <2>5. ASSUME NEW w \in Consumer, DispatchExplicit(w)
        PROVE  \/ dispatched'[v][explicit] = dispatched[v][explicit]
               \/ ~ begun /\ begun' /\ dispatched'[v][explicit] = dispatched[v][explicit] + 1
    <3>1. con[w].cur = explicit
      BY <2>5 DEF DispatchExplicit
    <3>2. UNCHANGED dispatched \/ (~ begun /\ begun' /\ dispatched' = Counted(w))
      BY <2>5 DEF DispatchExplicit
    <3> QED BY <1>3, <3>1, <3>2, CountedFacts
  <2> QED BY <1>1, <2>1, <2>2, <2>3, <2>4, <2>5
<1> QED BY <1>1, <1>2, <1>3 DEF StartsInv

\* At first nothing was dispatched.
LEMMA InitStarts == Init => StartsInv
  BY DEF Init, StartsInv, Starts

\* However often the event is published, delivered and claimed, a consumer
\* dispatches a workflow at most once and once more per error, crash or expiry:
\* only a fault makes it start a workflow again that it had started.
THEOREM StartedOncePerFault == Spec => []OncePerConsumer
<1>1. TypeInv /\ StartsInv => OncePerConsumer
  <2> SUFFICES ASSUME TypeInv, StartsInv, NEW w \in Consumer, NEW wf \in Workflow
               PROVE  dispatched[w][wf] <= 1 + faults
    BY DEF OncePerConsumer
  <2>1. dispatched[w][wf] \in Nat /\ faults \in Nat
    BY DEF TypeInv
  <2> QED BY <2>1 DEF StartsInv, Starts
<1> QED BY <1>1, InitType, TypeStep, InitStarts, StartsStep, PTL DEF Spec
=============================================================================

------------------------------ MODULE Semaphore -----------------------------
(***************************************************************************)
(* What an organisation's concurrency semaphore promises: permits are      *)
(* handed out one at a time, only below a limit that is in force, and are  *)
(* taken back from a holder only at its release or after it has lapsed.    *)
(***************************************************************************)
EXTENDS Integers, FiniteSets

CONSTANTS Holder, NoLimit

VARIABLES
  holders,   \* the holders of a permit
  lapsed,    \* those among Holder whose lease has run out
  leaving,   \* those that asked to give their permit back
  inForce    \* the limits that may be enforced at this moment

Below(n, l) == IF l = NoLimit THEN TRUE ELSE n < l

Init == holders = {}

\* The lapsed holders `gone` are dropped and h takes, or keeps, its permit.
Acquire(h, gone) ==
  /\ gone \subseteq holders \cap lapsed
  /\ \/ h \in holders \ gone
     \/ \E l \in inForce : Below(Cardinality(holders \ gone), l)
  /\ holders' = (holders \ gone) \cup {h}

\* The lapsed holders `gone` are dropped and nobody is admitted.
Drop(gone) ==
  /\ gone \subseteq holders \cap lapsed
  /\ holders' = holders \ gone

Release(h) ==
  /\ h \in leaving
  /\ holders' = holders \ {h}

Next ==
  \/ \E h \in Holder, gone \in SUBSET holders : Acquire(h, gone)
  \/ \E gone \in SUBSET holders : Drop(gone)
  \/ \E h \in holders : Release(h)

\* The lease clock, the requests and the limits move on their own.
Spec == Init /\ [][Next]_holders
=============================================================================

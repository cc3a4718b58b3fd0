----------------------------- MODULE AtLeastOnce -----------------------------
(***************************************************************************)
(* What the transactional outbox promises, without rows, locks, pipelines  *)
(* or workers (README, "Transactional Outbox"): an event is committed with *)
(* its change, published any number of times after that, and settled, that *)
(* is never looked at again, only once it has been published.              *)
(***************************************************************************)
CONSTANT Events

VARIABLES
  committed,   \* events whose transaction has committed
  published,   \* events that have reached the stream at least once
  settled      \* events that will not be published again

promiseVars == <<committed, published, settled>>

Init ==
  /\ committed = {}
  /\ published = {}
  /\ settled = {}

Commit(e) ==
  /\ committed' = committed \cup {e}
  /\ UNCHANGED <<published, settled>>

\* Publishing again an event that is not settled changes nothing here.
Publish(e) ==
  /\ e \in committed
  /\ published' = published \cup {e}
  /\ UNCHANGED <<committed, settled>>

\* A whole batch is settled at once.
Settle(batch) ==
  /\ batch \subseteq published
  /\ settled' = settled \cup batch
  /\ UNCHANGED <<committed, published>>

Next ==
  \/ \E e \in Events : Commit(e) \/ Publish(e)
  \/ \E batch \in SUBSET Events : Settle(batch)

Spec == Init /\ [][Next]_promiseVars
==============================================================================

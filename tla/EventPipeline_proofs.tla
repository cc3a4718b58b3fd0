------------------------ MODULE EventPipeline_proofs -------------------------
(***************************************************************************)
(* Theorems about OutboxWorker, for any events, instances, bounds and      *)
(* switches; about StreamListener, for any stream, any COUNT, with failures*)
(* of every step and with a Redis that loses its data; and about their     *)
(* composition, from the invariants of the two halves.                     *)
(***************************************************************************)
EXTENDS EventPipeline, FiniteSetTheorems, TLAPS

-----------------------------------------------------------------------------
(* The worker: the inductive invariant.                                    *)

\* What the row locks protect: a worker's transaction holds pending rows that
\* no other worker holds, and its pipeline carries rows it holds.
LocksHeld ==
  \A i \in Instances :
    /\ locked[i] \subseteq Pending
    /\ wire[i] \subseteq locked[i]
    /\ \A j \in Instances \ {i} : locked[i] \cap locked[j] = {}

\* In a round in which nothing was refused, whatever is no longer due on the
\* connection has been executed.
SentIsPublished ==
  \A i \in Instances : wpc[i] = "sending" => locked[i] \ wire[i] \subseteq Published

StrayCommitted == \A i \in Instances : stray[i] \subseteq Committed

IInv ==
  /\ TypeOK
  /\ LocksHeld
  /\ SentIsPublished
  /\ StrayCommitted
  /\ Published \subseteq Committed
  /\ Processed \subseteq Published

-----------------------------------------------------------------------------
(* XADD adds its event to what is published, and nothing else.             *)

LEMMA XAddPublishes ==
  ASSUME NEW e \in Events, StreamTypeOK, XAdd(e)
  PROVE  /\ StreamTypeOK'
         /\ Published' = Published \cup {e}
<1>1. /\ log \in Seq(Events)
      /\ log' = Append(log, e)
      /\ log' \in Seq(Events)
      /\ Len(log') = Len(log) + 1
      /\ base \in 0..Len(log)
      /\ base' = base
  BY DEF StreamTypeOK, XAdd
<1>2. StreamTypeOK'
  BY <1>1 DEF StreamTypeOK
<1>3. /\ DOMAIN log = 1..Len(log)
      /\ DOMAIN log' = 1..(Len(log) + 1)
      /\ \A k \in 1..Len(log) : log'[k] = log[k]
      /\ log'[Len(log) + 1] = e
      /\ Len(log) \in Nat
  BY <1>1
<1>4. Published' = Published \cup {e}
  BY <1>3 DEF Published
<1>5. QED
  BY <1>2, <1>4

LEMMA SameStream ==
  ASSUME UNCHANGED streamVars
  PROVE  Published' = Published /\ (StreamTypeOK => StreamTypeOK')
BY DEF streamVars, Published, StreamTypeOK

-----------------------------------------------------------------------------
(* Initially.                                                              *)

LEMMA InitIInv == Init => IInv
<1> SUFFICES ASSUME Init PROVE IInv
  OBVIOUS
<1> USE DEF Init, StreamInit, OutboxInit
<1>1. log = <<>> /\ base = 0 /\ Published = {}
  BY DEF Published
<1>2. TypeOK
  BY <1>1 DEF TypeOK, StreamTypeOK, OutboxTypeOK, RowStates
<1>3. Processed = {} /\ Committed = {}
  BY DEF Processed, Committed
<1>4. LocksHeld /\ SentIsPublished /\ StrayCommitted
  BY DEF LocksHeld, SentIsPublished, StrayCommitted
<1>5. QED
  BY <1>1, <1>2, <1>3, <1>4 DEF IInv

-----------------------------------------------------------------------------
(* Every step preserves it.                                                *)

LEMMA InsertEventIInv ==
  ASSUME IInv, NEW e \in Events, InsertEvent(e)
  PROVE  IInv'
<1> USE DEF IInv, InsertEvent
<1>1. Cardinality({f \in Events : row[f] # "absent"}) \in Nat
  <2>1. IsFiniteSet({f \in Events : row[f] # "absent"})
    BY EventsFinite, FS_Subset
  <2>2. QED
    BY <2>1, FS_CardinalityType
<1>2. TypeOK'
  BY <1>1, SameStream DEF TypeOK, OutboxTypeOK, RowStates
<1>3. /\ Pending' = Pending
      /\ Committed' = Committed
      /\ Processed' = Processed
  BY DEF Pending, Committed, Processed, TypeOK, OutboxTypeOK
<1>4. LocksHeld' /\ SentIsPublished' /\ StrayCommitted'
  BY <1>3, SameStream DEF LocksHeld, SentIsPublished, StrayCommitted
<1>5. QED
  BY <1>2, <1>3, <1>4, SameStream

LEMMA EndTransactionIInv ==
  ASSUME IInv, NEW e \in Events, EndTransaction(e)
  PROVE  IInv'
<1> USE DEF IInv, EndTransaction
<1>1. TypeOK'
  BY SameStream DEF TypeOK, OutboxTypeOK, RowStates
<1>2. /\ Pending \subseteq Pending'
      /\ Committed \subseteq Committed'
      /\ Processed' = Processed
  BY DEF Pending, Committed, Processed, TypeOK, OutboxTypeOK
<1>3. LocksHeld' /\ SentIsPublished' /\ StrayCommitted'
  BY <1>2, SameStream DEF LocksHeld, SentIsPublished, StrayCommitted
<1>4. QED
  BY <1>1, <1>2, <1>3, SameStream

LEMMA ClaimIInv ==
  ASSUME IInv, NEW i \in Instances, Claim(i)
  PROVE  IInv'
<1> USE DEF IInv
<1>1. PICK B \in SUBSET Claimable :
        /\ locked' = [locked EXCEPT ![i] = B]
        /\ wire' = [wire EXCEPT ![i] = B]
  BY DEF Claim
<1>2. /\ UNCHANGED <<row, created, attempts, stray, faults, streamVars>>
      /\ wpc' = [wpc EXCEPT ![i] = "sending"]
  BY DEF Claim
<1>3. /\ B \subseteq Pending
      /\ \A j \in Instances : B \cap locked[j] = {}
      /\ B \subseteq Events
  BY DEF Claimable, Pending
<1>4. TypeOK'
  BY <1>1, <1>2, <1>3, SameStream DEF TypeOK, OutboxTypeOK
<1>5. /\ Pending' = Pending
      /\ Committed' = Committed
      /\ Processed' = Processed
      /\ Published' = Published
  BY <1>2, SameStream DEF Pending, Committed, Processed
<1>6. LocksHeld'
  BY <1>1, <1>3, <1>5 DEF LocksHeld, TypeOK, OutboxTypeOK
<1>7. SentIsPublished' /\ StrayCommitted'
  BY <1>1, <1>2, <1>5 DEF SentIsPublished, StrayCommitted, TypeOK, OutboxTypeOK
<1>8. QED
  BY <1>4, <1>5, <1>6, <1>7

\* The two actions in which Redis executes a command share this.
LEMMA ExecutedIInv ==
  ASSUME IInv, NEW e \in Events, e \in Committed, XAdd(e),
         UNCHANGED <<row, created, attempts, wpc, locked, faults>>,
         NEW i \in Instances,
         \/ /\ wire' = [wire EXCEPT ![i] = @ \ {e}]
            /\ UNCHANGED stray
         \/ /\ stray' = [stray EXCEPT ![i] = @ \ {e}]
            /\ UNCHANGED wire
  PROVE  IInv'
<1> USE DEF IInv
<1>1. StreamTypeOK' /\ Published' = Published \cup {e}
  BY XAddPublishes DEF TypeOK
<1>2. /\ Pending' = Pending
      /\ Committed' = Committed
      /\ Processed' = Processed
  BY DEF Pending, Committed, Processed
<1>3. /\ wire' \in [Instances -> SUBSET Events]
      /\ stray' \in [Instances -> SUBSET Events]
      /\ \A j \in Instances : wire'[j] \subseteq wire[j] /\ wire[j] \ wire'[j] \subseteq {e}
      /\ \A j \in Instances : stray'[j] \subseteq stray[j]
  BY DEF TypeOK, OutboxTypeOK
<1>4. TypeOK'
  BY <1>1, <1>3 DEF TypeOK, OutboxTypeOK
<1>5. LocksHeld'
  BY <1>2, <1>3 DEF LocksHeld
<1>6. SentIsPublished'
  BY <1>1, <1>3 DEF SentIsPublished
<1>7. StrayCommitted'
  BY <1>2, <1>3 DEF StrayCommitted
<1>8. QED
  BY <1>1, <1>2, <1>4, <1>5, <1>6, <1>7

LEMMA SendIInv ==
  ASSUME IInv, NEW i \in Instances, Send(i)
  PROVE  IInv'
<1>1. PICK e \in wire[i] : XAdd(e) /\ wire' = [wire EXCEPT ![i] = @ \ {e}]
  BY DEF Send
<1>2. e \in Events /\ e \in Committed
  BY DEF IInv, LocksHeld, Pending, Committed
<1>3. UNCHANGED <<row, created, attempts, wpc, locked, stray, faults>>
  BY DEF Send
<1>4. QED
  BY <1>1, <1>2, <1>3, ExecutedIInv

LEMMA SendStrayIInv ==
  ASSUME IInv, NEW i \in Instances, SendStray(i)
  PROVE  IInv'
<1>1. PICK e \in stray[i] : XAdd(e) /\ stray' = [stray EXCEPT ![i] = @ \ {e}]
  BY DEF SendStray
<1>2. e \in Events /\ e \in Committed
  BY DEF IInv, StrayCommitted, Committed
<1>3. UNCHANGED <<row, created, attempts, wpc, locked, wire, faults>>
  BY DEF SendStray
<1>4. QED
  BY <1>1, <1>2, <1>3, ExecutedIInv

\* The counters of failures are naturals and stay so.
LEMMA FaultsType ==
  ASSUME faults \in [Events -> Nat], NEW S
  PROVE  FaultsAfter(S) \in [Events -> Nat]
BY DEF FaultsAfter

\* Steps that publish nothing, settle nothing, and give up locks and commands
\* or send them again share this.
LEMMA GivenUpIInv ==
  ASSUME IInv, TypeOK',
         UNCHANGED <<row, streamVars>>,
         \A i \in Instances :
           /\ locked'[i] \subseteq locked[i]
           /\ wire'[i] \subseteq locked'[i]
           /\ stray'[i] \subseteq stray[i] \cup wire[i]
           /\ wpc'[i] = "sending" =>
                wpc[i] = "sending" /\ wire[i] \subseteq wire'[i]
  PROVE  IInv'
<1> USE DEF IInv
<1>1. /\ Pending' = Pending
      /\ Committed' = Committed
      /\ Processed' = Processed
      /\ Published' = Published
  BY SameStream DEF Pending, Committed, Processed
<1>2. LocksHeld'
  BY <1>1 DEF LocksHeld
<1>3. SentIsPublished'
  BY <1>1 DEF SentIsPublished
<1>4. \A i \in Instances : wire[i] \subseteq Committed
  BY DEF LocksHeld, Pending, Committed
<1>5. StrayCommitted'
  BY <1>1, <1>4 DEF StrayCommitted
<1>6. QED
  BY <1>1, <1>2, <1>3, <1>5

LEMMA SendRefusedIInv ==
  ASSUME IInv, NEW i \in Instances, SendRefused(i)
  PROVE  IInv'
<1>1. /\ wire \in [Instances -> SUBSET Events]
      /\ wpc \in [Instances -> {"down", "idle", "sending", "refused"}]
      /\ \A j \in Instances : wire[j] \subseteq locked[j]
  BY DEF IInv, TypeOK, OutboxTypeOK, LocksHeld
<1>2. /\ UNCHANGED <<row, created, attempts, locked, stray, streamVars>>
      /\ wpc' = [wpc EXCEPT ![i] = "refused"]
  BY DEF SendRefused
<1>3. PICK e \in wire[i] : wire' = [wire EXCEPT ![i] = @ \ {e}]
  BY DEF SendRefused
<1>4. faults' \in [Events -> Nat]
  BY FaultsType DEF SendRefused, IInv, TypeOK, OutboxTypeOK
<1>5. TypeOK'
  BY <1>1, <1>2, <1>3, <1>4, SameStream DEF IInv, TypeOK, OutboxTypeOK
<1>6. QED
  BY <1>1, <1>2, <1>3, <1>5, GivenUpIInv

LEMMA ResendIInv ==
  ASSUME IInv, NEW i \in Instances, Resend(i)
  PROVE  IInv'
<1>1. /\ wire \in [Instances -> SUBSET Events]
      /\ stray \in [Instances -> SUBSET Events]
      /\ locked \in [Instances -> SUBSET Events]
      /\ \A j \in Instances : wire[j] \subseteq locked[j]
  BY DEF IInv, TypeOK, OutboxTypeOK, LocksHeld
<1>2. /\ UNCHANGED <<row, created, attempts, wpc, locked, streamVars>>
      /\ wire' = [wire EXCEPT ![i] = locked[i]]
      /\ wpc[i] = "sending"
  BY DEF Resend
<1>3. PICK s \in {{}, wire[i]} : stray' = [stray EXCEPT ![i] = s]
  BY DEF Resend, Leftover
<1>4. faults' \in [Events -> Nat]
  BY FaultsType DEF Resend, IInv, TypeOK, OutboxTypeOK
<1>5. TypeOK'
  BY <1>1, <1>2, <1>3, <1>4, SameStream DEF IInv, TypeOK, OutboxTypeOK
<1>6. QED
  BY <1>1, <1>2, <1>3, <1>5, GivenUpIInv

LEMMA EndRoundIInv ==
  ASSUME IInv, NEW i \in Instances, NEW next \in {"idle", "down"},
         EndRound(i, next), faults' \in [Events -> Nat], UNCHANGED streamVars
  PROVE  IInv'
<1>1. /\ wire \in [Instances -> SUBSET Events]
      /\ stray \in [Instances -> SUBSET Events]
      /\ locked \in [Instances -> SUBSET Events]
      /\ wpc \in [Instances -> {"down", "idle", "sending", "refused"}]
      /\ \A j \in Instances : wire[j] \subseteq locked[j]
  BY DEF IInv, TypeOK, OutboxTypeOK, LocksHeld
<1>2. /\ UNCHANGED <<row, created, attempts>>
      /\ locked' = [locked EXCEPT ![i] = {}]
      /\ wire' = [wire EXCEPT ![i] = {}]
      /\ wpc' = [wpc EXCEPT ![i] = next]
  BY DEF EndRound
<1>3. PICK s \in {{}, wire[i]} : stray' = [stray EXCEPT ![i] = s]
  BY DEF EndRound, Leftover
<1>4. TypeOK'
  BY <1>1, <1>2, <1>3, SameStream DEF IInv, TypeOK, OutboxTypeOK
<1>5. QED
  BY <1>1, <1>2, <1>3, <1>4, GivenUpIInv

LEMMA StopWorkerIInv ==
  ASSUME IInv, NEW i \in Instances, StopWorker(i), UNCHANGED streamVars
  PROVE  IInv'
<1>1. faults' \in [Events -> Nat]
  BY FaultsType DEF StopWorker, IInv, TypeOK, OutboxTypeOK
<1>2. QED
  BY <1>1, EndRoundIInv DEF StopWorker

LEMMA StartWorkerIInv ==
  ASSUME IInv, NEW i \in Instances, StartWorker(i), UNCHANGED streamVars
  PROVE  IInv'
<1>1. /\ wpc \in [Instances -> {"down", "idle", "sending", "refused"}]
      /\ \A j \in Instances : wire[j] \subseteq locked[j]
  BY DEF IInv, TypeOK, OutboxTypeOK, LocksHeld
<1>2. TypeOK'
  BY <1>1, SameStream DEF StartWorker, IInv, TypeOK, OutboxTypeOK
<1>3. QED
  BY <1>1, <1>2, GivenUpIInv DEF StartWorker

\* The step the invariant is for: the rows it marks processed were sent by this
\* very round (SentIsPublished), and no other worker holds them (LocksHeld).
LEMMA SettleIInv ==
  ASSUME IInv, NEW i \in Instances, Settle(i)
  PROVE  IInv'
<1> USE DEF IInv
<1>1. /\ row \in [Events -> RowStates]
      /\ locked \in [Instances -> SUBSET Events]
      /\ wire[i] = {}
      /\ wpc[i] = "sending"
  BY DEF TypeOK, OutboxTypeOK, Settle
<1>2. /\ row' = [e \in Events |-> IF e \in locked[i] THEN "processed" ELSE row[e]]
      /\ locked' = [locked EXCEPT ![i] = {}]
      /\ wpc' = [wpc EXCEPT ![i] = "idle"]
      /\ UNCHANGED <<created, wire, stray, faults, streamVars>>
  BY DEF Settle
<1>3. attempts' \in [Events -> Nat]
  BY DEF Settle, TypeOK, OutboxTypeOK
<1>4. TypeOK'
  BY <1>1, <1>2, <1>3, SameStream DEF TypeOK, OutboxTypeOK, RowStates
<1>5. locked[i] \subseteq Published
  BY <1>1 DEF SentIsPublished
<1>6. /\ Processed' = Processed \cup locked[i]
      /\ Pending' = Pending \ locked[i]
      /\ Committed' = Committed
      /\ Published' = Published
  BY <1>1, <1>2, SameStream DEF Processed, Pending, Committed, LocksHeld
<1>7. LocksHeld'
  <2>1. \A j \in Instances : locked'[j] \subseteq locked[j] /\ locked'[j] \cap locked[i] = {}
    BY <1>1, <1>2 DEF LocksHeld
  <2>2. wire' = wire /\ \A j \in Instances : wire[j] \subseteq locked'[j]
    BY <1>1, <1>2 DEF LocksHeld
  <2>3. QED
    BY <2>1, <2>2, <1>6 DEF LocksHeld
<1>8. SentIsPublished'
  BY <1>1, <1>2, <1>6 DEF SentIsPublished, TypeOK, OutboxTypeOK
<1>9. StrayCommitted'
  BY <1>2, <1>6 DEF StrayCommitted
<1>10. QED
  BY <1>4, <1>5, <1>6, <1>7, <1>8, <1>9

LEMMA RoundIInv ==
  ASSUME IInv, NEW i \in Instances, WorkerRound(i)
  PROVE  IInv'
<1>1. CASE Claim(i)
  BY <1>1, ClaimIInv
<1>2. CASE Send(i)
  BY <1>2, SendIInv
<1>3. CASE SendRefused(i)
  BY <1>3, SendRefusedIInv
<1>4. CASE Resend(i)
  BY <1>4, ResendIInv
<1>5. CASE Settle(i)
  BY <1>5, SettleIInv
<1>6. CASE Abort(i)
  <2>1. faults' \in [Events -> Nat]
    BY <1>6, FaultsType DEF Abort, IInv, TypeOK, OutboxTypeOK
  <2>2. QED
    BY <1>6, <2>1, EndRoundIInv DEF Abort
<1>7. CASE RaiseRefused(i)
  BY <1>7, EndRoundIInv DEF RaiseRefused, IInv, TypeOK, OutboxTypeOK
<1>8. CASE SendStray(i)
  BY <1>8, SendStrayIInv
<1>9. CASE DropStray(i)
  <2>1. /\ stray' = [stray EXCEPT ![i] = {}]
        /\ UNCHANGED <<row, created, attempts, wpc, locked, wire, faults, streamVars>>
    BY <1>9 DEF DropStray
  <2>2. TypeOK' /\ \A j \in Instances : wire[j] \subseteq locked[j]
    BY <2>1, SameStream DEF IInv, TypeOK, OutboxTypeOK, LocksHeld
  <2>3. \A j \in Instances : stray'[j] \subseteq stray[j]
    BY <2>1 DEF IInv, TypeOK, OutboxTypeOK
  <2>4. QED
    BY <2>1, <2>2, <2>3, GivenUpIInv
<1>10. QED
  BY <1>1, <1>2, <1>3, <1>4, <1>5, <1>6, <1>7, <1>8, <1>9 DEF WorkerRound

LEMMA NextIInv == IInv /\ [Next]_vars => IInv'
<1> SUFFICES ASSUME IInv, [Next]_vars PROVE IInv'
  OBVIOUS
<1>1. CASE \E e \in Events : Transaction(e)
  BY <1>1, InsertEventIInv, EndTransactionIInv DEF Transaction
<1>2. ASSUME NEW i \in Instances, StartWorker(i), UNCHANGED streamVars PROVE IInv'
  BY <1>2, StartWorkerIInv
<1>3. ASSUME NEW i \in Instances, StopWorker(i), UNCHANGED streamVars PROVE IInv'
  BY <1>3, StopWorkerIInv
<1>4. ASSUME NEW i \in Instances, WorkerRound(i) PROVE IInv'
  BY <1>4, RoundIInv
<1>5. CASE UNCHANGED vars
  BY <1>5 DEF vars, outboxVars, streamVars, IInv, TypeOK, StreamTypeOK, OutboxTypeOK,
       LocksHeld, SentIsPublished, StrayCommitted, Published, Committed, Pending, Processed
<1>6. QED
  BY <1>1, <1>2, <1>3, <1>4, <1>5 DEF Next

THEOREM SpecIInv == Spec => []IInv
BY InitIInv, NextIInv, PTL DEF Spec

-----------------------------------------------------------------------------
(* What follows.                                                           *)

\* The state is well typed throughout.
THEOREM OutboxTypeCorrect == Spec => []TypeOK
<1>1. IInv => TypeOK
  BY DEF IInv
<1>2. QED
  BY <1>1, SpecIInv, PTL

\* process_outbox never marks a row processed whose event has not reached the
\* stream, however the pipelines of any number of workers interleave and fail.
THEOREM OutboxLosesNoEvent == Spec => []NoEventLost
<1>1. IInv => NoEventLost
  BY DEF IInv, NoEventLost
<1>2. QED
  BY <1>1, SpecIInv, PTL

\* Events of transactions that are open or rolled back never leave PostgreSQL.
THEOREM OutboxPublishesCommittedOnly == Spec => []OnlyCommittedPublished
<1>1. ASSUME IInv PROVE OnlyCommittedPublished
  <2>1. \A i \in Instances : locked[i] \cup wire[i] \cup stray[i] \subseteq Committed
    BY <1>1 DEF IInv, LocksHeld, StrayCommitted, Pending, Committed
  <2>2. QED
    BY <1>1, <2>1 DEF IInv, OnlyCommittedPublished
<1>2. QED
  BY <1>1, SpecIInv, PTL

-----------------------------------------------------------------------------
(* Refinement: the code implements AtLeastOnce.                            *)

LEMMA PromiseInit == Init => Promise!Init
BY DEF Init, StreamInit, OutboxInit, Promise!Init, Committed, Published, Processed

\* A step that moves at most one of the three sets, in the ways AtLeastOnce
\* allows, is one of its steps.
LEMMA PromiseNext == IInv /\ [Next]_vars => [Promise!Next]_<<Committed, Published, Processed>>
<1> SUFFICES ASSUME IInv, [Next]_vars
             PROVE  [Promise!Next]_<<Committed, Published, Processed>>
  OBVIOUS
<1> USE DEF Promise!Next, Promise!Commit, Promise!Publish, Promise!Settle
<1>1. row \in [Events -> RowStates]
  BY DEF IInv, TypeOK, OutboxTypeOK
<1>2. ASSUME NEW e \in Events, InsertEvent(e)
      PROVE  UNCHANGED <<Committed, Published, Processed>>
  BY <1>1, <1>2, SameStream DEF InsertEvent, Committed, Processed
<1>3. ASSUME NEW e \in Events, EndTransaction(e)
      PROVE  \/ UNCHANGED <<Committed, Published, Processed>>
             \/ Promise!Commit(e)
  <2>1. UNCHANGED streamVars /\ row[e] = "open"
    BY <1>3 DEF EndTransaction
  <2>2. PICK end \in {"pending", "rolledback"} : row' = [row EXCEPT ![e] = end]
    BY <1>3 DEF EndTransaction
  <2>3. /\ Committed' = Committed \/ Committed' = Committed \cup {e}
        /\ Processed' = Processed
    BY <1>1, <2>1, <2>2 DEF Committed, Processed
  <2>4. QED
    BY <2>1, <2>3, SameStream
<1>4. ASSUME NEW e \in Events, XAdd(e), e \in Committed, UNCHANGED row
      PROVE  Promise!Publish(e)
  <2>1. Published' = Published \cup {e}
    BY <1>4, XAddPublishes DEF IInv, TypeOK
  <2>2. Committed' = Committed /\ Processed' = Processed
    BY <1>4 DEF Committed, Processed
  <2>3. QED
    BY <1>4, <2>1, <2>2
<1>5. ASSUME NEW i \in Instances, Send(i)
      PROVE  \E e \in Events : Promise!Publish(e)
  <2>1. PICK e \in wire[i] : XAdd(e)
    BY <1>5 DEF Send
  <2>2. e \in Events /\ e \in Committed /\ UNCHANGED row
    BY <1>5 DEF Send, IInv, LocksHeld, Pending, Committed
  <2>3. QED
    BY <1>4, <2>1, <2>2
<1>6. ASSUME NEW i \in Instances, SendStray(i)
      PROVE  \E e \in Events : Promise!Publish(e)
  <2>1. PICK e \in stray[i] : XAdd(e)
    BY <1>6 DEF SendStray
  <2>2. e \in Events /\ e \in Committed /\ UNCHANGED row
    BY <1>6 DEF SendStray, IInv, StrayCommitted, Committed
  <2>3. QED
    BY <1>4, <2>1, <2>2
<1>7. ASSUME NEW i \in Instances, Settle(i)
      PROVE  \E B \in SUBSET Events : Promise!Settle(B)
  <2>1. /\ wpc[i] = "sending"
        /\ wire[i] = {}
        /\ row' = [e \in Events |-> IF e \in locked[i] THEN "processed" ELSE row[e]]
        /\ UNCHANGED streamVars
    BY <1>7 DEF Settle
  <2>2. locked[i] \subseteq Published /\ locked[i] \subseteq Pending /\ locked[i] \subseteq Events
    BY <2>1 DEF IInv, SentIsPublished, LocksHeld, TypeOK, OutboxTypeOK
  <2>3. /\ Processed' = Processed \cup locked[i]
        /\ Committed' = Committed
    BY <1>1, <2>1, <2>2 DEF Processed, Committed, Pending
  <2>4. Promise!Settle(locked[i])
    BY <2>1, <2>2, <2>3, SameStream
  <2>5. QED
    BY <2>2, <2>4
<1>8. ASSUME UNCHANGED <<row, streamVars>>
      PROVE  UNCHANGED <<Committed, Published, Processed>>
  BY <1>8, SameStream DEF Committed, Processed
<1>9. CASE \E i \in Instances : WorkerRound(i)
  <2>1. PICK i \in Instances : WorkerRound(i)
    BY <1>9
  <2>2. CASE \/ Claim(i) \/ SendRefused(i) \/ Resend(i)
             \/ Abort(i) \/ RaiseRefused(i) \/ DropStray(i)
    BY <2>2, <1>8 DEF Claim, SendRefused, Resend, Abort, RaiseRefused, DropStray, EndRound
  <2>3. QED
    BY <2>1, <2>2, <1>5, <1>6, <1>7 DEF WorkerRound
<1>10. CASE \E i \in Instances : (StartWorker(i) \/ StopWorker(i)) /\ UNCHANGED streamVars
  BY <1>10, <1>8 DEF StartWorker, StopWorker, EndRound
<1>11. CASE \E e \in Events : Transaction(e)
  BY <1>11, <1>2, <1>3 DEF Transaction
<1>12. CASE UNCHANGED vars
  BY <1>12, <1>8 DEF vars, outboxVars
<1>13. QED
  BY <1>9, <1>10, <1>11, <1>12 DEF Next

\* Every behaviour of the rows, locks and pipelines is a behaviour of the
\* abstract at-least-once promise.
THEOREM OutboxImplementsAtLeastOnce == Spec => KeepsPromise
<1>1. Init => Promise!Init
  BY PromiseInit
<1>2. IInv /\ [Next]_vars => [Promise!Next]_<<Committed, Published, Processed>>
  BY PromiseNext
<1>3. Promise!Spec <=> Promise!Init /\ [][Promise!Next]_<<Committed, Published, Processed>>
  BY DEF Promise!Spec, Promise!promiseVars
<1>4. QED
  BY <1>1, <1>2, <1>3, SpecIInv, PTL DEF Spec, KeepsPromise

-----------------------------------------------------------------------------
(* Copies.  Each copy of an event in the stream, each command under way or *)
(* left over that may still add one, and the round that is yet to publish  *)
(* it if there is none, is paid for: one is free, the others by failures.  *)

StrayOf(e) == {i \in Instances : e \in stray[i]}
WireOf(e) == {i \in Instances : e \in wire[i]}

\* No further round will carry e, unless one that carries it now fails.
Paid(e) == e \in Processed \/ \E i \in Instances : wpc[i] = "sending" /\ e \in locked[i]

Token(e) == IF Paid(e) THEN 0 ELSE 1

Accounted(e) ==
  CopiesOf(e) + Cardinality(StrayOf(e)) + Cardinality(WireOf(e)) + Token(e) <= 1 + faults[e]

LEMMA Sizes ==
  ASSUME IInv, NEW e \in Events
  PROVE  /\ CopiesOf(e) \in Nat /\ faults[e] \in Nat
         /\ IsFiniteSet(StrayOf(e)) /\ IsFiniteSet(WireOf(e))
<1>1. log \in Seq(Events) /\ faults \in [Events -> Nat]
  BY DEF IInv, TypeOK, StreamTypeOK, OutboxTypeOK
<1>2. IsFiniteSet(1 .. Len(log))
  BY <1>1, FS_Interval
<1>3. {k \in DOMAIN log : log[k] = e} \subseteq 1 .. Len(log)
  BY <1>1
<1>4. CopiesOf(e) \in Nat
  BY <1>2, <1>3, FS_Subset, FS_CardinalityType DEF CopiesOf
<1>5. StrayOf(e) \subseteq Instances /\ WireOf(e) \subseteq Instances
  BY DEF StrayOf, WireOf
<1>6. QED
  BY <1>1, <1>4, <1>5, InstancesFinite, FS_Subset

LEMMA CopiesAfter ==
  ASSUME IInv, NEW e \in Events, NEW f \in Events, XAdd(e)
  PROVE  CopiesOf(f)' = IF f = e THEN CopiesOf(f) + 1 ELSE CopiesOf(f)
<1>1. log \in Seq(Events) /\ log' = Append(log, e)
  BY DEF IInv, TypeOK, StreamTypeOK, XAdd
<1> DEFINE n == Len(log) + 1
<1>2. /\ DOMAIN log = 1 .. Len(log) /\ DOMAIN log' = DOMAIN log \cup {n} /\ n \notin DOMAIN log
      /\ (\A k \in DOMAIN log : log'[k] = log[k]) /\ log'[n] = e
  BY <1>1
<1> HIDE DEF n
<1>3. PICK C : C = {k \in DOMAIN log : log[k] = f}
  OBVIOUS
<1>4. {k \in DOMAIN log' : log'[k] = f} = IF f = e THEN C \cup {n} ELSE C
  BY <1>2, <1>3
<1>5. IsFiniteSet(C) /\ n \notin C
  <2>1. C \subseteq 1 .. Len(log)
    BY <1>1, <1>3
  <2>2. IsFiniteSet(1 .. Len(log))
    BY <1>1, FS_Interval
  <2>3. QED
    BY <1>2, <1>3, <2>1, <2>2, FS_Subset
<1>6. Cardinality(C \cup {n}) = Cardinality(C) + 1
  BY <1>5, FS_AddElement
<1>7. CopiesOf(f)' = Cardinality({k \in DOMAIN log' : log'[k] = f}) /\ CopiesOf(f) = Cardinality(C)
  BY <1>3 DEF CopiesOf
<1>8. QED
  BY <1>4, <1>6, <1>7

LEMMA OneMoved ==
  ASSUME NEW S, NEW S1, NEW i, IsFiniteSet(S), S1 \subseteq S \cup {i}
  PROVE  /\ Cardinality(S) \in Nat /\ Cardinality(S1) \in Nat
         /\ Cardinality(S1) <= Cardinality(S) + 1
         /\ S1 \subseteq S => Cardinality(S1) <= Cardinality(S)
         /\ i \in S /\ S1 \subseteq S \ {i} => Cardinality(S1) + 1 <= Cardinality(S)
<1>1. Cardinality(S) \in Nat
  BY FS_CardinalityType
<1>2. /\ IsFiniteSet(S \cup {i})
      /\ Cardinality(S \cup {i}) = IF i \in S THEN Cardinality(S) ELSE Cardinality(S) + 1
  BY FS_AddElement
<1>3. Cardinality(S1) \in Nat /\ Cardinality(S1) <= Cardinality(S \cup {i})
  BY <1>2, FS_Subset, FS_CardinalityType
<1>4. S1 \subseteq S => Cardinality(S1) <= Cardinality(S)
  BY FS_Subset
<1>5. ASSUME i \in S, S1 \subseteq S \ {i} PROVE Cardinality(S1) + 1 <= Cardinality(S)
  <2>1. IsFiniteSet(S \ {i}) /\ Cardinality(S \ {i}) = Cardinality(S) - 1
    BY <1>5, FS_RemoveElement
  <2>2. Cardinality(S1) <= Cardinality(S \ {i})
    BY <1>5, <2>1, FS_Subset
  <2>3. QED
    BY <1>1, <1>3, <2>1, <2>2
<1>6. QED
  BY <1>1, <1>2, <1>3, <1>4, <1>5

\* The ways in which a step of instance i may change what is counted of e.
LEMMA Account ==
  ASSUME IInv, NEW e \in Events, NEW i \in Instances, Accounted(e),
         StrayOf(e)' \subseteq StrayOf(e) \cup {i}, WireOf(e)' \subseteq WireOf(e) \cup {i},
         \* nothing is added
         \/ /\ StrayOf(e)' \subseteq StrayOf(e) /\ WireOf(e)' \subseteq WireOf(e)
            /\ CopiesOf(e)' = CopiesOf(e) /\ (Paid(e) => Paid(e)') /\ faults'[e] = faults[e]
         \* claimed
         \/ /\ StrayOf(e)' \subseteq StrayOf(e) /\ ~Paid(e) /\ Paid(e)'
            /\ CopiesOf(e)' = CopiesOf(e) /\ faults'[e] = faults[e]
         \* executed
         \/ /\ \/ /\ i \in WireOf(e) /\ WireOf(e)' \subseteq WireOf(e) \ {i}
                  /\ StrayOf(e)' \subseteq StrayOf(e)
               \/ /\ i \in StrayOf(e) /\ StrayOf(e)' \subseteq StrayOf(e) \ {i}
                  /\ WireOf(e)' \subseteq WireOf(e)
            /\ CopiesOf(e)' = CopiesOf(e) + 1 /\ (Paid(e) => Paid(e)') /\ faults'[e] = faults[e]
         \* left on the connection
         \/ /\ i \in WireOf(e) /\ WireOf(e)' \subseteq WireOf(e) \ {i}
            /\ CopiesOf(e)' = CopiesOf(e)
            /\ \/ (Paid(e) => Paid(e)') /\ faults'[e] = faults[e]
               \/ faults'[e] = faults[e] + 1
         \* failed
         \/ /\ StrayOf(e)' \subseteq StrayOf(e) /\ WireOf(e)' \subseteq WireOf(e)
            /\ CopiesOf(e)' = CopiesOf(e) /\ faults'[e] = faults[e] + 1
         \* sent again
         \/ /\ StrayOf(e)' \subseteq StrayOf(e) \/ WireOf(e)' \subseteq WireOf(e)
            /\ CopiesOf(e)' = CopiesOf(e) /\ (Paid(e) => Paid(e)')
            /\ faults'[e] = faults[e] + 1
  PROVE  Accounted(e)'
<1>1. PICK S, S1, W, W1 : S = StrayOf(e) /\ S1 = StrayOf(e)' /\ W = WireOf(e) /\ W1 = WireOf(e)'
  OBVIOUS
<1>2. PICK c \in Nat, f \in Nat, c1 \in Nat, f1 \in Nat :
        c = CopiesOf(e) /\ f = faults[e] /\ c1 = CopiesOf(e)' /\ f1 = faults'[e]
  BY Sizes
<1>3. PICK t \in {0, 1}, t1 \in {0, 1} :
        /\ t = Token(e) /\ t1 = Token(e)' /\ (t = 0 <=> Paid(e)) /\ (t1 = 0 <=> Paid(e)')
  BY DEF Token
<1>4. IsFiniteSet(S) /\ IsFiniteSet(W)
  BY <1>1, Sizes
<1>5. /\ Cardinality(S) \in Nat /\ Cardinality(S1) \in Nat
      /\ Cardinality(S1) <= Cardinality(S) + 1
      /\ S1 \subseteq S => Cardinality(S1) <= Cardinality(S)
      /\ i \in S /\ S1 \subseteq S \ {i} => Cardinality(S1) + 1 <= Cardinality(S)
  BY <1>1, <1>4, OneMoved
<1>6. /\ Cardinality(W) \in Nat /\ Cardinality(W1) \in Nat
      /\ Cardinality(W1) <= Cardinality(W) + 1
      /\ W1 \subseteq W => Cardinality(W1) <= Cardinality(W)
      /\ i \in W /\ W1 \subseteq W \ {i} => Cardinality(W1) + 1 <= Cardinality(W)
  BY <1>1, <1>4, OneMoved
<1>7. c + Cardinality(S) + Cardinality(W) + t <= 1 + f
  BY <1>1, <1>2, <1>3 DEF Accounted
<1> DEFINE s == Cardinality(S)
           w == Cardinality(W)
           s1 == Cardinality(S1)
           w1 == Cardinality(W1)
<1>8. \/ s1 <= s /\ w1 <= w /\ c1 = c /\ t1 <= t /\ f1 = f
      \/ s1 <= s /\ w1 <= w + 1 /\ c1 = c /\ t = 1 /\ t1 = 0 /\ f1 = f
      \/ w1 + 1 <= w /\ s1 <= s /\ c1 = c + 1 /\ t1 <= t /\ f1 = f
      \/ s1 + 1 <= s /\ w1 <= w /\ c1 = c + 1 /\ t1 <= t /\ f1 = f
      \/ w1 + 1 <= w /\ s1 <= s + 1 /\ c1 = c /\ t1 <= t /\ f1 = f
      \/ w1 + 1 <= w /\ s1 <= s + 1 /\ c1 = c /\ f1 = f + 1
      \/ s1 <= s /\ w1 <= w /\ c1 = c /\ f1 = f + 1
      \/ s1 <= s /\ w1 <= w + 1 /\ c1 = c /\ t1 <= t /\ f1 = f + 1
      \/ s1 <= s + 1 /\ w1 <= w /\ c1 = c /\ t1 <= t /\ f1 = f + 1
  BY <1>1, <1>2, <1>3, <1>5, <1>6
<1>9. s \in Nat /\ w \in Nat /\ s1 \in Nat /\ w1 \in Nat /\ c + s + w + t <= 1 + f
  BY <1>5, <1>6, <1>7
<1> HIDE DEF s, w, s1, w1
<1>10. c1 + s1 + w1 + t1 <= 1 + f1
  BY <1>8, <1>9
<1>11. QED
  BY <1>1, <1>2, <1>3, <1>10 DEF Accounted, s1, w1

\* Where a step of i leaves the rest of the pipelines alone.
LEMMA OnlyAt ==
  ASSUME IInv, NEW e \in Events, NEW i \in Instances, NEW X \in SUBSET Events
  PROVE  /\ wire' = [wire EXCEPT ![i] = X] =>
              /\ WireOf(e)' \subseteq WireOf(e) \cup {i}
              /\ e \notin X => WireOf(e)' \subseteq WireOf(e) \ {i}
              /\ e \in wire[i] => WireOf(e)' \subseteq WireOf(e)
         /\ stray' = [stray EXCEPT ![i] = X] =>
              /\ StrayOf(e)' \subseteq StrayOf(e) \cup {i}
              /\ e \notin X => StrayOf(e)' \subseteq StrayOf(e) \ {i}
         /\ UNCHANGED wire => WireOf(e)' = WireOf(e)
         /\ UNCHANGED stray => StrayOf(e)' = StrayOf(e)
<1>1. wire \in [Instances -> SUBSET Events] /\ stray \in [Instances -> SUBSET Events]
  BY DEF IInv, TypeOK, OutboxTypeOK
<1>2. QED
  BY <1>1 DEF WireOf, StrayOf

\* No action but a claim or the end of a round changes who carries what.
LEMMA PaidStays ==
  ASSUME NEW e \in Events, UNCHANGED <<row, wpc, locked>>
  PROVE  Paid(e)' <=> Paid(e)
BY DEF Paid, Processed

LEMMA SameCopies ==
  ASSUME UNCHANGED streamVars, NEW e
  PROVE  CopiesOf(e)' = CopiesOf(e)
BY DEF streamVars, CopiesOf

LEMMA ClaimAccounts ==
  ASSUME IInv, NEW e \in Events, NEW i \in Instances, Accounted(e), Claim(i)
  PROVE  Accounted(e)'
<1>1. PICK B \in SUBSET Claimable :
        locked' = [locked EXCEPT ![i] = B] /\ wire' = [wire EXCEPT ![i] = B]
  BY DEF Claim
<1>2. /\ wpc' = [wpc EXCEPT ![i] = "sending"] /\ wpc[i] = "idle"
      /\ UNCHANGED <<row, created, attempts, stray, faults, streamVars>>
  BY DEF Claim
<1>3. /\ wpc \in [Instances -> {"down", "idle", "sending", "refused"}]
      /\ locked \in [Instances -> SUBSET Events] /\ B \in SUBSET Events
  BY DEF IInv, TypeOK, OutboxTypeOK, Claimable, Pending
<1>4. CopiesOf(e)' = CopiesOf(e) /\ StrayOf(e)' = StrayOf(e) /\ faults' = faults
  BY <1>2, SameCopies DEF StrayOf
<1>5. CASE e \in B
  <2>1. ~Paid(e)
    BY <1>5 DEF Claimable, Pending, Paid, Processed
  <2>2. Paid(e)'
    BY <1>1, <1>2, <1>3, <1>5 DEF Paid
  <2>3. WireOf(e)' \subseteq WireOf(e) \cup {i}
    BY <1>1, <1>3, OnlyAt
  <2>4. QED
    BY <1>4, <2>1, <2>2, <2>3, Account
<1>6. CASE e \notin B
  <2>1. WireOf(e)' \subseteq WireOf(e)
    BY <1>1, <1>3, <1>6, OnlyAt
  <2>2. Paid(e) => Paid(e)'
    BY <1>1, <1>2, <1>3 DEF Paid, Processed
  <2>3. QED
    BY <1>4, <2>1, <2>2, Account
<1>7. QED
  BY <1>5, <1>6

LEMMA SendAccounts ==
  ASSUME IInv, NEW e \in Events, NEW i \in Instances, Accounted(e), Send(i) \/ SendStray(i)
  PROVE  Accounted(e)'
<1>1. UNCHANGED <<row, created, attempts, wpc, locked, faults>>
  BY DEF Send, SendStray
<1>2. (Paid(e)' <=> Paid(e)) /\ faults' = faults
  BY <1>1, PaidStays
<1>3. wire \in [Instances -> SUBSET Events] /\ stray \in [Instances -> SUBSET Events]
  BY DEF IInv, TypeOK, OutboxTypeOK
<1>4. CASE Send(i)
  <2>1. PICK x \in wire[i] : XAdd(x) /\ wire' = [wire EXCEPT ![i] = wire[i] \ {x}]
    BY <1>4 DEF Send
  <2>2. x \in Events /\ wire[i] \ {x} \in SUBSET Events /\ UNCHANGED stray
    BY <1>3, <1>4 DEF Send
  <2>3. /\ CopiesOf(e)' = IF e = x THEN CopiesOf(e) + 1 ELSE CopiesOf(e)
        /\ StrayOf(e)' = StrayOf(e)
    BY <2>1, <2>2, CopiesAfter, OnlyAt
  <2>4. CASE e = x
    <3>1. i \in WireOf(e) /\ WireOf(e)' \subseteq WireOf(e) \ {i}
      BY <1>3, <2>1, <2>4 DEF WireOf
    <3>2. QED
      BY <1>2, <2>3, <2>4, <3>1, Account
  <2>5. CASE e # x
    <3>1. WireOf(e)' \subseteq WireOf(e)
      BY <1>3, <2>1, <2>5 DEF WireOf
    <3>2. QED
      BY <1>2, <2>3, <2>5, <3>1, Account
  <2>6. QED
    BY <2>4, <2>5
<1>5. CASE SendStray(i)
  <2>1. PICK x \in stray[i] : XAdd(x) /\ stray' = [stray EXCEPT ![i] = stray[i] \ {x}]
    BY <1>5 DEF SendStray
  <2>2. x \in Events /\ stray[i] \ {x} \in SUBSET Events /\ UNCHANGED wire
    BY <1>3, <1>5 DEF SendStray
  <2>3. /\ CopiesOf(e)' = IF e = x THEN CopiesOf(e) + 1 ELSE CopiesOf(e)
        /\ WireOf(e)' = WireOf(e)
    BY <2>1, <2>2, CopiesAfter, OnlyAt
  <2>4. CASE e = x
    <3>1. i \in StrayOf(e) /\ StrayOf(e)' \subseteq StrayOf(e) \ {i}
      BY <1>3, <2>1, <2>4 DEF StrayOf
    <3>2. QED
      BY <1>2, <2>3, <2>4, <3>1, Account
  <2>5. CASE e # x
    <3>1. StrayOf(e)' \subseteq StrayOf(e)
      BY <1>3, <2>1, <2>5 DEF StrayOf
    <3>2. QED
      BY <1>2, <2>3, <2>5, <3>1, Account
  <2>6. QED
    BY <2>4, <2>5
<1>6. QED
  BY <1>4, <1>5

LEMMA FaultsAt ==
  ASSUME IInv, NEW e \in Events, NEW i \in Instances, faults' = FaultsAfter(locked[i])
  PROVE  faults'[e] = IF e \in locked[i] THEN faults[e] + 1 ELSE faults[e]
BY DEF FaultsAfter

\* The end of a round, in failure, after which e is not carried by i any more.
LEMMA EndAccounts ==
  ASSUME IInv, NEW e \in Events, NEW i \in Instances, Accounted(e), NEW next \in {"idle", "down"},
         EndRound(i, next), UNCHANGED streamVars,
         IF wpc[i] = "sending" THEN faults' = FaultsAfter(locked[i]) ELSE faults' = faults
  PROVE  Accounted(e)'
<1>1. /\ wire \in [Instances -> SUBSET Events] /\ stray \in [Instances -> SUBSET Events]
      /\ locked \in [Instances -> SUBSET Events] /\ wire[i] \subseteq locked[i]
      /\ wpc \in [Instances -> {"down", "idle", "sending", "refused"}]
  BY DEF IInv, TypeOK, OutboxTypeOK, LocksHeld
<1>2. /\ UNCHANGED <<row, created, attempts>> /\ locked' = [locked EXCEPT ![i] = {}]
      /\ wire' = [wire EXCEPT ![i] = {}] /\ wpc' = [wpc EXCEPT ![i] = next]
  BY DEF EndRound
<1>3. PICK s \in {{}, wire[i]} : stray' = [stray EXCEPT ![i] = s]
  BY DEF EndRound, Leftover
<1>4. /\ StrayOf(e)' \subseteq StrayOf(e) \cup {i} /\ WireOf(e)' \subseteq WireOf(e) \ {i}
      /\ e \notin wire[i] => StrayOf(e)' \subseteq StrayOf(e)
      /\ e \in wire[i] => i \in WireOf(e)
  BY <1>1, <1>2, <1>3, OnlyAt, SMTT(30) DEF WireOf, StrayOf
<1>5. CopiesOf(e)' = CopiesOf(e)
  BY SameCopies
<1>6. CASE wpc[i] = "sending" /\ e \in locked[i]
  <2>1. faults'[e] = faults[e] + 1
    BY <1>6, FaultsAt
  <2>2. QED
    BY <1>4, <1>5, <2>1, Account
<1>7. CASE ~(wpc[i] = "sending" /\ e \in locked[i])
  <2>1. faults'[e] = faults[e]
    BY <1>7, FaultsAt
  <2>2. Paid(e) => Paid(e)'
    BY <1>1, <1>2, <1>7 DEF Paid, Processed
  <2>3. QED
    BY <1>4, <1>5, <2>1, <2>2, Account
<1>8. QED
  BY <1>6, <1>7

LEMMA RefusedAccounts ==
  ASSUME IInv, NEW e \in Events, NEW i \in Instances, Accounted(e), SendRefused(i)
  PROVE  Accounted(e)'
<1>1. /\ wire \in [Instances -> SUBSET Events] /\ locked \in [Instances -> SUBSET Events]
      /\ wpc \in [Instances -> {"down", "idle", "sending", "refused"}]
  BY DEF IInv, TypeOK, OutboxTypeOK
<1>2. /\ UNCHANGED <<row, created, attempts, locked, stray, streamVars>>
      /\ wpc' = [wpc EXCEPT ![i] = "refused"] /\ wpc[i] \in {"sending", "refused"}
      /\ faults' = IF wpc[i] = "sending" THEN FaultsAfter(locked[i]) ELSE faults
  BY DEF SendRefused
<1>3. PICK x \in wire[i] : wire' = [wire EXCEPT ![i] = wire[i] \ {x}]
  BY DEF SendRefused
<1>4. /\ CopiesOf(e)' = CopiesOf(e) /\ StrayOf(e)' = StrayOf(e)
      /\ WireOf(e)' \subseteq WireOf(e)
  BY <1>1, <1>2, <1>3, SameCopies DEF StrayOf, WireOf
<1>5. CASE wpc[i] = "sending" /\ e \in locked[i]
  <2>1. faults'[e] = faults[e] + 1
    BY <1>2, <1>5, FaultsAt
  <2>2. QED
    BY <1>4, <2>1, Account
<1>6. CASE ~(wpc[i] = "sending" /\ e \in locked[i])
  <2>1. faults'[e] = faults[e]
    BY <1>2, <1>6, FaultsAt
  <2>2. Paid(e) => Paid(e)'
    BY <1>1, <1>2, <1>6 DEF Paid, Processed
  <2>3. QED
    BY <1>4, <2>1, <2>2, Account
<1>7. QED
  BY <1>5, <1>6

LEMMA ResendAccounts ==
  ASSUME IInv, NEW e \in Events, NEW i \in Instances, Accounted(e), Resend(i)
  PROVE  Accounted(e)'
<1>1. /\ wire \in [Instances -> SUBSET Events] /\ locked \in [Instances -> SUBSET Events]
      /\ wire[i] \subseteq locked[i]
  BY DEF IInv, TypeOK, OutboxTypeOK, LocksHeld
<1>2. /\ UNCHANGED <<row, created, attempts, wpc, locked, streamVars>>
      /\ wire' = [wire EXCEPT ![i] = locked[i]] /\ faults' = FaultsAfter(locked[i])
  BY DEF Resend
<1>3. PICK s \in {{}, wire[i]} : stray' = [stray EXCEPT ![i] = s]
  BY DEF Resend, Leftover
<1>4. /\ StrayOf(e)' \subseteq StrayOf(e) \cup {i} /\ WireOf(e)' \subseteq WireOf(e) \cup {i}
      /\ e \notin wire[i] => StrayOf(e)' \subseteq StrayOf(e)
      /\ e \in wire[i] \/ e \notin locked[i] => WireOf(e)' \subseteq WireOf(e)
  BY <1>1, <1>2, <1>3, OnlyAt
<1>5. CopiesOf(e)' = CopiesOf(e) /\ (Paid(e) => Paid(e)')
  BY <1>2, SameCopies, PaidStays
<1>6. faults'[e] = IF e \in locked[i] THEN faults[e] + 1 ELSE faults[e]
  BY <1>2, FaultsAt
<1>7. CASE e \in locked[i]
  <2>1. StrayOf(e)' \subseteq StrayOf(e) \/ WireOf(e)' \subseteq WireOf(e)
    BY <1>4
  <2>2. faults'[e] = faults[e] + 1
    BY <1>6, <1>7
  <2>3. QED
    BY <1>4, <1>5, <2>1, <2>2, Account
<1>8. CASE e \notin locked[i]
  <2>1. StrayOf(e)' \subseteq StrayOf(e) /\ WireOf(e)' \subseteq WireOf(e) /\ faults'[e] = faults[e]
    BY <1>1, <1>4, <1>6, <1>8
  <2>2. QED
    BY <1>5, <2>1, Account
<1>9. QED
  BY <1>7, <1>8

\* Steps that add nothing to any event.
LEMMA OthersAccount ==
  ASSUME IInv, NEW e \in Events, NEW i \in Instances, Accounted(e),
         \/ StartWorker(i) /\ UNCHANGED streamVars
         \/ Settle(i) \/ DropStray(i)
  PROVE  Accounted(e)'
<1>1. /\ row \in [Events -> RowStates] /\ stray \in [Instances -> SUBSET Events]
      /\ locked \in [Instances -> SUBSET Events]
      /\ wpc \in [Instances -> {"down", "idle", "sending", "refused"}]
  BY DEF IInv, TypeOK, OutboxTypeOK
<1>2. /\ UNCHANGED <<streamVars, wire, faults>>
      /\ stray' = stray \/ stray' = [stray EXCEPT ![i] = {}]
  BY DEF StartWorker, Settle, DropStray
<1>3. CopiesOf(e)' = CopiesOf(e) /\ WireOf(e)' = WireOf(e) /\ StrayOf(e)' \subseteq StrayOf(e)
  BY <1>1, <1>2, SameCopies DEF WireOf, StrayOf
<1>4. Paid(e) => Paid(e)'
  <2>1. CASE StartWorker(i)
    BY <1>1, <2>1 DEF StartWorker, Paid, Processed
  <2>2. CASE Settle(i)
    BY <1>1, <2>2 DEF Settle, Paid, Processed
  <2>3. CASE DropStray(i)
    BY <2>3, PaidStays DEF DropStray
  <2>4. QED
    BY <2>1, <2>2, <2>3
<1>5. QED
  BY <1>2, <1>3, <1>4, Account

LEMMA NextAccounts ==
  ASSUME IInv, [Next]_vars, NEW e \in Events, Accounted(e)
  PROVE  Accounted(e)'
<1>1. ASSUME NEW i \in Instances, WorkerRound(i) PROVE Accounted(e)'
  <2>1. CASE Abort(i)
    BY <2>1, EndAccounts DEF Abort
  <2>2. CASE RaiseRefused(i)
    <3>1. wpc[i] # "sending" /\ faults' = faults /\ EndRound(i, "idle") /\ UNCHANGED streamVars
      BY <2>2 DEF RaiseRefused
    <3>2. QED
      BY <3>1, EndAccounts
  <2>3. QED
    BY <1>1, <2>1, <2>2, ClaimAccounts, SendAccounts, RefusedAccounts, ResendAccounts,
       OthersAccount DEF WorkerRound
<1>2. ASSUME NEW i \in Instances, StopWorker(i), UNCHANGED streamVars PROVE Accounted(e)'
  BY <1>2, EndAccounts DEF StopWorker
<1>3. ASSUME NEW i \in Instances, StartWorker(i), UNCHANGED streamVars PROVE Accounted(e)'
  BY <1>3, OthersAccount
<1>4. CASE (\E x \in Events : Transaction(x)) \/ UNCHANGED vars
  <2>1. UNCHANGED <<streamVars, wire, stray, faults>>
    BY <1>4 DEF Transaction, InsertEvent, EndTransaction, vars, outboxVars
  <2>2. Paid(e) => Paid(e)'
    BY <1>4 DEF Transaction, InsertEvent, EndTransaction, Paid, Processed, IInv, TypeOK,
         OutboxTypeOK, vars, outboxVars
  <2>3. CopiesOf(e)' = CopiesOf(e) /\ WireOf(e)' = WireOf(e) /\ StrayOf(e)' = StrayOf(e)
    BY <2>1, SameCopies DEF WireOf, StrayOf
  <2>4. PICK S, W : S = StrayOf(e) /\ W = WireOf(e)
    OBVIOUS
  <2>5. PICK t \in {0, 1}, t1 \in {0, 1} : t = Token(e) /\ t1 = Token(e)' /\ t1 <= t
    BY <2>2 DEF Token
  <2>6. Cardinality(S) \in Nat /\ Cardinality(W) \in Nat /\ CopiesOf(e) \in Nat /\ faults[e] \in Nat
    BY <2>4, Sizes, FS_CardinalityType
  <2>7. CopiesOf(e) + Cardinality(S) + Cardinality(W) + t1 <= 1 + faults[e]
    BY <2>4, <2>5, <2>6 DEF Accounted
  <2>8. QED
    BY <2>1, <2>3, <2>4, <2>5, <2>7 DEF Accounted
<1>5. QED
  BY <1>1, <1>2, <1>3, <1>4 DEF Next

LEMMA InitAccounts ==
  ASSUME Init, NEW e \in Events
  PROVE  Accounted(e)
<1>1. {k \in DOMAIN log : log[k] = e} = {} /\ StrayOf(e) = {} /\ WireOf(e) = {} /\ faults[e] = 0
  BY DEF Init, StreamInit, OutboxInit, StrayOf, WireOf
<1>2. Cardinality({}) = 0
  BY FS_EmptySet
<1>3. Token(e) \in {0, 1}
  BY DEF Token
<1>4. QED
  BY <1>1, <1>2, <1>3 DEF Accounted, CopiesOf

\* Inductive, with IInv.
AllAccounted == \A e \in Events : Accounted(e)

LEMMA AccountedFor == IInv /\ AllAccounted => DuplicatesOnlyFromFaults
<1>1. ASSUME IInv, NEW e \in Events, Accounted(e) PROVE CopiesOf(e) <= 1 + faults[e]
  <2>1. /\ CopiesOf(e) \in Nat /\ faults[e] \in Nat /\ Token(e) \in {0, 1}
        /\ Cardinality(StrayOf(e)) \in Nat /\ Cardinality(WireOf(e)) \in Nat
    BY <1>1, Sizes, FS_CardinalityType DEF Token
  <2>2. QED
    BY <1>1, <2>1 DEF Accounted
<1>2. QED
  BY <1>1 DEF AllAccounted, DuplicatesOnlyFromFaults

\* Copies of an event beyond the first are paid for by failures of a pipeline that
\* carried it, whatever number of workers race for the rows, and however late the
\* commands of a broken connection are executed.
THEOREM CopiesArePaidFor == Spec => []DuplicatesOnlyFromFaults
<1>1. Init => AllAccounted
  BY InitAccounts DEF AllAccounted
<1>2. IInv /\ AllAccounted /\ [Next]_vars => AllAccounted'
  BY NextAccounts DEF AllAccounted
<1>3. IInv /\ AllAccounted => DuplicatesOnlyFromFaults
  BY AccountedFor
<1>4. QED
  BY <1>1, <1>2, <1>3, SpecIInv, PTL DEF Spec

-----------------------------------------------------------------------------
(* Order, with one worker.  Its claim takes the oldest rows, and the rows  *)
(* of a message are stamped in the order of its transactions: so whatever  *)
(* it holds, sends or has left on a connection comes with, or after, all   *)
(* that is earlier about the message.                                      *)

Present == {e \in Events : row[e] # "absent"}

\* created_at is a rank among the rows inserted so far, and a row whose
\* transaction is open is the newest of its message: the message's row lock
\* keeps every later one out until it has ended.
Stamped ==
  /\ \A e \in Present : created[e] <= Cardinality(Present)
  /\ \A e, f \in Present :
       row[e] = "open" /\ f # e /\ MsgOf[f] = MsgOf[e] => created[f] <= created[e]

\* What the only worker has left behind of a message is not older than what it holds.
OldestHeld(w) ==
  \A e \in locked[w], f \in Pending \ locked[w] :
    MsgOf[e] = MsgOf[f] => created[e] <= created[f]

\* Rows are held during a round only.
HeldInRound(w) == wpc[w] \in {"down", "idle"} => locked[w] = {}

OrderInv(w) == IInv /\ Stamped /\ HeldInRound(w) /\ OldestHeld(w)

\* What is earlier than an event of S is published, or in S as well.
InFront(S) == \A f \in S, e \in Events : Earlier(e, f) => e \in Published \cup S

\* Where nothing is refused the only worker leaves nothing behind on a connection
\* without what comes before it.
FirstInv(w) ==
  /\ OrderInv(w)
  /\ wpc[w] # "refused"
  /\ InFront(stray[w])
  /\ FirstPublishedInOrder

\* After every entry about e there is one about f.
LastBefore(e, f) ==
  \A k \in DOMAIN log : log[k] = e => \E j \in (k + 1)..Len(log) : log[j] = f

\* What the round has sent comes after all that is earlier, and so does what is
\* processed.
SentInOrder(w) ==
  wpc[w] = "sending" =>
    \A f \in locked[w] \ wire[w], e \in Events :
      Earlier(e, f) => e \notin wire[w] /\ LastBefore(e, f)

SettledInOrder ==
  \A f \in Processed, e \in Events : Earlier(e, f) => e \in Processed /\ LastBefore(e, f)

NewestInv(w) ==
  /\ OrderInv(w)
  /\ stray[w] = {}
  /\ SentInOrder(w)
  /\ SettledInOrder

-----------------------------------------------------------------------------

\* Steps that leave the rows alone.
LEMMA SameRowsStamped ==
  ASSUME Stamped, UNCHANGED <<row, created>>
  PROVE  Stamped' /\ Pending' = Pending
BY DEF Stamped, Present, Pending

LEMMA InsertStamped ==
  ASSUME IInv, Stamped, NEW x \in Events, InsertEvent(x)
  PROVE  Stamped' /\ Pending' = Pending /\ \A e \in Present : created'[e] = created[e]
<1>1. row \in [Events -> RowStates] /\ created \in [Events -> Nat]
  BY DEF IInv, TypeOK, OutboxTypeOK
<1>2. /\ row[x] = "absent" /\ row' = [row EXCEPT ![x] = "open"]
      /\ \A f \in Events \ {x} : MsgOf[f] = MsgOf[x] => row[f] # "open"
      /\ created' = [created EXCEPT ![x] = 1 + Cardinality(Present)]
  BY DEF InsertEvent, Present
<1>3. x \notin Present /\ Present' = Present \cup {x}
  BY <1>1, <1>2 DEF Present
<1>4. IsFiniteSet(Present)
  BY EventsFinite, FS_Subset DEF Present
<1>5. /\ Cardinality(Present) \in Nat
      /\ Cardinality(Present') = Cardinality(Present) + 1
  BY <1>3, <1>4, FS_CardinalityType, FS_AddElement
<1>6. /\ created'[x] = Cardinality(Present) + 1
      /\ \A e \in Present : created'[e] = created[e] /\ created[e] \in Nat /\ row'[e] = row[e]
  <2>1. created'[x] = Cardinality(Present) + 1
    BY <1>1, <1>2, <1>5
  <2>2. \A e \in Events \ {x} :
          created'[e] = created[e] /\ created[e] \in Nat /\ row'[e] = row[e]
    BY <1>1, <1>2
  <2>3. Present \subseteq Events \ {x}
    BY <1>3 DEF Present
  <2>4. QED
    BY <2>1, <2>2, <2>3
<1>7. \A e \in Present' : created'[e] <= Cardinality(Present')
  BY <1>3, <1>5, <1>6 DEF Stamped
<1>8. ASSUME NEW e \in Present', NEW f \in Present',
             row'[e] = "open", f # e, MsgOf[f] = MsgOf[e]
      PROVE  created'[f] <= created'[e]
  <2>1. CASE e = x
    BY <2>1, <1>3, <1>5, <1>6, <1>8 DEF Stamped
  <2>2. CASE e # x
    <3>1. row[e] = "open" /\ e \in Present /\ e \in Events
      BY <2>2, <1>3, <1>6, <1>8 DEF Present
    <3>2. f # x
      BY <3>1, <2>2, <1>2, <1>8
    <3>3. QED
      BY <3>1, <3>2, <1>3, <1>6, <1>8 DEF Stamped
  <2>3. QED
    BY <2>1, <2>2
<1>9. Pending' = Pending
  BY <1>1, <1>2 DEF Pending
<1>10. QED
  BY <1>6, <1>7, <1>8, <1>9 DEF Stamped

LEMMA EndStamped ==
  ASSUME IInv, Stamped, NEW x \in Events, EndTransaction(x)
  PROVE  /\ Stamped' /\ UNCHANGED created
         /\ Pending' \subseteq Pending \cup {x}
         /\ Committed' \subseteq Committed \cup {x}
         /\ \A f \in Committed : MsgOf[f] = MsgOf[x] => created[f] <= created[x]
<1>1. row \in [Events -> RowStates]
  BY DEF IInv, TypeOK, OutboxTypeOK
<1>2. row[x] = "open" /\ UNCHANGED created
  BY DEF EndTransaction
<1>3. PICK end \in {"pending", "rolledback"} : row' = [row EXCEPT ![x] = end]
  BY DEF EndTransaction
<1>4. Present' = Present
  BY <1>1, <1>2, <1>3 DEF Present
<1>5. \A e \in Events : row'[e] = "open" => row[e] = "open"
  BY <1>1, <1>3
<1>6. Stamped'
  BY <1>2, <1>4, <1>5 DEF Stamped, Present
<1>7. \A f \in Committed : MsgOf[f] = MsgOf[x] => created[f] <= created[x]
  BY <1>2 DEF Stamped, Present, Committed
<1>8. Pending' \subseteq Pending \cup {x} /\ Committed' \subseteq Committed \cup {x}
  BY <1>1, <1>3 DEF Pending, Committed
<1>9. QED
  BY <1>2, <1>6, <1>7, <1>8

LEMMA SettleStamped ==
  ASSUME IInv, Stamped, NEW i \in Instances, Settle(i)
  PROVE  Stamped' /\ Pending' \subseteq Pending /\ UNCHANGED created
<1>1. row \in [Events -> RowStates] /\ locked[i] \subseteq Pending
  BY DEF IInv, TypeOK, OutboxTypeOK, LocksHeld
<1>2. /\ row' = [e \in Events |-> IF e \in locked[i] THEN "processed" ELSE row[e]]
      /\ UNCHANGED created
  BY DEF Settle
<1>3. /\ Present' = Present
      /\ \A e \in Events : row'[e] = "open" => row[e] = "open"
      /\ Pending' \subseteq Pending
  BY <1>1, <1>2 DEF Present, Pending
<1>4. QED
  BY <1>2, <1>3 DEF Stamped, Present

\* The rounds of the only worker that do not settle.
RowsStay(w) ==
  \/ StartWorker(w) /\ UNCHANGED streamVars
  \/ StopWorker(w) /\ UNCHANGED streamVars
  \/ Claim(w) \/ Send(w) \/ SendRefused(w) \/ Resend(w)
  \/ Abort(w) \/ RaiseRefused(w) \/ SendStray(w) \/ DropStray(w)

LEMMA OneWorkerSteps ==
  ASSUME NEW w, Instances = {w}, [Next]_vars
  PROVE  \/ \E e \in Events : InsertEvent(e) \/ EndTransaction(e)
         \/ RowsStay(w) \/ Settle(w) \/ UNCHANGED vars
BY DEF Next, Transaction, WorkerRound, RowsStay

LEMMA ClaimOldest ==
  ASSUME NEW w, Instances = {w}, OrderInv(w), Claim(w)
  PROVE  HeldInRound(w)' /\ OldestHeld(w)'
<1>1. PICK B \in SUBSET Claimable :
        OldestOf(B, Claimable) /\ locked' = [locked EXCEPT ![w] = B]
  BY DEF Claim
<1>2. /\ wpc \in [Instances -> {"down", "idle", "sending", "refused"}]
      /\ locked \in [Instances -> SUBSET Events]
      /\ created \in [Events -> Nat]
  BY DEF OrderInv, IInv, TypeOK, OutboxTypeOK
<1>3. /\ wpc[w] = "idle" /\ wpc' = [wpc EXCEPT ![w] = "sending"]
      /\ UNCHANGED <<row, created>>
  BY DEF Claim
<1>4. Claimable = Pending
  BY <1>3 DEF Claimable, OrderInv, HeldInRound
<1>5. locked'[w] = B /\ wpc'[w] = "sending" /\ Pending' = Pending
  BY <1>1, <1>2, <1>3 DEF Pending
<1>6. \A e \in B, f \in Pending \ B : created[e] <= created[f]
  BY <1>1, <1>4 DEF OldestOf
<1>7. QED
  BY <1>3, <1>5, <1>6 DEF HeldInRound, OldestHeld

LEMMA NextOrder ==
  ASSUME NEW w, Instances = {w}, OrderInv(w), [Next]_vars
  PROVE  OrderInv(w)'
<1>1. IInv' /\ IInv
  BY NextIInv DEF OrderInv
<1>2. /\ wpc \in [Instances -> {"down", "idle", "sending", "refused"}]
      /\ locked \in [Instances -> SUBSET Events]
      /\ locked[w] \subseteq Pending
      /\ Pending \subseteq Present /\ Pending \subseteq Committed
  BY <1>1 DEF IInv, TypeOK, OutboxTypeOK, LocksHeld, Pending, Present, Committed
<1>3. SUFFICES Stamped' /\ HeldInRound(w)' /\ OldestHeld(w)'
  BY <1>1 DEF OrderInv
<1>4. ASSUME NEW x \in Events, InsertEvent(x)
      PROVE  Stamped' /\ HeldInRound(w)' /\ OldestHeld(w)'
  <2>1. UNCHANGED <<wpc, locked>>
    BY <1>4 DEF InsertEvent
  <2>2. Stamped' /\ Pending' = Pending /\ \A e \in Present : created'[e] = created[e]
    BY <1>1, <1>4, InsertStamped DEF OrderInv
  <2>3. QED
    BY <1>2, <2>1, <2>2 DEF OrderInv, HeldInRound, OldestHeld
<1>5. ASSUME NEW x \in Events, EndTransaction(x)
      PROVE  Stamped' /\ HeldInRound(w)' /\ OldestHeld(w)'
  <2>1. UNCHANGED <<wpc, locked>>
    BY <1>5 DEF EndTransaction
  <2>2. /\ Stamped' /\ UNCHANGED created
        /\ Pending' \subseteq Pending \cup {x}
        /\ \A f \in Committed : MsgOf[f] = MsgOf[x] => created[f] <= created[x]
    BY <1>1, <1>5, EndStamped DEF OrderInv
  <2>3. QED
    BY <1>2, <2>1, <2>2 DEF OrderInv, HeldInRound, OldestHeld
<1>6. CASE RowsStay(w)
  <2>1. UNCHANGED <<row, created>>
    BY <1>6 DEF RowsStay, StartWorker, StopWorker, Claim, Send, SendRefused, Resend, Abort,
         RaiseRefused, SendStray, DropStray, EndRound
  <2>2. Stamped' /\ Pending' = Pending
    BY <2>1, SameRowsStamped DEF OrderInv
  <2>3. CASE Claim(w)
    BY <2>2, <2>3, ClaimOldest
  <2>4. CASE StopWorker(w) \/ Abort(w) \/ RaiseRefused(w)
    <3>1. locked'[w] = {}
      BY <1>2, <2>4 DEF StopWorker, Abort, RaiseRefused, EndRound
    <3>2. QED
      BY <2>2, <3>1 DEF HeldInRound, OldestHeld
  <2>5. CASE Send(w) \/ SendRefused(w) \/ Resend(w) \/ SendStray(w) \/ DropStray(w) \/ StartWorker(w)
    <3>1. /\ locked' = locked
          /\ wpc'[w] \in {"down", "idle"} => wpc[w] \in {"down", "idle"}
      BY <1>2, <2>5 DEF Send, SendRefused, Resend, SendStray, DropStray, StartWorker
    <3>2. QED
      BY <2>1, <2>2, <3>1 DEF OrderInv, HeldInRound, OldestHeld
  <2>6. QED
    BY <1>6, <2>3, <2>4, <2>5 DEF RowsStay
<1>7. CASE Settle(w)
  <2>1. Stamped'
    BY <1>1, <1>7, SettleStamped DEF OrderInv
  <2>2. locked'[w] = {}
    BY <1>2, <1>7 DEF Settle
  <2>3. QED
    BY <2>1, <2>2 DEF HeldInRound, OldestHeld
<1>8. CASE UNCHANGED vars
  BY <1>8, SameRowsStamped DEF vars, outboxVars, OrderInv, HeldInRound, OldestHeld
<1>9. QED
  BY <1>4, <1>5, <1>6, <1>7, <1>8, OneWorkerSteps

LEMMA InitOrder ==
  ASSUME NEW w, Instances = {w}, Init
  PROVE  OrderInv(w)
<1>1. IInv
  BY InitIInv
<1>2. /\ \A e \in Events : row[e] = "absent"
      /\ locked[w] = {}
  BY DEF Init, OutboxInit
<1>3. Stamped /\ HeldInRound(w) /\ OldestHeld(w)
  BY <1>2 DEF Stamped, Present, HeldInRound, OldestHeld
<1>4. QED
  BY <1>1, <1>3 DEF OrderInv

-----------------------------------------------------------------------------
(* What the events before an event are, before and after a step.           *)

\* A commit makes nothing precede what is committed already.
LEMMA EarlierAfter ==
  ASSUME NEW w, Instances = {w}, OrderInv(w), [Next]_vars,
         NEW e \in Events, NEW f \in Events, Earlier(e, f)'
  PROVE  \/ Earlier(e, f)
         \/ row[f] = "open"
<1>1. IInv /\ row \in [Events -> RowStates]
  BY DEF OrderInv, IInv, TypeOK, OutboxTypeOK
<1>2. CASE UNCHANGED created /\ Committed' = Committed
  BY <1>2 DEF Earlier
<1>3. ASSUME NEW x \in Events, InsertEvent(x) PROVE Earlier(e, f)
  <2>1. \A g \in Present : created'[g] = created[g]
    BY <1>1, <1>3, InsertStamped DEF OrderInv
  <2>2. Committed' = Committed /\ Committed \subseteq Present
    BY <1>1, <1>3 DEF InsertEvent, Committed, Present
  <2>3. QED
    BY <2>1, <2>2 DEF Earlier
<1>4. ASSUME NEW x \in Events, EndTransaction(x) PROVE Earlier(e, f) \/ (f = x /\ row[x] = "open")
  <2>1. /\ UNCHANGED created /\ Committed' \subseteq Committed \cup {x}
        /\ \A g \in Committed : MsgOf[g] = MsgOf[x] => created[g] <= created[x]
    BY <1>1, <1>4, EndStamped DEF OrderInv
  <2>2. created \in [Events -> Nat] /\ row[x] = "open"
    BY <1>1, <1>4 DEF IInv, TypeOK, OutboxTypeOK, EndTransaction
  <2>3. QED
    BY <2>1, <2>2 DEF Earlier
<1>5. CASE RowsStay(w)
  <2>1. UNCHANGED <<row, created>>
    BY <1>5 DEF RowsStay, StartWorker, StopWorker, Claim, Send, SendRefused, Resend, Abort,
         RaiseRefused, SendStray, DropStray, EndRound
  <2>2. QED
    BY <1>2, <2>1 DEF Committed
<1>6. CASE Settle(w)
  <2>1. locked[w] \subseteq Pending
    BY <1>1 DEF IInv, LocksHeld
  <2>2. UNCHANGED created /\ Committed' = Committed
    BY <1>1, <1>6, <2>1 DEF Settle, Committed, Pending
  <2>3. QED
    BY <1>2, <2>2
<1>7. CASE UNCHANGED vars
  BY <1>2, <1>7 DEF vars, outboxVars, Committed
<1>8. QED
  BY <1>3, <1>4, <1>5, <1>6, <1>7, OneWorkerSteps

LEMMA Appended ==
  ASSUME NEW x \in Events, StreamTypeOK, XAdd(x)
  PROVE  /\ Len(log) \in Nat /\ Len(log') = Len(log) + 1
         /\ DOMAIN log = 1..Len(log) /\ DOMAIN log' = 1..(Len(log) + 1)
         /\ \A k \in 1..Len(log) : log'[k] = log[k]
         /\ log'[Len(log) + 1] = x
BY DEF StreamTypeOK, XAdd

-----------------------------------------------------------------------------
(* First copies.                                                           *)

\* What the worker has still to send of its batch.
LEMMA WireInFront ==
  ASSUME NEW w, Instances = {w}, FirstInv(w)
  PROVE  InFront(wire[w])
<1> SUFFICES ASSUME NEW f \in wire[w], NEW e \in Events, Earlier(e, f), e \notin Published
             PROVE  e \in wire[w]
  BY DEF InFront
<1>1. /\ OrderInv(w) /\ IInv /\ wpc[w] # "refused"
      /\ wire[w] \subseteq locked[w] /\ locked[w] \subseteq Pending
      /\ wpc[w] \in {"down", "idle", "sending", "refused"}
      /\ created \in [Events -> Nat]
  BY DEF FirstInv, OrderInv, IInv, TypeOK, OutboxTypeOK, LocksHeld
<1>2. wpc[w] = "sending"
  BY <1>1 DEF OrderInv, HeldInRound
<1>3. e \in Pending
  BY <1>1 DEF Earlier, Committed, Pending, Processed, IInv
<1>4. e \in locked[w]
  BY <1>1, <1>3 DEF OrderInv, OldestHeld, Earlier, Pending
<1>5. QED
  BY <1>1, <1>2, <1>4 DEF IInv, SentIsPublished

\* The next of a set that has everything in front of it.
LEMMA NextIsFirst ==
  ASSUME IInv, NEW S \in SUBSET Events, InFront(S), NEW x \in S, NextOf(S, x),
         NEW e \in Events, Earlier(e, x)
  PROVE  e \in Published
BY DEF IInv, TypeOK, OutboxTypeOK, NextOf, InFront, Earlier

LEMMA FirstAppended ==
  ASSUME FirstPublishedInOrder, StreamTypeOK, NEW x \in Events, XAdd(x),
         UNCHANGED <<row, created>>,
         \A e \in Events : Earlier(e, x) => e \in Published
  PROVE  FirstPublishedInOrder'
<1> SUFFICES ASSUME NEW e \in Events, NEW f \in Events, NEW k \in DOMAIN log',
                    Earlier(e, f)', log'[k] = f
             PROVE  \E j \in 1..(k - 1) : log'[j] = e
  BY DEF FirstPublishedInOrder
<1>1. Earlier(e, f)
  BY DEF Earlier, Committed
<1>2. /\ Len(log) \in Nat /\ DOMAIN log = 1..Len(log) /\ DOMAIN log' = 1..(Len(log) + 1)
      /\ \A j \in 1..Len(log) : log'[j] = log[j]
      /\ log'[Len(log) + 1] = x
  BY Appended
<1>3. CASE k \in DOMAIN log
  <2>1. PICK j \in 1..(k - 1) : log[j] = e
    BY <1>1, <1>2, <1>3 DEF FirstPublishedInOrder
  <2>2. log'[j] = e
    BY <1>2, <1>3, <2>1
  <2>3. QED
    BY <2>2
<1>4. CASE k = Len(log) + 1
  <2>1. e \in Published
    BY <1>1, <1>2, <1>4
  <2>2. PICK j \in DOMAIN log : log[j] = e
    BY <2>1 DEF Published
  <2>3. j \in 1..(k - 1) /\ log'[j] = e
    BY <1>2, <1>4, <2>2
  <2>4. QED
    BY <2>3
<1>5. QED
  BY <1>2, <1>3, <1>4

LEMMA NextFirst ==
  ASSUME NEW w, Instances = {w}, ~MayRefuse, FirstInv(w), [Next]_vars
  PROVE  FirstInv(w)'
<1>1. OrderInv(w) /\ OrderInv(w)'
  BY NextOrder DEF FirstInv
<1>2. /\ IInv /\ IInv' /\ StreamTypeOK
      /\ wpc \in [Instances -> {"down", "idle", "sending", "refused"}]
      /\ stray \in [Instances -> SUBSET Events] /\ wire[w] \subseteq Events
      /\ stray[w] \subseteq Committed /\ wire[w] \subseteq Committed
      /\ Published \subseteq Committed
  BY <1>1 DEF OrderInv, IInv, TypeOK, OutboxTypeOK, LocksHeld, StrayCommitted, Pending, Committed
<1>3. \A e \in Events, f \in Committed : Earlier(e, f)' => Earlier(e, f)
  BY <1>1, EarlierAfter DEF Committed
<1>4. InFront(wire[w])
  BY WireInFront
<1>5. ASSUME NEW S \in SUBSET Committed, InFront(S), Published \subseteq Published'
      PROVE  InFront(S)'
  BY <1>3, <1>5 DEF InFront
<1>6. SUFFICES wpc'[w] # "refused" /\ InFront(stray[w])' /\ FirstPublishedInOrder'
  BY <1>1 DEF FirstInv
<1>7. ASSUME UNCHANGED streamVars
      PROVE  Published' = Published /\ FirstPublishedInOrder'
  <2>1. Published' = Published
    BY <1>7, SameStream
  <2>2. log' = log /\ \A k \in DOMAIN log : log[k] \in Committed
    BY <1>2, <1>7 DEF streamVars, Published
  <2>3. QED
    BY <1>3, <2>1, <2>2 DEF FirstInv, FirstPublishedInOrder
<1>8. CASE UNCHANGED <<streamVars, stray>> /\ wpc'[w] # "refused"
  BY <1>2, <1>5, <1>7, <1>8 DEF FirstInv
<1>9. CASE Send(w)
  <2>1. PICK x \in wire[w] : NextOf(wire[w], x) /\ XAdd(x)
    BY <1>9 DEF Send
  <2>2. Published \subseteq Published'
    BY <1>2, <2>1, XAddPublishes
  <2>3. \A e \in Events : Earlier(e, x) => e \in Published
    BY <1>2, <1>4, <2>1, NextIsFirst
  <2>4. UNCHANGED <<row, created, wpc, stray>>
    BY <1>9 DEF Send
  <2>5. InFront(stray[w])'
    BY <1>2, <1>5, <2>2, <2>4 DEF FirstInv
  <2>6. QED
    BY <1>2, <2>1, <2>3, <2>4, <2>5, FirstAppended DEF FirstInv
<1>10. CASE SendStray(w)
  <2>1. PICK x \in stray[w] : /\ NextOf(stray[w], x) /\ XAdd(x)
                              /\ stray' = [stray EXCEPT ![w] = @ \ {x}]
    BY <1>10 DEF SendStray
  <2>2. Published' = Published \cup {x} /\ stray'[w] = stray[w] \ {x}
    BY <1>2, <2>1, XAddPublishes
  <2>3. \A e \in Events : Earlier(e, x) => e \in Published
    BY <1>2, <2>1, NextIsFirst DEF FirstInv
  <2>4. UNCHANGED <<row, created, wpc>>
    BY <1>10 DEF SendStray
  <2>5. InFront(stray[w])'
    BY <1>2, <1>3, <2>2 DEF FirstInv, InFront
  <2>6. QED
    BY <1>2, <2>1, <2>3, <2>4, <2>5, FirstAppended DEF FirstInv
<1>11. CASE \/ Resend(w) \/ Abort(w) \/ RaiseRefused(w) \/ DropStray(w)
            \/ StopWorker(w) /\ UNCHANGED streamVars
  <2>1. UNCHANGED streamVars /\ wpc'[w] # "refused"
    BY <1>2, <1>11 DEF Resend, Abort, RaiseRefused, DropStray, StopWorker, EndRound, FirstInv
  <2>2. stray'[w] \in {{}, wire[w]}
    BY <1>2, <1>11 DEF Resend, Abort, RaiseRefused, DropStray, StopWorker, EndRound, Leftover
  <2>3. InFront({}) /\ InFront(stray'[w])
    BY <1>4, <2>2 DEF InFront
  <2>4. InFront(stray[w])'
    BY <1>2, <1>3, <1>7, <2>1, <2>2, <2>3 DEF InFront
  <2>5. QED
    BY <1>7, <2>1, <2>4
<1>12. CASE \E x \in Events : InsertEvent(x) \/ EndTransaction(x)
  BY <1>8, <1>12 DEF InsertEvent, EndTransaction, FirstInv
<1>13. CASE Settle(w) \/ Claim(w) \/ (StartWorker(w) /\ UNCHANGED streamVars)
  BY <1>2, <1>8, <1>13 DEF Settle, Claim, StartWorker
<1>14. CASE UNCHANGED vars
  BY <1>8, <1>14 DEF vars, outboxVars, FirstInv
<1>15. CASE SendRefused(w)
  BY <1>15 DEF SendRefused
<1>16. QED
  BY <1>9, <1>10, <1>11, <1>12, <1>13, <1>14, <1>15, OneWorkerSteps DEF RowsStay

LEMMA InitFirst ==
  ASSUME NEW w, Instances = {w}, Init
  PROVE  FirstInv(w)
<1>1. OrderInv(w)
  BY InitOrder
<1>2. wpc[w] = "down" /\ stray[w] = {} /\ log = <<>>
  BY DEF Init, OutboxInit, StreamInit
<1>3. QED
  BY <1>1, <1>2 DEF FirstInv, InFront, FirstPublishedInOrder

\* With one worker, and a Redis that refuses no single command of a pipeline, the
\* events of a message first appear in the order of their transactions: whatever
\* rounds fail, are sent again or are executed late, the claim takes the oldest
\* rows and a message's row lock orders its stamps.
THEOREM FirstCopiesInOrder ==
  ASSUME NEW w, Instances = {w}, ~MayRefuse
  PROVE  Spec => []FirstPublishedInOrder
<1>1. Init => FirstInv(w)
  BY InitFirst
<1>2. FirstInv(w) /\ [Next]_vars => FirstInv(w)'
  BY NextFirst
<1>3. FirstInv(w) => FirstPublishedInOrder
  BY DEF FirstInv
<1>4. QED
  BY <1>1, <1>2, <1>3, PTL DEF Spec

-----------------------------------------------------------------------------
(* Last copies.                                                            *)

LEMMA LastAfter ==
  ASSUME StreamTypeOK, NEW x \in Events, XAdd(x), NEW e \in Events, NEW f \in Events,
         e # x, f = x \/ LastBefore(e, f)
  PROVE  LastBefore(e, f)'
<1> SUFFICES ASSUME NEW k \in DOMAIN log', log'[k] = e
             PROVE  \E j \in (k + 1)..Len(log') : log'[j] = f
  BY DEF LastBefore
<1>1. /\ Len(log) \in Nat /\ Len(log') = Len(log) + 1
      /\ DOMAIN log = 1..Len(log) /\ DOMAIN log' = 1..(Len(log) + 1)
      /\ \A i \in 1..Len(log) : log'[i] = log[i]
      /\ log'[Len(log) + 1] = x
  BY Appended
<1>2. k \in 1..Len(log) /\ log[k] = e
  BY <1>1
<1>3. CASE f = x
  BY <1>1, <1>2, <1>3
<1>4. CASE LastBefore(e, f)
  <2>1. PICK j \in (k + 1)..Len(log) : log[j] = f
    BY <1>1, <1>2, <1>4 DEF LastBefore
  <2>2. j \in (k + 1)..Len(log') /\ log'[j] = f
    BY <1>1, <1>2, <2>1
  <2>3. QED
    BY <2>2
<1>5. QED
  BY <1>3, <1>4

LEMMA NextNewest ==
  ASSUME NEW w, Instances = {w}, ~MayLinger, NewestInv(w), [Next]_vars
  PROVE  NewestInv(w)'
<1>1. OrderInv(w) /\ OrderInv(w)'
  BY NextOrder DEF NewestInv
<1>2. /\ IInv /\ IInv' /\ StreamTypeOK
      /\ wpc \in [Instances -> {"down", "idle", "sending", "refused"}]
      /\ stray \in [Instances -> SUBSET Events] /\ wire \in [Instances -> SUBSET Events]
      /\ locked \in [Instances -> SUBSET Events] /\ created \in [Events -> Nat]
      /\ locked[w] \subseteq Pending /\ wire[w] \subseteq locked[w]
      /\ Pending \subseteq Committed /\ Processed \subseteq Committed
      /\ Pending \cap Processed = {} /\ Committed = Pending \cup Processed
  BY <1>1 DEF OrderInv, IInv, TypeOK, OutboxTypeOK, LocksHeld, Pending, Processed, Committed
<1>3. \A e \in Events, f \in Committed : Earlier(e, f)' => Earlier(e, f)
  BY <1>1, EarlierAfter DEF Committed
<1>4. SUFFICES stray'[w] = {} /\ SentInOrder(w)' /\ SettledInOrder'
  BY <1>1 DEF NewestInv
<1>5. ASSUME UNCHANGED streamVars PROVE \A e, f : LastBefore(e, f) => LastBefore(e, f)'
  BY <1>5 DEF streamVars, LastBefore
<1>6. ASSUME UNCHANGED streamVars, Processed' = Processed PROVE SettledInOrder'
  BY <1>2, <1>3, <1>5, <1>6 DEF NewestInv, SettledInOrder
<1>7. ASSUME UNCHANGED <<streamVars, wpc, locked, wire>> PROVE SentInOrder(w)'
  BY <1>2, <1>3, <1>5, <1>7 DEF NewestInv, SentInOrder
<1>8. ASSUME NEW x \in Events, InsertEvent(x) \/ EndTransaction(x)
      PROVE  stray'[w] = {} /\ SentInOrder(w)' /\ SettledInOrder'
  <2>1. UNCHANGED <<streamVars, stray, wpc, locked, wire>> /\ Processed' = Processed
    <3>1. row \in [Events -> RowStates]
      BY <1>2 DEF IInv, TypeOK, OutboxTypeOK
    <3>2. QED
      BY <1>8, <3>1 DEF InsertEvent, EndTransaction, Processed
  <2>2. QED
    BY <1>6, <1>7, <2>1 DEF NewestInv
<1>9. CASE Claim(w) \/ Resend(w)
  <2>1. UNCHANGED <<streamVars, row>>
    BY <1>9 DEF Claim, Resend
  <2>2. locked'[w] \ wire'[w] = {} /\ stray'[w] = {}
    BY <1>2, <1>9 DEF Claim, Resend, Leftover, NewestInv
  <2>3. QED
    BY <1>6, <2>1, <2>2 DEF SentInOrder, Processed
<1>10. CASE Send(w)
  <2>1. PICK x \in wire[w] : /\ NextOf(wire[w], x) /\ XAdd(x)
                             /\ wire' = [wire EXCEPT ![w] = @ \ {x}]
    BY <1>10 DEF Send
  <2>2. UNCHANGED <<row, created, wpc, locked, stray>>
    BY <1>10 DEF Send
  <2>3. x \in Events /\ x \in Pending /\ x \in Committed
    BY <1>2
  <2>4. SettledInOrder'
    <3>1. SUFFICES ASSUME NEW f \in Processed, NEW e \in Events, Earlier(e, f)
                   PROVE  e \in Processed /\ LastBefore(e, f)'
      BY <2>2 DEF SettledInOrder, Processed, Earlier, Committed
    <3>2. e \in Processed /\ LastBefore(e, f)
      BY <3>1 DEF NewestInv, SettledInOrder
    <3>3. QED
      BY <1>2, <2>1, <2>3, <3>2, LastAfter DEF Processed
  <2>5. SentInOrder(w)'
    <3>1. wire'[w] = wire[w] \ {x}
      BY <1>2, <2>1
    <3>2. SUFFICES ASSUME wpc[w] = "sending", NEW f \in locked[w] \ wire'[w], NEW e \in Events,
                          Earlier(e, f)
                   PROVE  e \notin wire'[w] /\ LastBefore(e, f)'
      BY <2>2 DEF SentInOrder, Earlier, Committed
    <3>3. CASE f = x
      <4>1. e \notin wire[w]
        BY <1>2, <2>1, <3>2, <3>3 DEF NextOf, Earlier
      <4>2. QED
        BY <1>2, <2>1, <2>3, <3>1, <3>3, <4>1, LastAfter
    <3>4. CASE f # x
      <4>1. e \notin wire[w] /\ LastBefore(e, f)
        BY <3>1, <3>2, <3>4 DEF NewestInv, SentInOrder
      <4>2. QED
        BY <1>2, <2>1, <2>3, <3>1, <4>1, LastAfter
    <3>5. QED
      BY <3>3, <3>4
  <2>6. QED
    BY <2>2, <2>4, <2>5 DEF NewestInv
<1>11. CASE \/ SendRefused(w) \/ Abort(w) \/ RaiseRefused(w) \/ DropStray(w)
            \/ StartWorker(w) /\ UNCHANGED streamVars
            \/ StopWorker(w) /\ UNCHANGED streamVars
  <2>1. UNCHANGED <<streamVars, row>>
    BY <1>11 DEF SendRefused, Abort, RaiseRefused, DropStray, StartWorker, StopWorker, EndRound
  <2>2. stray'[w] = {}
    BY <1>2, <1>11 DEF SendRefused, Abort, RaiseRefused, DropStray, StartWorker, StopWorker,
         EndRound, Leftover, NewestInv
  <2>3. wpc'[w] # "sending" \/ UNCHANGED <<wpc, locked, wire>>
    BY <1>2, <1>11 DEF SendRefused, Abort, RaiseRefused, DropStray, StartWorker, StopWorker, EndRound
  <2>4. QED
    BY <1>6, <1>7, <2>1, <2>2, <2>3 DEF SentInOrder, Processed
<1>12. CASE Settle(w)
  <2>1. /\ row' = [e \in Events |-> IF e \in locked[w] THEN "processed" ELSE row[e]]
        /\ wpc[w] = "sending" /\ wire[w] = {} /\ wpc'[w] = "idle"
        /\ UNCHANGED <<streamVars, stray, created>>
    BY <1>2, <1>12 DEF Settle
  <2>2. Processed' = Processed \cup locked[w]
    BY <1>2, <2>1 DEF Processed
  <2>3. ASSUME NEW f \in Processed', NEW e \in Events, Earlier(e, f)'
        PROVE  e \in Processed' /\ LastBefore(e, f)'
    <3>1. Earlier(e, f)
      BY <1>2, <1>3, <2>2, <2>3
    <3>2. CASE f \in Processed
      BY <1>5, <2>1, <2>2, <3>1, <3>2 DEF NewestInv, SettledInOrder
    <3>3. CASE f \in locked[w]
      <4>1. LastBefore(e, f)
        BY <2>1, <3>1, <3>3 DEF NewestInv, SentInOrder
      <4>2. e \in Processed \cup locked[w]
        BY <1>1, <1>2, <3>1, <3>3 DEF OrderInv, OldestHeld, Earlier
      <4>3. QED
        BY <1>5, <2>1, <2>2, <4>1, <4>2
    <3>4. QED
      BY <2>2, <2>3, <3>2, <3>3
  <2>4. QED
    BY <2>1, <2>3 DEF SentInOrder, SettledInOrder, NewestInv
<1>13. CASE UNCHANGED vars
  BY <1>6, <1>7, <1>13 DEF vars, outboxVars, NewestInv, Processed
<1>14. CASE SendStray(w)
  BY <1>14 DEF SendStray, NewestInv
<1>15. QED
  BY <1>8, <1>9, <1>10, <1>11, <1>12, <1>13, <1>14, OneWorkerSteps DEF RowsStay

LEMMA InitNewest ==
  ASSUME NEW w, Instances = {w}, Init
  PROVE  NewestInv(w)
<1>1. OrderInv(w)
  BY InitOrder
<1>2. wpc[w] = "down" /\ stray[w] = {} /\ Processed = {}
  BY DEF Init, OutboxInit, Processed
<1>3. QED
  BY <1>1, <1>2 DEF NewestInv, SentInOrder, SettledInOrder

\* With one worker, and no command executed after its connection was given up,
\* the newest event of a message is also the last one in the stream: a round
\* that is sent again repeats all that is later than what it repeats.
THEOREM LastCopiesInOrder ==
  ASSUME NEW w, Instances = {w}, ~MayLinger
  PROVE  Spec => []NewestPublishedLast
<1>1. Init => NewestInv(w)
  BY InitNewest
<1>2. NewestInv(w) /\ [Next]_vars => NewestInv(w)'
  BY NextNewest
<1>3. NewestInv(w) => NewestPublishedLast
  BY DEF NewestInv, SettledInOrder, LastBefore, NewestPublishedLast, Processed
<1>4. QED
  BY <1>1, <1>2, <1>3, PTL DEF Spec

-----------------------------------------------------------------------------
(* The listener: the inductive invariant, for one instance.                *)

\* Where the group stands in the stream, and what it holds.
Positions(i) ==
  /\ cursor[i] <= Len(log)
  /\ group[i] => base <= cursor[i]
  /\ pel[i] \subseteq 1..cursor[i]
  /\ batch[i] \subseteq 1..cursor[i]
  /\ handled[i] \subseteq 1..cursor[i]

\* The task has entries in hand exactly while it works on a batch, and the
\* entry it is about to acknowledge is one it has handled.
TaskState(i) ==
  /\ lpc[i] \in {"down", "reading"} <=> batch[i] = {}
  /\ lpc[i] = "acking" =>
       \A k \in batch[i] : IsNextEntry(i, k) => k \in handled[i]

InOrder(i) ==
  \A k \in batch[i], h \in handled[i] :
    h < k \/ (lpc[i] = "acking" /\ IsNextEntry(i, k) /\ h = k)

Covered(i) ==
  group[i] => /\ batch[i] \subseteq pel[i]
              /\ \A k \in (base + 1)..cursor[i] : k \in handled[i] \cup pel[i]

InstanceInv(i) == Positions(i) /\ TaskState(i) /\ InOrder(i) /\ Covered(i)

LInv ==
  /\ StreamTypeOK
  /\ ListenerTypeOK
  /\ \A i \in Listeners : InstanceInv(i)

\* The variables of one instance, and the part of its invariant's state that
\* other instances never touch.
Same(i) ==
  /\ lpc'[i] = lpc[i]
  /\ group'[i] = group[i]
  /\ cursor'[i] = cursor[i]
  /\ pel'[i] = pel[i]
  /\ batch'[i] = batch[i]
  /\ handled'[i] = handled[i]

LEMMA SameInv ==
  ASSUME NEW i \in Listeners, LInv, Same(i), UNCHANGED base,
         Len(log) <= Len(log'), Len(log') \in Nat
  PROVE  InstanceInv(i)'
<1>1. /\ InstanceInv(i)
      /\ Len(log) \in Nat
      /\ cursor[i] \in Nat
  BY DEF LInv, StreamTypeOK, ListenerTypeOK
<1>2. Positions(i)'
  BY <1>1 DEF InstanceInv, Positions, Same
<1>3. TaskState(i)' /\ InOrder(i)' /\ Covered(i)'
  BY <1>1 DEF InstanceInv, TaskState, InOrder, Covered, Same, IsNextEntry
<1>4. QED
  BY <1>2, <1>3 DEF InstanceInv

\* A step of instance i alone keeps the invariant if it keeps the types and i's
\* part of it.
LEMMA LocalStep ==
  ASSUME LInv, NEW i \in Listeners, UNCHANGED streamVars,
         ListenerTypeOK', InstanceInv(i)',
         \A j \in Listeners \ {i} : Same(j)
  PROVE  LInv'
<1>1. StreamTypeOK' /\ Len(log) \in Nat /\ UNCHANGED <<log, base>>
  BY DEF LInv, StreamTypeOK, streamVars
<1>2. \A j \in Listeners \ {i} : InstanceInv(j)'
  BY <1>1, SameInv
<1>3. QED
  BY <1>1, <1>2 DEF LInv

-----------------------------------------------------------------------------

LEMMA ListenerInitInv == ListenerSpecInit => LInv
<1> SUFFICES ASSUME ListenerSpecInit PROVE LInv
  OBVIOUS
<1> USE DEF ListenerSpecInit, StreamInit, ListenerInit
<1>1. StreamTypeOK /\ ListenerTypeOK
  BY DEF StreamTypeOK, ListenerTypeOK, Entries
<1>2. ASSUME NEW i \in Listeners PROVE InstanceInv(i)
  BY DEF InstanceInv, Positions, TaskState, InOrder, Covered
<1>3. QED
  BY <1>1, <1>2 DEF LInv

LEMMA StartListenerInv ==
  ASSUME LInv, NEW i \in Listeners, StartListener(i), UNCHANGED streamVars
  PROVE  LInv'
<1> USE DEF StartListener
<1>1. base \in 0..Len(log) /\ Len(log) \in Nat
  BY DEF LInv, StreamTypeOK
<1>2. ListenerTypeOK' /\ \A j \in Listeners \ {i} : Same(j)
  BY <1>1 DEF LInv, ListenerTypeOK, Same
<1>3. /\ lpc'[i] = "reading" /\ group'[i] /\ cursor'[i] = base /\ pel'[i] = {}
      /\ batch'[i] = {} /\ handled'[i] = {} /\ log' = log /\ base' = base
  BY DEF LInv, ListenerTypeOK, streamVars
<1>4. InstanceInv(i)'
  BY <1>1, <1>3 DEF InstanceInv, Positions, TaskState, InOrder, Covered
<1>5. QED
  BY <1>2, <1>4, LocalStep

LEMMA StopListenerInv ==
  ASSUME LInv, NEW i \in Listeners, StopListener(i), UNCHANGED streamVars
  PROVE  LInv'
<1> USE DEF StopListener
<1>1. Len(log) \in Nat
  BY DEF LInv, StreamTypeOK
<1>2. ListenerTypeOK' /\ \A j \in Listeners \ {i} : Same(j)
  BY DEF LInv, ListenerTypeOK, Same
<1>3. /\ lpc'[i] = "down" /\ group'[i] = FALSE /\ cursor'[i] = 0 /\ pel'[i] = {}
      /\ batch'[i] = {} /\ handled'[i] = {} /\ log' = log /\ base' = base
  BY DEF LInv, ListenerTypeOK, streamVars
<1>4. InstanceInv(i)'
  BY <1>1, <1>3 DEF InstanceInv, Positions, TaskState, InOrder, Covered
<1>5. QED
  BY <1>2, <1>4, LocalStep

\* What a read delivers lies between the old cursor and the new one.
LEMMA NewEntriesFact ==
  ASSUME LInv, NEW i \in Listeners, cursor[i] < Len(log)
  PROVE  /\ LastOfRead(i) \in Nat
         /\ cursor[i] < LastOfRead(i)
         /\ LastOfRead(i) <= Len(log)
         /\ NewEntries(i) # {}
         /\ NewEntries(i) \subseteq Entries
         /\ NewEntries(i) = (cursor[i] + 1)..LastOfRead(i)
<1>1. cursor[i] \in Nat /\ Len(log) \in Nat
  BY DEF LInv, ListenerTypeOK, StreamTypeOK
<1>2. /\ LastOfRead(i) \in Nat
      /\ cursor[i] < LastOfRead(i)
      /\ LastOfRead(i) <= Len(log)
  BY <1>1, ReadCountAssumption DEF LastOfRead
<1>3. cursor[i] + 1 \in NewEntries(i)
  BY <1>1, <1>2 DEF NewEntries
<1>4. NewEntries(i) \subseteq Entries
  BY <1>1, <1>2 DEF NewEntries, Entries
<1>5. QED
  BY <1>2, <1>3, <1>4 DEF NewEntries

LEMMA ReadInv ==
  ASSUME LInv, NEW i \in Listeners, Read(i)
  PROVE  LInv'
<1> USE DEF Read, Delivered
<1>1. /\ cursor[i] \in Nat /\ Len(log) \in Nat /\ base \in Nat
      /\ InstanceInv(i)
  BY DEF LInv, ListenerTypeOK, StreamTypeOK
<1>2. /\ LastOfRead(i) \in Nat
      /\ cursor[i] < LastOfRead(i)
      /\ LastOfRead(i) <= Len(log)
      /\ NewEntries(i) # {}
      /\ NewEntries(i) \subseteq Entries
      /\ NewEntries(i) = (cursor[i] + 1)..LastOfRead(i)
  BY NewEntriesFact
<1>3. ListenerTypeOK' /\ \A j \in Listeners \ {i} : Same(j)
  BY <1>2 DEF LInv, ListenerTypeOK, Same
<1>4. /\ lpc'[i] = "handling" /\ group'[i] = group[i] /\ cursor'[i] = LastOfRead(i)
      /\ pel'[i] = pel[i] \cup NewEntries(i) /\ batch'[i] = NewEntries(i)
      /\ handled'[i] = handled[i] /\ log' = log /\ base' = base
  BY DEF LInv, ListenerTypeOK, streamVars
<1>5. Positions(i)'
  BY <1>1, <1>2, <1>4 DEF InstanceInv, Positions
<1>6. TaskState(i)'
  BY <1>2, <1>4 DEF TaskState
<1>7. InOrder(i)'
  BY <1>1, <1>2, <1>4 DEF InOrder, InstanceInv, Positions
<1>8. Covered(i)'
  BY <1>1, <1>2, <1>4 DEF Covered, InstanceInv, Positions
<1>9. QED
  BY <1>3, <1>5, <1>6, <1>7, <1>8, LocalStep DEF InstanceInv

LEMMA ReadReplyLostInv ==
  ASSUME LInv, NEW i \in Listeners, ReadReplyLost(i)
  PROVE  LInv'
<1> USE DEF ReadReplyLost
<1>1. /\ cursor[i] \in Nat /\ Len(log) \in Nat /\ base \in Nat
      /\ InstanceInv(i)
  BY DEF LInv, ListenerTypeOK, StreamTypeOK
<1>2. /\ LastOfRead(i) \in Nat
      /\ cursor[i] < LastOfRead(i)
      /\ LastOfRead(i) <= Len(log)
      /\ NewEntries(i) \subseteq Entries
      /\ NewEntries(i) = (cursor[i] + 1)..LastOfRead(i)
  BY NewEntriesFact
<1>3. ListenerTypeOK' /\ \A j \in Listeners \ {i} : Same(j)
  BY <1>2 DEF LInv, ListenerTypeOK, Same
<1>4. /\ lpc'[i] = lpc[i] /\ group'[i] = group[i] /\ cursor'[i] = LastOfRead(i)
      /\ pel'[i] = pel[i] \cup NewEntries(i) /\ batch'[i] = batch[i]
      /\ handled'[i] = handled[i] /\ log' = log /\ base' = base
      /\ lpc[i] = "reading" /\ group[i]
  BY DEF LInv, ListenerTypeOK, streamVars
<1>5. batch[i] = {}
  BY <1>1, <1>4 DEF InstanceInv, TaskState
<1>6. Positions(i)'
  BY <1>1, <1>2, <1>4 DEF InstanceInv, Positions
<1>7. TaskState(i)' /\ InOrder(i)'
  BY <1>4, <1>5 DEF TaskState, InOrder
<1>8. Covered(i)'
  BY <1>1, <1>2, <1>4, <1>5 DEF Covered, InstanceInv, Positions
<1>9. QED
  BY <1>3, <1>6, <1>7, <1>8, LocalStep DEF InstanceInv

LEMMA HandleInv ==
  ASSUME LInv, NEW i \in Listeners, Handle(i)
  PROVE  LInv'
<1> USE DEF Handle
<1>1. InstanceInv(i) /\ lpc[i] = "handling" /\ cursor[i] \in Nat
      /\ batch[i] \subseteq Entries /\ handled[i] \subseteq Entries
  BY DEF LInv, ListenerTypeOK
<1>2. PICK k \in batch[i] :
        IsNextEntry(i, k) /\ handled' = [handled EXCEPT ![i] = @ \cup {k}]
  OBVIOUS
<1>3. ListenerTypeOK' /\ \A j \in Listeners \ {i} : Same(j)
  BY <1>1, <1>2 DEF LInv, ListenerTypeOK, Same
<1>4. /\ lpc'[i] = "acking" /\ group'[i] = group[i] /\ cursor'[i] = cursor[i]
      /\ pel'[i] = pel[i] /\ batch'[i] = batch[i]
      /\ handled'[i] = handled[i] \cup {k} /\ log' = log /\ base' = base
  BY <1>2 DEF LInv, ListenerTypeOK, streamVars
<1>5. k \in Nat /\ \A l \in batch[i] : l \in Nat /\ k <= l
  BY <1>1, <1>2 DEF IsNextEntry, Entries
<1>6. Positions(i)'
  BY <1>1, <1>2, <1>4 DEF InstanceInv, Positions
<1>7. TaskState(i)'
  BY <1>1, <1>2, <1>4, <1>5 DEF TaskState, InstanceInv, IsNextEntry
<1>8. InOrder(i)'
  BY <1>1, <1>2, <1>4, <1>5 DEF InOrder, InstanceInv, IsNextEntry
<1>9. Covered(i)'
  BY <1>1, <1>4 DEF Covered, InstanceInv
<1>10. QED
  BY <1>3, <1>6, <1>7, <1>8, <1>9, LocalStep DEF InstanceInv

\* Dropping the next entry k from the batch, whether acknowledged or not.
LEMMA DoneInv ==
  ASSUME LInv, NEW i \in Listeners, NEW k \in batch[i], IsNextEntry(i, k),
         Done(i, k), UNCHANGED <<group, cursor, handled, streamVars>>,
         \/ UNCHANGED pel
         \/ k \in handled[i] /\ pel' = [pel EXCEPT ![i] = @ \ {k}]
  PROVE  LInv'
<1>1. /\ InstanceInv(i) /\ cursor[i] \in Nat /\ batch[i] # {}
      /\ batch[i] \subseteq Entries /\ handled[i] \subseteq Entries
  BY DEF LInv, ListenerTypeOK
<1>2. ListenerTypeOK' /\ \A j \in Listeners \ {i} : Same(j)
  BY <1>1 DEF LInv, ListenerTypeOK, Same, Done
<1>3. /\ lpc'[i] = (IF batch[i] = {k} THEN "reading" ELSE "handling")
      /\ batch'[i] = batch[i] \ {k}
      /\ group'[i] = group[i] /\ cursor'[i] = cursor[i]
      /\ handled'[i] = handled[i] /\ log' = log /\ base' = base
      /\ pel'[i] = pel[i] \/ (k \in handled[i] /\ pel'[i] = pel[i] \ {k})
  BY DEF Done, LInv, ListenerTypeOK, streamVars
<1>4. k \in Nat /\ \A l \in batch[i] \ {k} : l \in Nat /\ k < l
  BY <1>1 DEF IsNextEntry, Entries
<1>5. Positions(i)'
  BY <1>1, <1>3 DEF InstanceInv, Positions
<1>6. TaskState(i)'
  BY <1>3 DEF TaskState
<1>7. InOrder(i)'
  <2>1. ASSUME NEW l \in batch[i] \ {k}, NEW h \in handled[i] PROVE h < l
    <3>1. h < l \/ (IsNextEntry(i, l) /\ h = l)
      BY <1>1, <2>1 DEF InstanceInv, InOrder
    <3>2. ~ IsNextEntry(i, l)
      BY <1>4 DEF IsNextEntry
    <3>3. QED
      BY <3>1, <3>2
  <2>2. QED
    BY <2>1, <1>3 DEF InOrder
<1>8. Covered(i)'
  BY <1>1, <1>3 DEF Covered, InstanceInv
<1>9. QED
  BY <1>2, <1>5, <1>6, <1>7, <1>8, LocalStep DEF InstanceInv

LEMMA AckInv ==
  ASSUME LInv, NEW i \in Listeners, Ack(i)
  PROVE  LInv'
<1>1. PICK k \in batch[i] :
        IsNextEntry(i, k) /\ pel' = [pel EXCEPT ![i] = @ \ {k}] /\ Done(i, k)
  BY DEF Ack
<1>2. k \in handled[i]
  BY <1>1 DEF Ack, LInv, InstanceInv, TaskState
<1>3. QED
  BY <1>1, <1>2, DoneInv DEF Ack

LEMMA NotAckedInv ==
  ASSUME LInv, NEW i \in Listeners, HandleFails(i) \/ AckFails(i)
  PROVE  LInv'
<1>1. PICK k \in batch[i] : IsNextEntry(i, k) /\ Done(i, k)
  BY DEF HandleFails, AckFails
<1>2. UNCHANGED <<group, cursor, pel, handled, streamVars>>
  BY DEF HandleFails, AckFails
<1>3. QED
  BY <1>1, <1>2, DoneInv

LEMMA LoseRedisInv == LInv /\ LoseRedis => LInv'
<1> SUFFICES ASSUME LInv, LoseRedis PROVE LInv'
  OBVIOUS
<1> USE DEF LoseRedis, LoseStream
<1>1. StreamTypeOK' /\ ListenerTypeOK'
  BY DEF LInv, StreamTypeOK, ListenerTypeOK
<1>2. ASSUME NEW i \in Listeners PROVE InstanceInv(i)'
  <2>1. /\ InstanceInv(i) /\ cursor[i] \in Nat
        /\ lpc' = lpc /\ cursor' = cursor /\ batch' = batch /\ handled' = handled
        /\ log' = log /\ group'[i] = FALSE /\ pel'[i] = {}
    BY DEF LInv, ListenerTypeOK
  <2>2. QED
    BY <2>1 DEF InstanceInv, Positions, TaskState, InOrder, Covered, IsNextEntry
<1>3. QED
  BY <1>1, <1>2 DEF LInv

LEMMA ProduceInv ==
  ASSUME LInv, NEW e \in Events, XAdd(e), UNCHANGED listenerVars
  PROVE  LInv'
<1>1. /\ StreamTypeOK'
      /\ Len(log) \in Nat
      /\ Len(log') = Len(log) + 1
      /\ UNCHANGED base
  BY DEF XAdd, LInv, StreamTypeOK
<1>2. ListenerTypeOK' /\ \A i \in Listeners : Same(i)
  BY DEF listenerVars, LInv, ListenerTypeOK, Same
<1>3. \A i \in Listeners : InstanceInv(i)'
  BY <1>1, <1>2, SameInv
<1>4. QED
  BY <1>1, <1>2, <1>3 DEF LInv

LEMMA ListenerNextInv == LInv /\ [ListenerSpecNext]_lvars => LInv'
<1> SUFFICES ASSUME LInv, [ListenerSpecNext]_lvars PROVE LInv'
  OBVIOUS
<1>1. ASSUME NEW i \in Listeners, ListenerRound(i) PROVE LInv'
  BY <1>1, ReadInv, ReadReplyLostInv, HandleInv, AckInv, NotAckedInv DEF ListenerRound
<1>2. CASE UNCHANGED lvars
  BY <1>2 DEF lvars, listenerVars, streamVars, LInv, StreamTypeOK, ListenerTypeOK,
       InstanceInv, Positions, TaskState, InOrder, Covered, IsNextEntry
<1>3. QED
  BY <1>1, <1>2, StartListenerInv, StopListenerInv, LoseRedisInv, ProduceInv
  DEF ListenerSpecNext

THEOREM ListenerInvariant == ListenerSpec => []LInv
BY ListenerInitInv, ListenerNextInv, PTL DEF ListenerSpec

-----------------------------------------------------------------------------
(* What follows.                                                           *)

\* Acknowledging only after handling leaves no gap: what the group has moved
\* past has been handed to the local sockets or is still pending.
THEOREM ListenerSkipsNothing == ListenerSpec => []NothingSkipped
<1>1. LInv => NothingSkipped
  BY DEF LInv, InstanceInv, Covered, NothingSkipped
<1>2. QED
  BY <1>1, ListenerInvariant, PTL

\* One process hands the entries of the stream to its sockets in stream order
\* and never hands the same entry over twice.
THEOREM ListenerHandlesInOrderOnce == ListenerSpec => []HandledInOrderOnce
<1>1. LInv => HandledInOrderOnce
  BY DEF LInv, InstanceInv, InOrder, HandledInOrderOnce
<1>2. QED
  BY <1>1, ListenerInvariant, PTL

\* An entry a task holds in memory is pending in its group.
THEOREM ListenerInFlightIsPending == ListenerSpec => []InFlightIsPending
<1>1. LInv => InFlightIsPending
  BY DEF LInv, InstanceInv, Covered, InFlightIsPending
<1>2. QED
  BY <1>1, ListenerInvariant, PTL

-----------------------------------------------------------------------------
(* The composition.  A step of one half leaves the other's variables       *)
(* alone, and to the listeners a worker's step is either nothing or one    *)
(* appended entry.                                                         *)

PipelineInv == IInv /\ LInv

LEMMA PipelineInitInv == PipelineInit => PipelineInv
BY InitIInv, ListenerInitInv DEF PipelineInit, Init, ListenerSpecInit, PipelineInv

\* What a transaction or a worker's round does to the stream.
LEMMA ProducerStep ==
  ASSUME IInv,
         \/ \E e \in Events : Transaction(e)
         \/ \E i \in Instances : WorkerRound(i)
  PROVE  UNCHANGED streamVars \/ \E e \in Events : XAdd(e)
<1>1. CASE \E e \in Events : Transaction(e)
  BY <1>1 DEF Transaction, InsertEvent, EndTransaction
<1>2. ASSUME NEW i \in Instances, WorkerRound(i)
      PROVE  UNCHANGED streamVars \/ \E e \in Events : XAdd(e)
  <2>1. wire[i] \subseteq Events /\ stray[i] \subseteq Events
    BY DEF IInv, TypeOK, OutboxTypeOK
  <2>2. CASE Send(i) \/ SendStray(i)
    BY <2>1, <2>2 DEF Send, SendStray
  <2>3. CASE \/ Claim(i) \/ SendRefused(i) \/ Resend(i) \/ Settle(i)
             \/ Abort(i) \/ RaiseRefused(i) \/ DropStray(i)
    BY <2>3 DEF Claim, SendRefused, Resend, Settle, Abort, RaiseRefused, DropStray
  <2>4. QED
    BY <1>2, <2>2, <2>3 DEF WorkerRound
<1>3. QED
  BY <1>1, <1>2

LEMMA PipelineNextInv == PipelineInv /\ [PipelineNext]_pipelineVars => PipelineInv'
<1> SUFFICES ASSUME IInv, LInv, [PipelineNext]_pipelineVars PROVE IInv' /\ LInv'
  BY DEF PipelineInv
<1>1. CASE /\ \/ \E e \in Events : Transaction(e)
              \/ \E i \in Instances : WorkerRound(i)
           /\ UNCHANGED listenerVars
  <2>1. IInv'
    BY <1>1, NextIInv DEF Next
  <2>2. LInv'
    <3>1. CASE UNCHANGED streamVars
      BY <1>1, <3>1, ListenerNextInv DEF lvars
    <3>2. CASE \E e \in Events : XAdd(e)
      BY <1>1, <3>2, ProduceInv
    <3>3. QED
      BY <1>1, <3>1, <3>2, ProducerStep
  <2>3. QED
    BY <2>1, <2>2
<1>2. ASSUME NEW i \in Instances, StartInstance(i) \/ StopInstance(i)
      PROVE  IInv' /\ LInv'
  <2>1. IInv'
    BY <1>2, StartWorkerIInv, StopWorkerIInv DEF StartInstance, StopInstance
  <2>2. LInv'
    BY <1>2, SameInstances, StartListenerInv, StopListenerInv DEF StartInstance, StopInstance
  <2>3. QED
    BY <2>1, <2>2
<1>3. ASSUME NEW i \in Instances, ListenerRound(i), UNCHANGED outboxVars
      PROVE  IInv' /\ LInv'
  <2>1. UNCHANGED streamVars
    BY <1>3 DEF ListenerRound, Read, ReadReplyLost, Handle, HandleFails, Ack, AckFails
  <2>2. IInv'
    BY <1>3, <2>1, NextIInv DEF vars
  <2>3. LInv'
    BY <1>3, SameInstances, ListenerNextInv DEF ListenerSpecNext
  <2>4. QED
    BY <2>2, <2>3
<1>4. CASE LoseRedis /\ UNCHANGED outboxVars
  <2>1. UNCHANGED log /\ StreamTypeOK'
    BY <1>4, LoseRedisInv DEF LoseRedis, LoseStream, LInv
  <2>2. IInv'
    BY <1>4, <2>1 DEF outboxVars, IInv, TypeOK, OutboxTypeOK, LocksHeld, SentIsPublished,
         StrayCommitted, Published, Committed, Pending, Processed
  <2>3. QED
    BY <1>4, <2>2, LoseRedisInv
<1>5. CASE UNCHANGED pipelineVars
  BY <1>5, NextIInv, ListenerNextInv DEF pipelineVars, vars, lvars
<1>6. QED
  BY <1>1, <1>2, <1>3, <1>4, <1>5 DEF PipelineNext

THEOREM PipelineInvariant == PipelineSpec => []PipelineInv
BY PipelineInitInv, PipelineNextInv, PTL DEF PipelineSpec

-----------------------------------------------------------------------------

\* The state of workers, listeners and stream is well typed throughout.
THEOREM PipelineTypeCorrect == PipelineSpec => []PipelineTypeOK
<1>1. PipelineInv => PipelineTypeOK
  BY DEF PipelineInv, PipelineTypeOK, IInv, LInv, TypeOK
<1>2. QED
  BY <1>1, PipelineInvariant, PTL

\* End to end, as long as Redis keeps its data: once a row is processed, every
\* instance with a group has the event ahead of it, pending or handed over.
THEOREM ProcessedReachesEveryInstance == PipelineSpec => []ReachesEveryInstance
<1>1. ASSUME PipelineInv PROVE ReachesEveryInstance
  <2> SUFFICES ASSUME NEW i \in Instances, NEW e \in Processed, group[i], base = 0
               PROVE  \E k \in DOMAIN log :
                        log[k] = e /\ (k > cursor[i] \/ k \in pel[i] \/ k \in handled[i])
    BY DEF ReachesEveryInstance
  <2>1. PICK k \in DOMAIN log : log[k] = e
    BY <1>1 DEF PipelineInv, IInv, Published
  <2>2. k \in 1..Len(log) /\ Len(log) \in Nat /\ cursor[i] \in Nat
    BY <1>1, SameInstances DEF PipelineInv, LInv, StreamTypeOK, ListenerTypeOK
  <2>3. CASE k <= cursor[i]
    <3>1. k \in (base + 1)..cursor[i]
      BY <2>2, <2>3
    <3>2. k \in handled[i] \cup pel[i]
      BY <1>1, <3>1, SameInstances DEF PipelineInv, LInv, InstanceInv, Covered
    <3>3. QED
      BY <2>1, <3>2
  <2>4. QED
    BY <2>1, <2>2, <2>3
<1>2. QED
  BY <1>1, PipelineInvariant, PTL

\* No client of any instance is ever sent an event whose transaction has not
\* committed.
THEOREM ClientsSeeCommittedOnly == PipelineSpec => []OnlyCommittedHandled
<1>1. ASSUME PipelineInv PROVE OnlyCommittedHandled
  <2> SUFFICES ASSUME NEW i \in Instances, NEW k \in handled[i]
               PROVE  log[k] \in Committed
    BY DEF OnlyCommittedHandled
  <2>1. k \in 1..cursor[i] /\ cursor[i] <= Len(log) /\ cursor[i] \in Nat /\ Len(log) \in Nat
    BY <1>1, SameInstances
    DEF PipelineInv, LInv, InstanceInv, Positions, StreamTypeOK, ListenerTypeOK
  <2>2. k \in DOMAIN log
    BY <1>1, <2>1 DEF PipelineInv, LInv, StreamTypeOK
  <2>3. log[k] \in Published
    BY <2>2 DEF Published
  <2>4. QED
    BY <1>1, <2>3 DEF PipelineInv, IInv
<1>2. QED
  BY <1>1, PipelineInvariant, PTL

-----------------------------------------------------------------------------
(* The worker's theorems hold of the composition: to the rows, the workers *)
(* and the entries of the stream its steps are OutboxWorker's, or nothing. *)

LEMMA PipelineOutboxStep ==
  ASSUME PipelineInv, [PipelineNext]_pipelineVars
  PROVE  [Next]_vars \/ UNCHANGED <<outboxVars, log>>
<1>1. ASSUME NEW i \in Instances, ListenerRound(i) PROVE UNCHANGED streamVars
  BY <1>1 DEF ListenerRound, Read, ReadReplyLost, Handle, HandleFails, Ack, AckFails
<1>2. CASE LoseRedis /\ UNCHANGED outboxVars
  BY <1>2 DEF LoseRedis, LoseStream
<1>3. QED
  BY <1>1, <1>2 DEF PipelineNext, pipelineVars, StartInstance, StopInstance, Next, vars, streamVars

\* Copies are paid for by failures in the composition too: a restart of Redis
\* takes entries away from the listeners, and sends nothing again.
THEOREM PipelineCopiesArePaidFor == PipelineSpec => []DuplicatesOnlyFromFaults
<1> DEFINE I == PipelineInv /\ AllAccounted
<1>1. PipelineInit => I
  BY PipelineInitInv, InitAccounts DEF PipelineInit, AllAccounted
<1>2. ASSUME I, [PipelineNext]_pipelineVars PROVE I'
  <2>1. PipelineInv'
    BY <1>2, PipelineNextInv
  <2>2. CASE UNCHANGED <<outboxVars, log>>
    <3>1. ASSUME NEW e \in Events
          PROVE  /\ StrayOf(e)' = StrayOf(e) /\ WireOf(e)' = WireOf(e)
                 /\ Token(e)' = Token(e) /\ CopiesOf(e)' = CopiesOf(e) /\ faults'[e] = faults[e]
      BY <2>2 DEF outboxVars, StrayOf, WireOf, Token, Paid, Processed, CopiesOf
    <3>2. AllAccounted'
      BY <1>2, <3>1 DEF AllAccounted, Accounted
    <3>3. QED
      BY <2>1, <3>2
  <2>3. QED
    BY <1>2, <2>1, <2>2, PipelineOutboxStep, NextAccounts DEF PipelineInv, AllAccounted
<1>3. I => DuplicatesOnlyFromFaults
  BY AccountedFor DEF PipelineInv
<1>4. QED
  BY <1>1, <1>2, <1>3, PTL DEF PipelineSpec

\* The composition keeps the outbox's abstract promise: a listener's step, and a
\* restart of Redis, change nothing that AtLeastOnce can see.
THEOREM PipelineKeepsPromise == PipelineSpec => KeepsPromise
<1> DEFINE seen == <<Committed, Published, Processed>>
<1>1. PipelineInit => Promise!Init
  BY PromiseInit DEF PipelineInit
<1>2. ASSUME PipelineInv, [PipelineNext]_pipelineVars PROVE [Promise!Next]_seen
  <2>1. CASE UNCHANGED <<outboxVars, log>>
    BY <2>1 DEF outboxVars, Committed, Published, Processed
  <2>2. QED
    BY <1>2, <2>1, PipelineOutboxStep, PromiseNext DEF PipelineInv
<1>3. QED
  BY <1>1, <1>2, PipelineInvariant, PTL DEF PipelineSpec, KeepsPromise, Promise!Spec, Promise!promiseVars

\* With one worker, and no command executed late, what the stream says last of a
\* message is its newest processed event, whenever listeners and Redis restart.
THEOREM PipelineLastInOrder ==
  ASSUME NEW w, Instances = {w}, ~MayLinger
  PROVE  PipelineSpec => []NewestPublishedLast
<1> DEFINE I == PipelineInv /\ NewestInv(w)
<1>1. PipelineInit => I
  BY PipelineInitInv, InitNewest DEF PipelineInit
<1>2. ASSUME I, [PipelineNext]_pipelineVars PROVE I'
  <2>1. PipelineInv'
    BY <1>2, PipelineNextInv
  <2>2. CASE UNCHANGED <<outboxVars, log>>
    BY <1>2, <2>1, <2>2 DEF outboxVars, NewestInv, OrderInv, PipelineInv, Stamped, Present, HeldInRound,
         OldestHeld, Pending, SentInOrder, SettledInOrder, Earlier, Committed, Processed, LastBefore
  <2>3. QED
    BY <1>2, <2>1, <2>2, PipelineOutboxStep, NextNewest
<1>3. I => NewestPublishedLast
  BY DEF NewestInv, SettledInOrder, LastBefore, NewestPublishedLast, Processed
<1>4. QED
  BY <1>1, <1>2, <1>3, PTL DEF PipelineSpec

\* With one worker, and no command refused, the events of a message begin in the
\* order of their transactions, whenever listeners and Redis restart.
THEOREM PipelineFirstInOrder ==
  ASSUME NEW w, Instances = {w}, ~MayRefuse
  PROVE  PipelineSpec => []FirstPublishedInOrder
<1> DEFINE I == PipelineInv /\ FirstInv(w)
<1>1. PipelineInit => I
  BY PipelineInitInv, InitFirst DEF PipelineInit
<1>2. ASSUME I, [PipelineNext]_pipelineVars PROVE I'
  <2>1. PipelineInv'
    BY <1>2, PipelineNextInv
  <2>2. CASE UNCHANGED <<outboxVars, log>>
    BY <1>2, <2>1, <2>2 DEF outboxVars, FirstInv, OrderInv, PipelineInv, Stamped, Present, HeldInRound,
         OldestHeld, Pending, InFront, FirstPublishedInOrder, Earlier, Committed, Published
  <2>3. QED
    BY <1>2, <2>1, <2>2, PipelineOutboxStep, NextFirst
<1>3. I => FirstPublishedInOrder
  BY DEF FirstInv
<1>4. QED
  BY <1>1, <1>2, <1>3, PTL DEF PipelineSpec
==============================================================================

---------------------------- MODULE OutboxWorker -----------------------------
(***************************************************************************)
(* The transactional outbox: message transactions that insert an event row *)
(* together with their own change (add_outbox_event), and one outbox_worker*)
(* task per application instance that repeatedly runs process_outbox:      *)
(*                                                                         *)
(*   SELECT ... WHERE processed_at IS NULL ORDER BY created_at LIMIT 100   *)
(*          FOR UPDATE SKIP LOCKED                          -> Claim       *)
(*   pipeline(transaction=False); XADD per event; execute() -> Send        *)
(*   processed_at = now; commit                             -> Settle      *)
(*   any exception or cancellation: session closed, rolled back -> Abort   *)
(*                                                                         *)
(* The pipeline is not atomic: Redis executes its commands one at a time,  *)
(* interleaved with the pipelines of other workers.  It may refuse one     *)
(* command and execute the next, the connection may break at any point,    *)
(* the client library may then resend the whole pipeline, and commands     *)
(* already written to a broken connection may still be executed later.     *)
(***************************************************************************)
EXTENDS EventStream

CONSTANTS
  Instances,    \* application instances, each with one worker task
  Messages,     \* chat messages
  MsgOf,        \* the message an event is about
  BatchLimit,   \* LIMIT of the claim (100 in the code)
  MaxFaults,    \* bound: failures an event's pipeline may meet
  MayRefuse,    \* may Redis refuse a single command of a pipeline?
  MayLinger     \* may commands of a broken connection be executed late?

ASSUME InstancesFinite == IsFiniteSet(Instances)
ASSUME EventsFinite == IsFiniteSet(Events)
ASSUME MsgOfAssumption == MsgOf \in [Events -> Messages]
ASSUME BatchLimitAssumption == BatchLimit \in Nat \ {0}
ASSUME MaxFaultsAssumption == MaxFaults \in Nat
ASSUME SwitchesAssumption == MayRefuse \in BOOLEAN /\ MayLinger \in BOOLEAN

VARIABLES
  row,       \* Events -> the state of its outbox row
  created,   \* Events -> created_at, as a rank (0: not inserted yet)
  attempts,  \* Events -> the committed `attempts` column
  wpc,       \* Instances -> where the worker task is
  locked,    \* Instances -> rows its open transaction holds FOR UPDATE
  wire,      \* Instances -> events whose XADD of the current pipeline is due
  stray,     \* Instances -> events whose XADD is left on a broken connection
  faults     \* Events -> failures met so far by pipelines that carried it

outboxVars == <<row, created, attempts, wpc, locked, wire, stray, faults>>
vars == <<outboxVars, streamVars>>

RowStates == {"absent", "open", "pending", "processed", "rolledback"}

OutboxTypeOK ==
  /\ row \in [Events -> RowStates]
  /\ created \in [Events -> Nat]
  /\ attempts \in [Events -> Nat]
  /\ wpc \in [Instances -> {"down", "idle", "sending", "refused"}]
  /\ locked \in [Instances -> SUBSET Events]
  /\ wire \in [Instances -> SUBSET Events]
  /\ stray \in [Instances -> SUBSET Events]
  /\ faults \in [Events -> Nat]

\* Every variable holds a value of its type.
TypeOK == StreamTypeOK /\ OutboxTypeOK

OutboxInit ==
  /\ row = [e \in Events |-> "absent"]
  /\ created = [e \in Events |-> 0]
  /\ attempts = [e \in Events |-> 0]
  /\ wpc = [i \in Instances |-> "down"]
  /\ locked = [i \in Instances |-> {}]
  /\ wire = [i \in Instances |-> {}]
  /\ stray = [i \in Instances |-> {}]
  /\ faults = [e \in Events |-> 0]

Init == StreamInit /\ OutboxInit

Committed == {e \in Events : row[e] \in {"pending", "processed"}}
Pending == {e \in Events : row[e] = "pending"}
Processed == {e \in Events : row[e] = "processed"}

-----------------------------------------------------------------------------
(* Message transactions.  The change to the message is flushed first, so   *)
(* the transaction holds the message's row lock when the outbox row is     *)
(* inserted and stamped (edit_message, message_deleted_for_everyone), until*)
(* it ends; two open rows are never about the same message.                *)

\* add_outbox_event, flushed by commit(): the row exists in the open
\* transaction only, stamped with created_at and attempts = 0.
InsertEvent(e) ==
  /\ row[e] = "absent"
  /\ \A f \in Events \ {e} : MsgOf[f] = MsgOf[e] => row[f] # "open"
  /\ row' = [row EXCEPT ![e] = "open"]
  /\ created' = [created EXCEPT ![e] =
                   1 + Cardinality({f \in Events : row[f] # "absent"})]
  /\ UNCHANGED <<attempts, wpc, locked, wire, stray, faults, streamVars>>

\* MUTANT of EndTransaction: a failed transaction leaves its row behind.
EndTransactionKept(e) ==
  /\ row[e] = "open"
  /\ \E end \in {"pending", "failed"} : row' = [row EXCEPT ![e] = end]
  /\ UNCHANGED <<created, attempts, wpc, locked, wire, stray, faults, streamVars>>

\* The transaction commits, or fails and leaves neither change nor event.
EndTransaction(e) ==
  /\ row[e] = "open"
  /\ \E end \in {"pending", "rolledback"} : row' = [row EXCEPT ![e] = end]
  /\ UNCHANGED <<created, attempts, wpc, locked, wire, stray, faults, streamVars>>

-----------------------------------------------------------------------------
(* The worker.                                                             *)

StartWorker(i) ==
  /\ wpc[i] = "down"
  /\ wpc' = [wpc EXCEPT ![i] = "idle"]
  /\ UNCHANGED <<row, created, attempts, locked, wire, stray, faults>>

\* MUTANT of Claimable: a plain SELECT, without FOR UPDATE SKIP LOCKED.
ClaimableUnlocked == Pending

\* MUTANT of Claimable: the SELECT sees rows of open transactions.
ClaimableDirty ==
  {e \in Events : row[e] \in {"open", "pending"}}
    \ UNION {locked[i] : i \in Instances}

\* Committed, unprocessed and not locked by another worker's transaction.
Claimable == Pending \ UNION {locked[i] : i \in Instances}

\* MUTANT of OldestOf: the claim has no ORDER BY created_at.
AnyOf(B, S) == TRUE

\* B holds the oldest members of S.
OldestOf(B, S) == \A e \in B, f \in S \ B : created[e] <= created[f]

\* The SELECT: the worker locks the oldest claimable rows, at most BatchLimit.
\* (It finds none: process_outbox returns 0 and the worker sleeps, no step.)
Claim(i) ==
  /\ wpc[i] = "idle"
  /\ \E B \in SUBSET Claimable :
       /\ B # {}
       /\ OldestOf(B, Claimable)
       /\ Cardinality(B) <= BatchLimit
       /\ B = Claimable \/ Cardinality(B) = BatchLimit
       /\ locked' = [locked EXCEPT ![i] = B]
       /\ wire' = [wire EXCEPT ![i] = B]
  /\ wpc' = [wpc EXCEPT ![i] = "sending"]
  /\ UNCHANGED <<row, created, attempts, stray, faults, streamVars>>

\* The command of pipeline p that Redis executes next: commands go out in the
\* order of the batch, which is created_at order.
NextOf(p, e) == e \in p /\ \A f \in p : created[e] <= created[f]

\* Redis executes the next command of the worker's pipeline.
Send(i) ==
  /\ wpc[i] \in {"sending", "refused"}
  /\ \E e \in wire[i] :
       /\ NextOf(wire[i], e)
       /\ XAdd(e)
       /\ wire' = [wire EXCEPT ![i] = @ \ {e}]
  /\ UNCHANGED <<row, created, attempts, wpc, locked, stray, faults>>

CanFail(S) == \A e \in S : faults[e] < MaxFaults
FaultsAfter(S) == [e \in Events |-> IF e \in S THEN faults[e] + 1 ELSE faults[e]]

\* MUTANT of SendRefused: execute() called with raise_on_error=False.
SendRefusedSilently(i) ==
  /\ MayRefuse
  /\ wpc[i] \in {"sending", "refused"}
  /\ \E e \in wire[i] :
       /\ NextOf(wire[i], e)
       /\ wire' = [wire EXCEPT ![i] = @ \ {e}]
  /\ UNCHANGED <<row, created, attempts, wpc, locked, stray, faults, streamVars>>

\* Redis answers the next command with an error (out of memory, LOADING...).
\* The commands behind it still run; execute() raises when all are answered.
SendRefused(i) ==
  /\ MayRefuse
  /\ wpc[i] \in {"sending", "refused"}
  /\ wpc[i] = "sending" => CanFail(locked[i])
  /\ \E e \in wire[i] :
       /\ NextOf(wire[i], e)
       /\ wire' = [wire EXCEPT ![i] = @ \ {e}]
  /\ wpc' = [wpc EXCEPT ![i] = "refused"]
  /\ faults' = IF wpc[i] = "sending" THEN FaultsAfter(locked[i]) ELSE faults
  /\ UNCHANGED <<row, created, attempts, locked, stray, streamVars>>

\* Commands left behind by a broken connection: all of those not executed yet,
\* or none when Redis never received them.
Leftover(i) == IF MayLinger THEN {{}, wire[i]} ELSE {{}}

\* The client library reconnects and writes the whole pipeline again.
Resend(i) ==
  /\ wpc[i] = "sending"
  /\ CanFail(locked[i])
  /\ \E s \in Leftover(i) : stray' = [stray EXCEPT ![i] = s]
  /\ wire' = [wire EXCEPT ![i] = locked[i]]
  /\ faults' = FaultsAfter(locked[i])
  /\ UNCHANGED <<row, created, attempts, wpc, locked, streamVars>>

\* MUTANT of Settle: processed_at is set without waiting for execute().
SettleEarly(i) ==
  /\ wpc[i] = "sending"
  /\ row' = [e \in Events |-> IF e \in locked[i] THEN "processed" ELSE row[e]]
  /\ attempts' = [e \in Events |-> attempts[e] + IF e \in locked[i] THEN 1 ELSE 0]
  /\ locked' = [locked EXCEPT ![i] = {}]
  /\ wire' = [wire EXCEPT ![i] = {}]
  /\ wpc' = [wpc EXCEPT ![i] = "idle"]
  /\ UNCHANGED <<created, stray, faults, streamVars>>

\* execute() returned: processed_at and the increment of `attempts` made while
\* the pipeline was built are committed, and the row locks released.
Settle(i) ==
  /\ wpc[i] = "sending"
  /\ wire[i] = {}
  /\ row' = [e \in Events |-> IF e \in locked[i] THEN "processed" ELSE row[e]]
  /\ attempts' = [e \in Events |-> attempts[e] + IF e \in locked[i] THEN 1 ELSE 0]
  /\ locked' = [locked EXCEPT ![i] = {}]
  /\ wpc' = [wpc EXCEPT ![i] = "idle"]
  /\ UNCHANGED <<created, wire, stray, faults, streamVars>>

\* MUTANT of EndRound: the session is left open, and keeps its row locks.
EndRoundLeaked(i, next) ==
  /\ \E s \in Leftover(i) : stray' = [stray EXCEPT ![i] = s]
  /\ wire' = [wire EXCEPT ![i] = {}]
  /\ wpc' = [wpc EXCEPT ![i] = next]
  /\ UNCHANGED <<row, created, attempts, locked>>

\* What every failed or cancelled round does: the session closes, PostgreSQL
\* rolls back (the increment of `attempts` with it) and releases the locks.
EndRound(i, next) ==
  /\ \E s \in Leftover(i) : stray' = [stray EXCEPT ![i] = s]
  /\ locked' = [locked EXCEPT ![i] = {}]
  /\ wire' = [wire EXCEPT ![i] = {}]
  /\ wpc' = [wpc EXCEPT ![i] = next]
  /\ UNCHANGED <<row, created, attempts>>

\* The pipeline, its reply or the commit fails; the worker loop catches it.
Abort(i) ==
  /\ wpc[i] = "sending"
  /\ CanFail(locked[i])
  /\ EndRound(i, "idle")
  /\ faults' = FaultsAfter(locked[i])
  /\ UNCHANGED streamVars

\* execute() raises because a command was refused; the worker loop catches it.
RaiseRefused(i) ==
  /\ wpc[i] = "refused"
  /\ wire[i] = {}
  /\ EndRound(i, "idle")
  /\ UNCHANGED <<faults, streamVars>>

\* The process stops or crashes (lifespan cancels the task on shutdown).
StopWorker(i) ==
  /\ wpc[i] # "down"
  /\ wpc[i] = "sending" => CanFail(locked[i])
  /\ EndRound(i, "down")
  /\ faults' = IF wpc[i] = "sending" THEN FaultsAfter(locked[i]) ELSE faults

\* Redis gets to a command of a connection that has been given up.
SendStray(i) ==
  /\ \E e \in stray[i] :
       /\ NextOf(stray[i], e)
       /\ XAdd(e)
       /\ stray' = [stray EXCEPT ![i] = @ \ {e}]
  /\ UNCHANGED <<row, created, attempts, wpc, locked, wire, faults>>

DropStray(i) ==
  /\ stray[i] # {}
  /\ stray' = [stray EXCEPT ![i] = {}]
  /\ UNCHANGED <<row, created, attempts, wpc, locked, wire, faults, streamVars>>

-----------------------------------------------------------------------------

Transaction(e) == InsertEvent(e) \/ EndTransaction(e)

WorkerRound(i) ==
  \/ Claim(i) \/ Send(i) \/ SendRefused(i) \/ Resend(i)
  \/ Settle(i) \/ Abort(i) \/ RaiseRefused(i)
  \/ SendStray(i) \/ DropStray(i)

Next ==
  \/ \E e \in Events : Transaction(e)
  \/ \E i \in Instances :
       \/ StartWorker(i) /\ UNCHANGED streamVars
       \/ StopWorker(i) /\ UNCHANGED streamVars
       \/ WorkerRound(i)

Spec == Init /\ [][Next]_vars

\* The event loop keeps running the worker task, Redis answers and PostgreSQL
\* commits; failures are never fair.
WorkerFairness(i) ==
  /\ WF_vars(Claim(i))
  /\ WF_vars(Send(i))
  /\ WF_vars(Settle(i))
  /\ WF_vars(RaiseRefused(i))

FairSpec == Spec /\ \A i \in Instances : WorkerFairness(i)

-----------------------------------------------------------------------------
(* What the outbox promises.                                               *)

\* A row is marked processed only after its event has reached the stream: a
\* failure of any one command, of the reply or of the commit, or a crash at
\* any point of process_outbox, leaves the row to be published again.
NoEventLost == Processed \subseteq Published

\* No instance ever sees the event of a transaction that is still open or was
\* rolled back: neither in the stream nor in a pipeline, nor left over from one.
OnlyCommittedPublished ==
  Published \cup UNION {locked[i] \cup wire[i] \cup stray[i] : i \in Instances}
    \subseteq Committed

\* Every copy of an event beyond the first is paid for by a failure that hit a
\* pipeline carrying it: concurrent workers never publish the same row twice,
\* because the row locks are held from the SELECT to the commit.
DuplicatesOnlyFromFaults == \A e \in Events : CopiesOf(e) <= 1 + faults[e]

\* e and f are events of one message, e the earlier.
Earlier(e, f) ==
  /\ MsgOf[e] = MsgOf[f]
  /\ created[e] < created[f]
  /\ {e, f} \subseteq Committed

\* With one worker, and no command refused in the middle of a pipeline, the
\* events of a message first appear in the order of their
\* transactions, through failures and retries (an edit never overtakes the
\* creation, nor a deletion the edit).
FirstPublishedInOrder ==
  \A e, f \in Events : \A k \in DOMAIN log :
    log[k] = f /\ Earlier(e, f) => \E j \in 1..(k - 1) : log[j] = e

\* With one worker, and no command executed after its connection was given up,
\* of two events of a message that are processed the later one has the last
\* entry: a client that applies the entries as they come, repeated ones
\* included, ends with the newest event the worker is done with.
NewestPublishedLast ==
  \A e, f \in Processed : \A k \in DOMAIN log :
    log[k] = e /\ Earlier(e, f) => \E j \in (k + 1)..Len(log) : log[j] = f

Promise == INSTANCE AtLeastOnce
  WITH committed <- Committed, published <- Published, settled <- Processed

\* The rows, locks and pipelines implement the abstract promise: every step of
\* the code is one of its steps or changes nothing it can see.
KeepsPromise == Promise!Spec

\* A committed event is eventually processed if some instance stays up, however
\* its failures (finitely many) and the other instances' restarts fall.
CommittedIsProcessed ==
  \A e \in Events :
    (\E i \in Instances : <>[](wpc[i] # "down"))
      => (row[e] = "pending" ~> row[e] = "processed")
==============================================================================

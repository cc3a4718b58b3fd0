------------------------------ MODULE FieldChat ------------------------------
(***************************************************************************)
(* The application as a whole, for one conversation: the concurrent        *)
(* requests of MessageLifecycle and the workers and listeners of           *)
(* EventPipeline over the one table outbox_events.  A request inserts rows *)
(* and ends its transaction; a worker writes processed_at; neither writes  *)
(* what the other does.                                                    *)
(*                                                                         *)
(* EventPipeline knows of a row only that there may be one per event.  Here*)
(* an event is a place in the table and the message the row there may be   *)
(* about, and the state that EventPipeline gives it is computed from the   *)
(* two columns.                                                            *)
(***************************************************************************)
EXTENDS MessageLifecycle

CONSTANTS
  Instances,    \* application instances: a worker and a listener each
  BatchLimit, MaxFaults, MayRefuse, MayLinger,   \* as in OutboxWorker
  ReadCount, MayFail, MayLoseRedis               \* as in StreamListener

ASSUME InstancesFinite == IsFiniteSet(Instances)
ASSUME BoundsAssumption ==
  /\ MaxEvents \in Nat
  /\ MaxFaults \in Nat
  /\ BatchLimit \in Nat \ {0}
  /\ ReadCount \in Nat \ {0}
ASSUME SwitchesAssumption == {MayRefuse, MayLinger, MayFail, MayLoseRedis} \subseteq BOOLEAN

VARIABLES
  processed,   \* the events whose row has processed_at set
  attempts, wpc, locked, wire, stray, faults,    \* as in OutboxWorker
  log, base,                                     \* as in EventStream
  lpc, group, cursor, pel, batch, handled        \* as in StreamListener

Events == (1..MaxEvents) \X Messages

MessageOf == [e \in Events |-> e[2]]

\* The outbox row at place e[1] is there, and about the message e[2].
Stamped(e) == e[1] \in DOMAIN outbox /\ outbox[e[1]].msg = e[2]

\* The row of an event: its transaction's end, then processed_at.
StateOf(e) ==
  IF ~Stamped(e) THEN "absent"
  ELSE IF outbox[e[1]].state = "open" THEN "open"
  ELSE IF outbox[e[1]].state = "undone" THEN "rolledback"
  ELSE IF e \in processed THEN "processed" ELSE "pending"

RowOf == [e \in Events |-> StateOf(e)]

\* created_at as a rank: the table is kept in that order.
RankOf == [e \in Events |-> IF Stamped(e) THEN e[1] ELSE 0]

Delivery == INSTANCE EventPipeline
  WITH Listeners <- Instances, MsgOf <- MessageOf, row <- RowOf, created <- RankOf

workerVars == <<processed, attempts, wpc, locked, wire, stray, faults>>
listenerVars == <<lpc, group, cursor, pel, batch, handled>>
deliveryVars == <<workerVars, listenerVars, log, base>>
systemVars == <<vars, deliveryVars>>

SystemTypeOK ==
  /\ TypeOK
  /\ processed \subseteq Events
  /\ Delivery!PipelineTypeOK

SystemInit ==
  /\ Init
  /\ processed = {}
  /\ Delivery!PipelineInit

-----------------------------------------------------------------------------

\* lifespan starts and stops both tasks of an instance.
Restart(i) ==
  /\ UNCHANGED processed
  /\ Delivery!StartInstance(i) \/ Delivery!StopInstance(i)

\* Settle sets processed_at of the rows the worker has locked, and no other step
\* of a round writes to the table: which one it is shows in the state of the rows.
WorkerStep(i) ==
  /\ processed' \in {processed, processed \cup locked[i]}
  /\ Delivery!WorkerRound(i)
  /\ UNCHANGED listenerVars

ListenerStep(i) == UNCHANGED workerVars /\ Delivery!ListenerRound(i)

\* The same Redis holds the stream, the groups and the deduplication keys.
RedisRestarts == Expire(dedup) /\ UNCHANGED workerVars /\ Delivery!LoseRedis

SystemNext ==
  \/ Next /\ UNCHANGED deliveryVars
  \/ \E i \in Instances :
       UNCHANGED vars /\ (Restart(i) \/ WorkerStep(i) \/ ListenerStep(i))
  \/ RedisRestarts

SystemSpec == SystemInit /\ [][SystemNext]_systemVars

-----------------------------------------------------------------------------
(* What the application promises.                                          *)

\* What OutboxWorker takes for granted about transactions (rows are stamped one
\* after the other, and two that are open are never about one message) is what
\* the row locks of edit, delete and create make of them, whoever overlaps.
DeliversAsSpecified == Delivery!PipelineSpec

\* With one worker and no refused command, the stream begins with the events of a
\* message in the order in which requests took its row lock.
FirstPublishedInOrder == Delivery!FirstPublishedInOrder

\* With one worker and no command executed late, every copy of a processed event is
\* followed by one of each processed event its message's later requests made.
NewestPublishedLast == Delivery!NewestPublishedLast

\* Every committed change of m has been published.
Settled(m) ==
  \A e \in Events : e[2] = m => StateOf(e) # "pending"

\* Instance i has read the stream to its end, and failed on nothing.
CaughtUp(i) == group[i] /\ cursor[i] = Len(log) /\ pel[i] = {}

\* The entries about m of these types that i has handed to its sockets.
ToldOf(i, m, types) ==
  {k \in handled[i] : log[k][2] = m /\ outbox[log[k][1]].type \in types}

\* The README's promise, end to end: whatever requests overlapped, and whatever
\* failed, was sent again or restarted in between, the clients of an instance
\* that has caught up have been told last of the text the database holds, give or
\* take the blanks an edit announces around it, and of a deletion exactly if there
\* was one.  (With one worker, no command executed after its connection was given
\* up, and Redis keeping its data.)
ClientsEndWithTheDatabase ==
  \A i \in Instances, m \in Messages :
    Exists(m) /\ Settled(m) /\ CaughtUp(i) /\ base = 0 =>
      /\ \E k \in ToldOf(i, m, {"created", "edited"}) :
           /\ Strip(Announced(log[k][1])) = row[m].text
           /\ \A l \in ToldOf(i, m, {"created", "edited"}) : l <= k
      /\ row[m].status = "deleted" <=> ToldOf(i, m, {"deleted"}) # {}
==============================================================================

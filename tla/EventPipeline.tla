---------------------------- MODULE EventPipeline ----------------------------
(***************************************************************************)
(* The whole path of a persistent event: message transactions and outbox   *)
(* workers (OutboxWorker), the Redis stream, and the listener of every     *)
(* instance (StreamListener).  An instance runs both tasks in one process: *)
(* they start and stop together (lifespan in main.py).                     *)
(***************************************************************************)
EXTENDS OutboxWorker, StreamListener

ASSUME SameInstances == Listeners = Instances

pipelineVars == <<outboxVars, listenerVars, streamVars>>

PipelineTypeOK == TypeOK /\ ListenerTypeOK

PipelineInit == Init /\ ListenerInit

Up(i) == wpc[i] # "down"

\* lifespan: the group is created first, then the tasks are started.
StartInstance(i) ==
  /\ StartWorker(i)
  /\ StartListener(i)
  /\ UNCHANGED streamVars

\* Shutdown cancels all the tasks; a crash ends them.
StopInstance(i) ==
  /\ StopWorker(i)
  /\ StopListener(i)
  /\ UNCHANGED streamVars

PipelineNext ==
  \/ \E e \in Events : Transaction(e) /\ UNCHANGED listenerVars
  \/ \E i \in Instances :
       \/ StartInstance(i)
       \/ StopInstance(i)
       \/ WorkerRound(i) /\ UNCHANGED listenerVars
       \/ ListenerRound(i) /\ UNCHANGED outboxVars
  \/ LoseRedis /\ UNCHANGED outboxVars

PipelineSpec == PipelineInit /\ [][PipelineNext]_pipelineVars

PipelineFairness ==
  \A i \in Instances :
    /\ WF_pipelineVars(Claim(i) /\ UNCHANGED listenerVars)
    /\ WF_pipelineVars(Send(i) /\ UNCHANGED listenerVars)
    /\ WF_pipelineVars(Settle(i) /\ UNCHANGED listenerVars)
    /\ WF_pipelineVars(RaiseRefused(i) /\ UNCHANGED listenerVars)
    /\ WF_pipelineVars(Read(i) /\ UNCHANGED outboxVars)
    /\ WF_pipelineVars(Handle(i) /\ UNCHANGED outboxVars)
    /\ WF_pipelineVars(Ack(i) /\ UNCHANGED outboxVars)

FairPipelineSpec == PipelineSpec /\ PipelineFairness

-----------------------------------------------------------------------------

\* A processed event can still reach the clients of every instance that is up:
\* a copy of it is ahead of the instance's cursor, pending in its group or
\* already handed to its sockets.  (While Redis keeps its data.)
ReachesEveryInstance ==
  \A i \in Instances, e \in Processed :
    group[i] /\ base = 0 =>
      \E k \in DOMAIN log :
        log[k] = e /\ (k > cursor[i] \/ k \in pel[i] \/ k \in handled[i])

\* No client is told of a change that is not in the database.
OnlyCommittedHandled ==
  \A i \in Instances : \A k \in handled[i] : log[k] \in Committed

\* i has handed event e to its sockets since it started.
HasHandled(i, e) == \E k \in handled[i] : log[k] = e

\* A committed event reaches the clients of every instance that stays up, or is
\* left in that instance's pending entries list by a failure.
CommittedIsDelivered ==
  \A i \in Instances, e \in Events :
    <>[]Up(i) =>
      (row[e] \in {"pending", "processed"}
         ~> (HasHandled(i, e) \/ IsStranded(i, e)))

\* README: the outbox "prevents a successfully committed database change from
\* losing its real-time event because Redis was temporarily unavailable": an
\* event committed while an instance is up and stays up is handed to its sockets.
SurvivesRedisOutage ==
  \A i \in Instances, e \in Events :
    (row[e] = "pending" /\ Up(i)) ~> (HasHandled(i, e) \/ ~Up(i))
==============================================================================

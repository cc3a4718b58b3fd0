-------------------------- MODULE FieldChat_proofs ---------------------------
(***************************************************************************)
(* Theorems about the application, for any requests, messages, instances   *)
(* and failures: its steps are MessageLifecycle's, its deliveries implement*)
(* EventPipeline, and what clients are told ends with what the database    *)
(* holds.                                                                  *)
(***************************************************************************)
EXTENDS FieldChat, MessageLifecycle_proofs

-----------------------------------------------------------------------------
(* EventPipeline with its theorems.  Two instances of one module with the  *)
(* same substitution say the same; the provers are told definition by      *)
(* definition.                                                             *)

\* The same component, with the theorems proved about it.
Proved == INSTANCE EventPipeline_proofs
  WITH Listeners <- Instances, MsgOf <- MessageOf, row <- RowOf, created <- RankOf

LEMMA SameNumbers ==
  \A S : Delivery!Cardinality(S) = Cardinality(S) /\ Proved!Cardinality(S) = Cardinality(S)
BY DEF Cardinality, Delivery!Cardinality, Proved!Cardinality

LEMMA SameTransactions ==
  \A e : Delivery!Transaction(e) <=> Proved!Transaction(e)
BY SameNumbers DEF Delivery!Transaction, Proved!Transaction, Delivery!InsertEvent, Proved!InsertEvent,
     Delivery!EndTransaction, Proved!EndTransaction, Delivery!streamVars,
     Proved!streamVars

LEMMA SameRounds ==
  ASSUME NEW i
  PROVE  /\ (Delivery!Claim(i) <=> Proved!Claim(i))
         /\ (Delivery!Send(i) <=> Proved!Send(i))
         /\ (Delivery!SendRefused(i) <=> Proved!SendRefused(i))
         /\ (Delivery!Resend(i) <=> Proved!Resend(i))
         /\ (Delivery!Settle(i) <=> Proved!Settle(i))
         /\ (Delivery!Abort(i) <=> Proved!Abort(i))
         /\ (Delivery!RaiseRefused(i) <=> Proved!RaiseRefused(i))
         /\ (Delivery!SendStray(i) <=> Proved!SendStray(i))
         /\ (Delivery!DropStray(i) <=> Proved!DropStray(i))
<1>1. Delivery!Claim(i) <=> Proved!Claim(i)
  BY SameNumbers DEF Delivery!Claim, Proved!Claim, Delivery!Claimable, Proved!Claimable, Delivery!Pending,
     Proved!Pending, Delivery!OldestOf, Proved!OldestOf, Delivery!streamVars,
     Proved!streamVars
<1>2. Delivery!Send(i) <=> Proved!Send(i)
  BY DEF Delivery!Send, Proved!Send, Delivery!NextOf, Proved!NextOf, Delivery!XAdd, Proved!XAdd
<1>3. Delivery!SendRefused(i) <=> Proved!SendRefused(i)
  BY DEF Delivery!SendRefused, Proved!SendRefused, Delivery!NextOf, Proved!NextOf,
     Delivery!CanFail, Proved!CanFail, Delivery!FaultsAfter, Proved!FaultsAfter,
     Delivery!streamVars, Proved!streamVars
<1>4. Delivery!Resend(i) <=> Proved!Resend(i)
  BY DEF Delivery!Resend, Proved!Resend, Delivery!Leftover, Proved!Leftover, Delivery!CanFail,
     Proved!CanFail, Delivery!FaultsAfter, Proved!FaultsAfter, Delivery!streamVars,
     Proved!streamVars
<1>5. Delivery!Settle(i) <=> Proved!Settle(i)
  BY DEF Delivery!Settle, Proved!Settle, Delivery!streamVars, Proved!streamVars
<1>6. Delivery!Abort(i) <=> Proved!Abort(i)
  BY DEF Delivery!Abort, Proved!Abort, Delivery!EndRound, Proved!EndRound, Delivery!Leftover,
     Proved!Leftover, Delivery!CanFail, Proved!CanFail, Delivery!FaultsAfter,
     Proved!FaultsAfter, Delivery!streamVars, Proved!streamVars
<1>7. Delivery!RaiseRefused(i) <=> Proved!RaiseRefused(i)
  BY DEF Delivery!RaiseRefused, Proved!RaiseRefused, Delivery!EndRound, Proved!EndRound,
     Delivery!Leftover, Proved!Leftover, Delivery!streamVars, Proved!streamVars
<1>8. Delivery!SendStray(i) <=> Proved!SendStray(i)
  BY DEF Delivery!SendStray, Proved!SendStray, Delivery!NextOf, Proved!NextOf, Delivery!XAdd,
     Proved!XAdd
<1>9. Delivery!DropStray(i) <=> Proved!DropStray(i)
  BY DEF Delivery!DropStray, Proved!DropStray, Delivery!streamVars, Proved!streamVars
<1>10. QED
  BY <1>1, <1>2, <1>3, <1>4, <1>5, <1>6, <1>7, <1>8, <1>9

LEMMA SameListening ==
  ASSUME NEW i
  PROVE  /\ (Delivery!ListenerRound(i) <=> Proved!ListenerRound(i))
<1>1. Delivery!ListenerRound(i) <=> Proved!ListenerRound(i)
  BY DEF Delivery!ListenerRound, Proved!ListenerRound, Delivery!Read, Proved!Read,
     Delivery!ReadReplyLost, Proved!ReadReplyLost, Delivery!Delivered,
     Proved!Delivered, Delivery!NewEntries, Proved!NewEntries, Delivery!LastOfRead,
     Proved!LastOfRead, Delivery!Handle, Proved!Handle, Delivery!HandleFails,
     Proved!HandleFails, Delivery!Ack, Proved!Ack, Delivery!AckFails, Proved!AckFails,
     Delivery!IsNextEntry, Proved!IsNextEntry, Delivery!Done, Proved!Done,
     Delivery!streamVars, Proved!streamVars
<1>2. QED
  BY <1>1

LEMMA SameRestarts ==
  ASSUME NEW i
  PROVE  /\ (Delivery!StartWorker(i) <=> Proved!StartWorker(i))
         /\ (Delivery!StartListener(i) <=> Proved!StartListener(i))
         /\ (Delivery!StopListener(i) <=> Proved!StopListener(i))
         /\ (Delivery!StopWorker(i) <=> Proved!StopWorker(i))
         /\ (Delivery!LoseRedis <=> Proved!LoseRedis)
<1>1. Delivery!StartWorker(i) <=> Proved!StartWorker(i)
  BY DEF Delivery!StartWorker, Proved!StartWorker
<1>2. Delivery!StartListener(i) <=> Proved!StartListener(i)
  BY DEF Delivery!StartListener, Proved!StartListener
<1>3. Delivery!StopListener(i) <=> Proved!StopListener(i)
  BY DEF Delivery!StopListener, Proved!StopListener
<1>4. Delivery!StopWorker(i) <=> Proved!StopWorker(i)
  BY DEF Delivery!StopWorker, Proved!StopWorker, Delivery!CanFail, Proved!CanFail,
     Delivery!FaultsAfter, Proved!FaultsAfter, Delivery!EndRound, Proved!EndRound,
     Delivery!Leftover, Proved!Leftover
<1>5. Delivery!LoseRedis <=> Proved!LoseRedis
  BY DEF Delivery!LoseRedis, Proved!LoseRedis, Delivery!LoseStream, Proved!LoseStream
<1>6. QED
  BY <1>1, <1>2, <1>3, <1>4, <1>5

LEMMA SameInit == Delivery!PipelineInit <=> Proved!PipelineInit
BY DEF Delivery!PipelineInit, Proved!PipelineInit, Delivery!Init, Proved!Init,
     Delivery!ListenerInit, Proved!ListenerInit, Delivery!OutboxInit,
     Proved!OutboxInit, Delivery!StreamInit, Proved!StreamInit

LEMMA SameNext ==
  [Delivery!PipelineNext]_Delivery!pipelineVars <=> [Proved!PipelineNext]_Proved!pipelineVars
<1>1. Delivery!PipelineNext <=> Proved!PipelineNext
  BY SameTransactions, SameRounds, SameListening, SameRestarts
  DEF Delivery!PipelineNext, Proved!PipelineNext, Delivery!WorkerRound, Proved!WorkerRound,
     Delivery!StartInstance, Proved!StartInstance, Delivery!StopInstance,
     Proved!StopInstance, Delivery!listenerVars, Proved!listenerVars,
     Delivery!outboxVars, Proved!outboxVars, Delivery!streamVars, Proved!streamVars
<1>2. QED
  BY <1>1 DEF Delivery!pipelineVars, Proved!pipelineVars, Delivery!listenerVars, Proved!listenerVars,
     Delivery!outboxVars, Proved!outboxVars, Delivery!streamVars, Proved!streamVars

LEMMA SameComponent == Delivery!PipelineSpec <=> Proved!PipelineSpec
BY SameInit, SameNext, PTL DEF Delivery!PipelineSpec, Proved!PipelineSpec

\* What EventPipeline assumes of its constants.
LEMMA ComponentAssumptions ==
  /\ Proved!IsFiniteSet(Instances) /\ Proved!IsFiniteSet(Events)
  /\ MessageOf \in [Events -> Messages] /\ IsFiniteSet(Events)
<1>1. \A S : Proved!IsFiniteSet(S) <=> IsFiniteSet(S)
  BY DEF IsFiniteSet, Proved!IsFiniteSet
<1>2. IsFiniteSet(1 .. MaxEvents)
  <2>1. 1 \in Int /\ MaxEvents \in Int
    BY BoundsAssumption
  <2>2. QED
    BY <2>1, FS_Interval
<1>3. IsFiniteSet(Events)
  BY <1>2, LifecycleFinite, FS_Product DEF Events
<1>4. MessageOf \in [Events -> Messages]
  BY DEF Events, MessageOf
<1>5. QED
  BY <1>1, <1>3, <1>4, InstancesFinite

-----------------------------------------------------------------------------
(* The lifecycle of the messages is MessageLifecycle's.                    *)

LEMMA LifecycleStep ==
  ASSUME MT, [SystemNext]_systemVars
  PROVE  [Next]_vars
<1>1. CASE RedisRestarts
  <2>1. dedup \in SUBSET Keys
    BY DEF MT, TypeOK
  <2>2. QED
    BY <1>1, <2>1 DEF RedisRestarts, Next
<1>2. QED
  BY <1>1 DEF SystemNext, systemVars

\* Whatever MessageLifecycle's theorems say holds of the application.
THEOREM ApplicationIsLifecycle == SystemSpec => Spec
<1>1. SystemInit => Init
  BY DEF SystemInit
<1>2. Init => MT
  BY InitTypes
<1>3. MT /\ [SystemNext]_systemVars => [Next]_vars
  BY LifecycleStep
<1>4. MT /\ [Next]_vars => MT'
  BY NextTypes
<1>5. QED
  BY <1>1, <1>2, <1>3, <1>4, PTL DEF SystemSpec, Spec

-----------------------------------------------------------------------------
(* Events and outbox rows.                                                 *)

\* A row whose transaction has not ended is the one its request has stamped.
OpenHeld ==
  \A k \in DOMAIN outbox : outbox[k].state = "open" =>
    \E r \in Requests : Flushed(r) /\ req[r].event = k /\ req[r].msg = outbox[k].msg

\* The rows are the events there are, and processed_at is set of committed ones.
RowsOK ==
  /\ Len(outbox) <= MaxEvents
  /\ Cardinality({e \in Events : Stamped(e)}) = Len(outbox)
  /\ \A e \in processed : e \in Events /\ StateOf(e) = "processed"

TableInv == MT /\ OpenHeld /\ RowsOK

LEMMA Unopened ==
  ASSUME MT, OpenHeld, NEW m \in Messages, lock[m] = None
  PROVE  \A k \in DOMAIN outbox : outbox[k].msg = m => outbox[k].state # "open"
<1> SUFFICES ASSUME NEW k \in DOMAIN outbox, outbox[k].msg = m, outbox[k].state = "open"
             PROVE  FALSE
  OBVIOUS
<1>1. PICK r \in Requests : Flushed(r) /\ req[r].msg = m
  BY DEF OpenHeld
<1>2. lock[m] = r
  BY <1>1 DEF MT, ReqOK
<1>3. QED
  BY <1>2, NoneAssumption

\* A step of a request, as far as the table and the stampings are concerned.
LEMMA OpenHeldKept ==
  ASSUME MT, OpenHeld, [Next]_vars
  PROVE  OpenHeld'
<1>0. outbox \in Seq(OutboxRows) /\ req \in [Requests -> RequestStates]
  BY DEF MT, TypeOK
<1>1. ASSUME outbox' = outbox, NEW r \in Requests, ~Flushed(r),
             \A p \in Requests \ {r} : req'[p] = req[p]
      PROVE  OpenHeld'
  BY <1>1 DEF OpenHeld, Flushed
<1>2. ASSUME NEW r \in Requests, Reading(r) \/ FlushClear(r) \/ ClearEnds(r) PROVE OpenHeld'
  <2>1. outbox' = outbox /\ ~Flushed(r)
    BY <1>2, ReadingFacts DEF MT, FlushClear, ClearEnds, Flushed, Changing
  <2>2. \A p \in Requests \ {r} : req'[p] = req[p]
    BY <1>0, <1>2, ReadingFacts DEF MT, FlushClear, ClearEnds, Return
  <2>3. QED
    BY <1>1, <2>1, <2>2
<1>3. ASSUME NEW r \in Requests, NEW m \in Messages, NEW q \in RequestStates, Takes(r, m, q)
      PROVE  OpenHeld'
  <2>1. ~Flushed(r) /\ req'[r] = q /\ \A p \in Requests \ {r} : req'[p] = req[p]
    BY <1>0, <1>3 DEF Takes, Flushed
  <2>2. PICK type \in {"created", "edited", "deleted"}, b \in BOOLEAN : Stamp(type, m, b)
    BY <1>3 DEF Takes, TypeOf
  <2>3. /\ \A j \in DOMAIN outbox : outbox'[j] = outbox[j]
        /\ outbox'[Len(outbox) + 1] = [type |-> type, msg |-> m, padded |-> b, state |-> "open"]
        /\ DOMAIN outbox = 1 .. Len(outbox) /\ DOMAIN outbox' = 1 .. Len(outbox) + 1
    BY <1>0, <2>2, Stamping
  <2>4. \A k \in DOMAIN outbox' : k \in DOMAIN outbox \/ k = Len(outbox) + 1
    BY <1>0, <2>3
  <2>5. Flushed(r)' /\ req'[r].event = Len(outbox) + 1 /\ req'[r].msg = m
    BY <1>3, <2>1 DEF Takes, Flushed
  <2>6. \A p \in Requests : Flushed(p) => Flushed(p)' /\ req'[p] = req[p]
    BY <2>1 DEF Flushed
  <2>7. SUFFICES ASSUME NEW k \in DOMAIN outbox', outbox'[k].state = "open"
                 PROVE  \E p \in Requests : /\ Flushed(p)' /\ req'[p].event = k
                                            /\ req'[p].msg = outbox'[k].msg
    BY DEF OpenHeld
  <2>8. CASE k \in DOMAIN outbox
    BY <2>3, <2>6, <2>7, <2>8 DEF OpenHeld
  <2>9. CASE k = Len(outbox) + 1
    BY <2>3, <2>5, <2>9
  <2>10. QED
    BY <2>4, <2>8, <2>9
<1>4. ASSUME NEW r \in Requests, NEW state \in {"committed", "undone"}, Gives(r, state)
      PROVE  OpenHeld'
  <2>1. Flushed(r) /\ \A p \in Requests \ {r} : req'[p] = req[p]
    BY <1>0, <1>4 DEF Gives, Return
  <2>2. PICK k \in DOMAIN outbox : k = req[r].event
    BY <2>1 DEF MT, ReqOK
  <2>3. EndEvent(k, state) /\ k \in Nat
    BY <1>0, <1>4, <2>2 DEF Gives
  <2>4. /\ DOMAIN outbox' = DOMAIN outbox
        /\ \A j \in DOMAIN outbox :
             /\ j # k => outbox'[j] = outbox[j]
             /\ j = k => outbox'[j].state = state
    BY <1>0, <2>3, Ending
  <2>5. SUFFICES ASSUME NEW j \in DOMAIN outbox, outbox'[j].state = "open"
                 PROVE  \E p \in Requests : /\ Flushed(p)' /\ req'[p].event = j
                                            /\ req'[p].msg = outbox'[j].msg
    BY <2>4 DEF OpenHeld
  <2>6. j # k /\ outbox'[j] = outbox[j]
    BY <2>4, <2>5
  <2>7. PICK p \in Requests : Flushed(p) /\ req[p].event = j /\ req[p].msg = outbox[j].msg
    BY <2>5, <2>6 DEF OpenHeld
  <2>8. req'[p] = req[p]
    BY <2>1, <2>2, <2>6, <2>7
  <2>9. QED
    BY <2>6, <2>7, <2>8 DEF Flushed
<1>5. CASE (\E gone \in SUBSET Keys : Expire(gone)) \/ UNCHANGED vars
  BY <1>5 DEF Expire, vars, OpenHeld, Flushed
<1>6. ASSUME NEW r \in Requests, Working(r) PROVE OpenHeld'
  BY <1>2, <1>3, <1>4, <1>6 DEF Working
<1>7. QED
  BY <1>5, <1>6, NextSorted

-----------------------------------------------------------------------------
(* How the rows of the events move.                                        *)

LEMMA EventsAre ==
  /\ \A e \in Events : e[1] \in 1 .. MaxEvents /\ e[2] \in Messages /\ e = <<e[1], e[2]>>
  /\ \A n \in 1 .. MaxEvents, m \in Messages :
       <<n, m>> \in Events /\ <<n, m>>[1] = n /\ <<n, m>>[2] = m
BY DEF Events

LEMMA RowsSame ==
  ASSUME UNCHANGED <<outbox, processed>>
  PROVE  RowOf' = RowOf /\ RankOf' = RankOf /\ (RowsOK => RowsOK')
<1>1. \A e : (Stamped(e)' <=> Stamped(e)) /\ StateOf(e)' = StateOf(e)
  BY DEF Stamped, StateOf
<1>2. RowOf' = RowOf /\ RankOf' = RankOf
  BY <1>1 DEF RowOf, RankOf
<1>3. {e \in Events : Stamped(e)}' = {e \in Events : Stamped(e)}
  BY <1>1
<1>4. QED
  BY <1>1, <1>2, <1>3 DEF RowsOK

\* A stamped event is a new row, the newest and open.
LEMMA RowsStamped ==
  ASSUME TypeOK, RowsOK, NEW m \in Messages, NEW type \in Types,
         NEW b \in BOOLEAN, Stamp(type, m, b),
         UNCHANGED processed
  PROVE  /\ RowsOK'
         /\ \E x \in Events :
              /\ x[2] = m /\ StateOf(x) = "absent"
              /\ RowOf' = [RowOf EXCEPT ![x] = "open"]
              /\ RankOf' = [RankOf EXCEPT ![x] = 1 + Cardinality({e \in Events : Stamped(e)})]
<1> DEFINE n == Len(outbox) + 1
           x == <<n, m>>
<1>1. /\ Len(outbox) \in Nat /\ Len(outbox) < MaxEvents /\ outbox \in Seq(OutboxRows)
      /\ type \in {"created", "edited", "deleted"} /\ MaxEvents \in Nat
  BY BoundsAssumption DEF TypeOK, Stamp, Types
<1>2. /\ \A j \in DOMAIN outbox : outbox'[j] = outbox[j]
      /\ outbox'[n] = [type |-> type, msg |-> m, padded |-> b, state |-> "open"]
      /\ DOMAIN outbox = 1 .. Len(outbox) /\ DOMAIN outbox' = 1 .. n /\ Len(outbox') = n
  BY <1>1, Stamping
<1>3. n \in 1 .. MaxEvents /\ n \notin DOMAIN outbox /\ DOMAIN outbox' = DOMAIN outbox \cup {n}
  BY <1>1, <1>2
<1>4. outbox'[n].msg = m /\ outbox'[n].state = "open"
  BY <1>2
<1> HIDE DEF n
<1>5. x \in Events /\ x[1] = n /\ x[2] = m
  BY <1>3, EventsAre
<1>6. \A e \in Events : (e[1] = n /\ e[2] = m) <=> e = x
  BY <1>5, EventsAre
<1> HIDE DEF x
<1>7. ~Stamped(x) /\ StateOf(x) = "absent"
  BY <1>3, <1>5 DEF Stamped, StateOf
<1>8. ASSUME NEW e \in Events
      PROVE  /\ Stamped(e)' <=> Stamped(e) \/ e = x
             /\ StateOf(e)' = IF e = x THEN "open" ELSE StateOf(e)
  <2>1. CASE e[1] = n
    <3>1. ~Stamped(e) /\ (Stamped(e)' <=> e = x)
      BY <1>3, <1>4, <1>6, <2>1 DEF Stamped
    <3>2. QED
      BY <1>4, <2>1, <3>1 DEF StateOf
  <2>2. CASE e[1] # n
    <3>1. e # x /\ (Stamped(e)' <=> Stamped(e))
      BY <1>2, <1>3, <1>5, <2>2 DEF Stamped
    <3>2. Stamped(e) => outbox'[e[1]] = outbox[e[1]]
      BY <1>2 DEF Stamped
    <3>3. QED
      BY <1>8, <3>1, <3>2 DEF StateOf
  <2>3. QED
    BY <2>1, <2>2
<1>9. RowOf' = [RowOf EXCEPT ![x] = "open"]
  BY <1>5, <1>8 DEF RowOf
<1> DEFINE S == {e \in Events : Stamped(e)}
<1>10. Cardinality(S) = Len(outbox) /\ n = 1 + Cardinality(S)
  BY <1>1 DEF RowsOK, n
<1>11. RankOf' = [RankOf EXCEPT ![x] = n]
  BY <1>5, <1>7, <1>8 DEF RankOf
<1>12. RowsOK'
  <2>1. S' = S \cup {x} /\ x \notin S /\ IsFiniteSet(S)
    BY <1>5, <1>7, <1>8, ComponentAssumptions, FS_Subset
  <2>2. Cardinality(S)' = n
    <3>1. PICK T : T = S
      OBVIOUS
    <3>2. IsFiniteSet(T) /\ x \notin T
      BY <2>1, <3>1
    <3>3. Cardinality(T \cup {x}) = Cardinality(T) + 1
      BY <3>2, FS_AddElement
    <3>4. Cardinality(S') = Cardinality(T) + 1
      BY <2>1, <3>1, <3>3
    <3>5. QED
      BY <1>1, <1>10, <3>1, <3>4
  <2>3. \A e \in processed : e \in Events /\ StateOf(e)' = "processed"
    BY <1>7, <1>8 DEF RowsOK
  <2>4. QED
    BY <1>2, <1>3, <2>2, <2>3 DEF RowsOK
<1>13. QED
  BY <1>5, <1>7, <1>9, <1>10, <1>11, <1>12

\* A transaction that ends ends the row it had open.
LEMMA RowsEnded ==
  ASSUME TypeOK, RowsOK, NEW k \in DOMAIN outbox, outbox[k].state = "open",
         NEW state \in {"committed", "undone"}, EndEvent(k, state), UNCHANGED processed
  PROVE  /\ RowsOK'
         /\ RankOf' = RankOf
         /\ \E x \in Events :
              /\ StateOf(x) = "open"
              /\ RowOf' = [RowOf EXCEPT ![x] =
                             IF state = "committed" THEN "pending" ELSE "rolledback"]
<1>1. /\ outbox \in Seq(OutboxRows) /\ DOMAIN outbox = 1 .. Len(outbox) /\ Len(outbox) \in Nat
      /\ k \in Nat /\ Len(outbox) <= MaxEvents /\ outbox[k] \in OutboxRows /\ MaxEvents \in Nat
  BY BoundsAssumption DEF TypeOK, RowsOK
<1>2. /\ DOMAIN outbox' = DOMAIN outbox /\ outbox' \in Seq(OutboxRows)
      /\ \A j \in DOMAIN outbox :
           /\ outbox'[j].msg = outbox[j].msg
           /\ j # k => outbox'[j] = outbox[j]
           /\ j = k => outbox'[j].state = state
  BY <1>1, Ending
<1>3. PICK m \in Messages : m = outbox[k].msg
  BY <1>1 DEF OutboxRows
<1>4. PICK x \in Events : x[1] = k /\ x[2] = m
  <2>1. k \in 1 .. MaxEvents
    BY <1>1
  <2>2. <<k, m>> \in Events /\ <<k, m>>[1] = k /\ <<k, m>>[2] = m
    BY <2>1, EventsAre
  <2>3. QED
    BY <2>2
<1>5. \A e \in Events : (e[1] = k /\ e[2] = m) <=> e = x
  BY <1>4, EventsAre
<1>6. \A e : Stamped(e)' <=> Stamped(e)
  BY <1>2 DEF Stamped
<1>7. StateOf(x) = "open" /\ Stamped(x) /\ x \notin processed
  BY <1>3, <1>4 DEF StateOf, Stamped, RowsOK
<1>8. ASSUME NEW e \in Events
      PROVE  StateOf(e)' = IF e = x THEN IF state = "committed" THEN "pending" ELSE "rolledback"
                           ELSE StateOf(e)
  <2>1. CASE e = x
    BY <1>2, <1>4, <1>6, <1>7, <2>1 DEF StateOf
  <2>2. CASE e # x
    <3>1. Stamped(e) => e[1] # k
      BY <1>3, <1>5, <2>2 DEF Stamped
    <3>2. Stamped(e) => outbox'[e[1]] = outbox[e[1]]
      BY <1>2, <3>1 DEF Stamped
    <3>3. QED
      BY <1>6, <2>2, <3>2 DEF StateOf
  <2>3. QED
    BY <2>1, <2>2
<1>9. RankOf' = RankOf
  BY <1>6 DEF RankOf
<1>10. RowOf' = [RowOf EXCEPT ![x] = IF state = "committed" THEN "pending" ELSE "rolledback"]
  BY <1>8 DEF RowOf
<1>11. {e \in Events : Stamped(e)}' = {e \in Events : Stamped(e)}
  BY <1>6
<1>12. Len(outbox') = Len(outbox)
  BY <1>1, <1>2
<1>13. \A e \in processed : e \in Events /\ StateOf(e)' = "processed"
  BY <1>7, <1>8 DEF RowsOK
<1>14. RowsOK'
  BY <1>11, <1>12, <1>13 DEF RowsOK
<1>15. QED
  BY <1>7, <1>9, <1>10, <1>14

-----------------------------------------------------------------------------
(* Refinement: the application's deliveries are EventPipeline's.           *)

\* A request's step is a transaction's of EventPipeline, or nothing to it.
LEMMA RequestStep ==
  ASSUME TableInv, Next, UNCHANGED deliveryVars
  PROVE  /\ RowsOK'
         /\ \/ UNCHANGED Delivery!pipelineVars
            \/ \E x \in Events : Delivery!Transaction(x) /\ UNCHANGED Delivery!listenerVars
<1>1. /\ MT /\ OpenHeld /\ RowsOK /\ TypeOK
      /\ UNCHANGED <<processed, attempts, wpc, locked, wire, stray, faults, log, base>>
      /\ UNCHANGED Delivery!listenerVars
  BY DEF TableInv, MT, deliveryVars, workerVars, listenerVars, Delivery!listenerVars
<1>2. ASSUME outbox' = outbox PROVE RowsOK' /\ UNCHANGED Delivery!pipelineVars
  BY <1>1, <1>2, RowsSame DEF Delivery!pipelineVars, Delivery!outboxVars, Delivery!streamVars
<1>3. ASSUME NEW r \in Requests, NEW m \in Messages, NEW q \in RequestStates, Takes(r, m, q)
      PROVE  RowsOK' /\ \E x \in Events : Delivery!InsertEvent(x)
  <2>1. PICK type \in Types, b \in BOOLEAN : Stamp(type, m, b)
    BY <1>3 DEF Takes, TypeOf, Types
  <2>2. PICK x \in Events :
          /\ x[2] = m /\ StateOf(x) = "absent"
          /\ RowOf' = [RowOf EXCEPT ![x] = "open"]
          /\ RankOf' = [RankOf EXCEPT ![x] = 1 + Cardinality({e \in Events : Stamped(e)})]
    BY <1>1, <2>1, RowsStamped
  <2>3. RowsOK'
    BY <1>1, <2>1, RowsStamped
  <2>4. RowOf[x] = "absent"
    BY <2>2 DEF RowOf
  <2>5. \A e \in Events \ {x} : MessageOf[e] = MessageOf[x] => RowOf[e] # "open"
    <3>1. lock[m] = None
      BY <1>3 DEF Takes
    <3>2. \A e \in Events : e[2] = m => StateOf(e) # "open"
      BY <1>1, <3>1, Unopened DEF StateOf, Stamped
    <3>3. QED
      BY <2>2, <3>2 DEF MessageOf, RowOf
  <2>6. {f \in Events : RowOf[f] # "absent"} = {e \in Events : Stamped(e)}
    BY DEF RowOf, StateOf
  <2>7. RankOf' = [RankOf EXCEPT ![x] = 1 + Delivery!Cardinality({f \in Events : RowOf[f] # "absent"})]
    BY <2>2, <2>6, SameNumbers
  <2>8. Delivery!InsertEvent(x)
    BY <1>1, <2>2, <2>4, <2>5, <2>7 DEF Delivery!InsertEvent, Delivery!streamVars
  <2>9. QED
    BY <2>3, <2>8
<1>4. ASSUME NEW r \in Requests, NEW state \in {"committed", "undone"}, Gives(r, state)
      PROVE  RowsOK' /\ \E x \in Events : Delivery!EndTransaction(x)
  <2>0. ReqOK(r) /\ Flushed(r)
    BY <1>1, <1>4 DEF Gives, MT
  <2>1. PICK k \in DOMAIN outbox : k = req[r].event /\ outbox[k].state = "open"
    BY <2>0 DEF ReqOK, OpenRow
  <2>2. EndEvent(k, state)
    BY <1>4, <2>1 DEF Gives
  <2>3. PICK x \in Events :
          /\ StateOf(x) = "open"
          /\ RowOf' = [RowOf EXCEPT ![x] =
                         IF state = "committed" THEN "pending" ELSE "rolledback"]
    BY <1>1, <2>1, <2>2, RowsEnded
  <2>4. RowsOK' /\ RankOf' = RankOf
    BY <1>1, <2>1, <2>2, RowsEnded
  <2>5. RowOf[x] = "open"
    BY <2>3 DEF RowOf
  <2>6. \E end \in {"pending", "rolledback"} : RowOf' = [RowOf EXCEPT ![x] = end]
    BY <2>3
  <2>7. Delivery!EndTransaction(x)
    BY <1>1, <2>4, <2>5, <2>6 DEF Delivery!EndTransaction, Delivery!streamVars
  <2>8. QED
    BY <2>4, <2>7
<1>5. CASE \E gone \in SUBSET Keys : Expire(gone)
  BY <1>2, <1>5 DEF Expire
<1>6. ASSUME NEW r \in Requests, Working(r)
      PROVE  /\ RowsOK'
             /\ \/ UNCHANGED Delivery!pipelineVars
                \/ \E x \in Events : Delivery!Transaction(x)
  <2>1. CASE Reading(r) \/ FlushClear(r) \/ ClearEnds(r)
    BY <1>1, <1>2, <2>1, ReadingFacts DEF FlushClear, ClearEnds
  <2>2. QED
    BY <1>3, <1>4, <1>6, <2>1 DEF Working, Delivery!Transaction
<1>7. QED
  BY <1>1, <1>5, <1>6, NextSorted

\* The table, and what EventPipeline's invariant makes of it.
SystemInv == TableInv /\ Proved!PipelineInv

LEMMA SystemStep ==
  ASSUME SystemInv, [SystemNext]_systemVars
  PROVE  TableInv' /\ [Delivery!PipelineNext]_Delivery!pipelineVars
<1>1. TableInv /\ MT /\ OpenHeld /\ RowsOK /\ Proved!PipelineInv
  BY DEF SystemInv, TableInv
<1>2. MT' /\ OpenHeld'
  BY <1>1, LifecycleStep, NextTypes, OpenHeldKept
<1>3. SUFFICES RowsOK' /\ [Delivery!PipelineNext]_Delivery!pipelineVars
  BY <1>2 DEF TableInv
<1>4. CASE Next /\ UNCHANGED deliveryVars
  BY <1>1, <1>4, RequestStep DEF Delivery!PipelineNext
<1>5. ASSUME NEW i \in Instances, UNCHANGED vars, Restart(i)
      PROVE  RowsOK' /\ [Delivery!PipelineNext]_Delivery!pipelineVars
  <2>1. UNCHANGED <<outbox, processed>>
    BY <1>5 DEF vars, Restart
  <2>2. QED
    BY <1>1, <1>5, <2>1, RowsSame DEF Restart, Delivery!PipelineNext
<1>6. ASSUME NEW i \in Instances, UNCHANGED vars, ListenerStep(i)
      PROVE  RowsOK' /\ [Delivery!PipelineNext]_Delivery!pipelineVars
  <2>1. UNCHANGED <<outbox, processed, attempts, wpc, locked, wire, stray, faults>>
    BY <1>6 DEF vars, ListenerStep, workerVars
  <2>2. RowsOK' /\ UNCHANGED Delivery!outboxVars
    BY <1>1, <2>1, RowsSame DEF Delivery!outboxVars
  <2>3. QED
    BY <1>6, <2>2 DEF ListenerStep, Delivery!PipelineNext
<1>7. ASSUME NEW i \in Instances, UNCHANGED vars, WorkerStep(i)
      PROVE  RowsOK' /\ [Delivery!PipelineNext]_Delivery!pipelineVars
  <2>1. /\ outbox' = outbox /\ processed' \in {processed, processed \cup locked[i]}
        /\ Delivery!WorkerRound(i) /\ UNCHANGED Delivery!listenerVars
    BY <1>7 DEF vars, WorkerStep, listenerVars, Delivery!listenerVars
  <2>2. locked[i] \subseteq {e \in Events : RowOf[e] = "pending"}
    BY <1>1 DEF Proved!PipelineInv, Proved!IInv, Proved!LocksHeld, Proved!Pending
  <2>3. \A e \in locked[i] : e \in Events /\ StateOf(e) = "pending"
    BY <2>2 DEF RowOf
  <2>4. ASSUME NEW e \in processed' PROVE e \in Events /\ StateOf(e)' = "processed"
    <3>1. e \in Events /\ StateOf(e) \in {"pending", "processed"}
      BY <1>1, <2>1, <2>3, <2>4 DEF RowsOK
    <3>2. Stamped(e)' /\ outbox'[e[1]].state # "open" /\ outbox'[e[1]].state # "undone"
      BY <2>1, <3>1 DEF StateOf, Stamped
    <3>3. QED
      BY <2>4, <3>1, <3>2 DEF StateOf
  <2>5. {e \in Events : Stamped(e)}' = {e \in Events : Stamped(e)}
    BY <2>1 DEF Stamped
  <2>6. RowsOK'
    BY <1>1, <2>1, <2>4, <2>5 DEF RowsOK
  <2>7. QED
    BY <2>1, <2>6 DEF Delivery!PipelineNext
<1>8. CASE RedisRestarts
  <2>1. UNCHANGED <<outbox, processed, attempts, wpc, locked, wire, stray, faults>>
    BY <1>8 DEF RedisRestarts, Expire, workerVars
  <2>2. RowsOK' /\ UNCHANGED Delivery!outboxVars
    BY <1>1, <2>1, RowsSame DEF Delivery!outboxVars
  <2>3. QED
    BY <1>8, <2>2 DEF RedisRestarts, Delivery!PipelineNext
<1>9. CASE UNCHANGED systemVars
  <2>1. UNCHANGED <<outbox, processed, attempts, wpc, locked, wire, stray, faults, log, base>>
    BY <1>9 DEF systemVars, vars, deliveryVars, workerVars
  <2>2. UNCHANGED Delivery!listenerVars
    BY <1>9 DEF systemVars, deliveryVars, listenerVars, Delivery!listenerVars
  <2>3. QED
    BY <1>1, <2>1, <2>2, RowsSame
    DEF Delivery!pipelineVars, Delivery!outboxVars, Delivery!streamVars
<1>10. QED
  BY <1>4, <1>5, <1>6, <1>7, <1>8, <1>9 DEF SystemNext

LEMMA SystemStart ==
  ASSUME SystemInit
  PROVE  TableInv /\ Delivery!PipelineInit
<1>1. MT /\ outbox = <<>> /\ processed = {}
  BY InitTypes DEF SystemInit, Init
<1>2. \A e : ~Stamped(e)
  BY <1>1 DEF Stamped
<1>3. {e \in Events : Stamped(e)} = {}
  BY <1>2
<1>4. Len(<<>>) = 0 /\ Cardinality({}) = 0 /\ 0 <= MaxEvents
  BY FS_EmptySet, BoundsAssumption
<1>5. RowsOK
  BY <1>1, <1>3, <1>4 DEF RowsOK
<1>6. QED
  BY <1>1, <1>5 DEF TableInv, OpenHeld, SystemInit

\* The invariant of EventPipeline is inductive for its component's steps.
LEMMA ComponentInv ==
  /\ Proved!PipelineInit => Proved!PipelineInv
  /\ Proved!PipelineInv /\ [Proved!PipelineNext]_Proved!pipelineVars => Proved!PipelineInv'
BY ComponentAssumptions, BoundsAssumption, SwitchesAssumption, Proved!PipelineInitInv, Proved!PipelineNextInv

THEOREM SystemInvariant == SystemSpec => []SystemInv
<1>1. SystemInit => SystemInv
  BY SystemStart, SameInit, ComponentInv DEF SystemInv
<1>2. SystemInv /\ [SystemNext]_systemVars => SystemInv'
  BY SystemStep, SameNext, ComponentInv DEF SystemInv
<1>3. QED
  BY <1>1, <1>2, PTL DEF SystemSpec

\* Requests, workers, listeners and restarts, over one table, are a behaviour of
\* EventPipeline: what the worker takes for granted about transactions is what the
\* row locks of create, edit and delete make of them, however they overlap.
THEOREM ApplicationDelivers == SystemSpec => DeliversAsSpecified
<1>1. SystemInit => Delivery!PipelineInit
  BY SystemStart
<1>2. SystemInv /\ [SystemNext]_systemVars => [Delivery!PipelineNext]_Delivery!pipelineVars
  BY SystemStep
<1>3. QED
  BY <1>1, <1>2, SystemInvariant, PTL DEF SystemSpec, DeliversAsSpecified, Delivery!PipelineSpec

\* The order of a message's events is that in which requests took its row lock, in
\* the stream as in the table, with one worker and no refused command.
THEOREM ApplicationBeginsInOrder ==
  ASSUME NEW w, Instances = {w}, ~MayRefuse
  PROVE  SystemSpec => []FirstPublishedInOrder
<1>1. Proved!PipelineSpec => []Proved!FirstPublishedInOrder
  BY ComponentAssumptions, BoundsAssumption, SwitchesAssumption, Proved!PipelineFirstInOrder
<1>2. SystemSpec => Proved!PipelineSpec
  BY ApplicationDelivers, SameComponent DEF DeliversAsSpecified
<1>3. Proved!FirstPublishedInOrder => FirstPublishedInOrder
  BY DEF FirstPublishedInOrder, Delivery!FirstPublishedInOrder, Proved!FirstPublishedInOrder,
     Delivery!Earlier, Proved!Earlier, Delivery!Committed, Proved!Committed
<1>4. QED
  BY <1>1, <1>2, <1>3, PTL

\* With one worker and no command executed late, what the stream says last of a
\* message is what the last processed request about it did.
THEOREM ApplicationEndsInOrder ==
  ASSUME NEW w, Instances = {w}, ~MayLinger
  PROVE  SystemSpec => []NewestPublishedLast
<1>1. Proved!PipelineSpec => []Proved!NewestPublishedLast
  BY ComponentAssumptions, BoundsAssumption, SwitchesAssumption, Proved!PipelineLastInOrder
<1>2. SystemSpec => Proved!PipelineSpec
  BY ApplicationDelivers, SameComponent DEF DeliversAsSpecified
<1>3. Proved!NewestPublishedLast => NewestPublishedLast
  BY DEF NewestPublishedLast, Delivery!NewestPublishedLast, Proved!NewestPublishedLast,
     Delivery!Earlier, Proved!Earlier, Delivery!Committed, Proved!Committed,
     Delivery!Processed, Proved!Processed
<1>4. QED
  BY <1>1, <1>2, <1>3, PTL

\* The state of requests, workers, listeners and stream is well typed throughout, and
\* processed_at is only ever set of rows.
THEOREM ApplicationTypesCorrect == SystemSpec => []SystemTypeOK
<1>1. ASSUME SystemInv PROVE SystemTypeOK
  <2>1. TypeOK /\ processed \subseteq Events
    BY <1>1 DEF SystemInv, TableInv, MT, RowsOK
  <2>2. Proved!TypeOK /\ Proved!ListenerTypeOK
    BY <1>1 DEF SystemInv, Proved!PipelineInv, Proved!IInv, Proved!LInv
  <2>3. Delivery!TypeOK
    BY <2>2 DEF Proved!TypeOK, Proved!StreamTypeOK, Proved!OutboxTypeOK, Proved!RowStates,
         Delivery!TypeOK, Delivery!StreamTypeOK, Delivery!OutboxTypeOK, Delivery!RowStates
  <2>4. Delivery!ListenerTypeOK
    BY <2>2 DEF Proved!ListenerTypeOK, Proved!Entries, Delivery!ListenerTypeOK, Delivery!Entries
  <2>5. QED
    BY <2>1, <2>3, <2>4 DEF SystemTypeOK, Delivery!PipelineTypeOK
<1>2. QED
  BY <1>1, SystemInvariant, PTL

-----------------------------------------------------------------------------
(* End to end.                                                             *)

\* The sets of later members of S get smaller: the last member has none.
LEMMA HasLast ==
  ASSUME NEW n \in Nat, NEW S \in SUBSET (1 .. n), S # {}
  PROVE  \E k \in S : \A l \in S : l <= k
<1> DEFINE After(k) == {l \in S : l > k}
           T == {After(k) : k \in S}
<1>1. IsFiniteSet(S)
  <2>1. 1 \in Int /\ n \in Int
    OBVIOUS
  <2>2. IsFiniteSet(1 .. n)
    BY <2>1, FS_Interval
  <2>3. QED
    BY <2>2, FS_Subset
<1>2. T \subseteq FiniteSubsetsOf(S) /\ T # {}
  <2>1. \A U \in SUBSET S : IsFiniteSet(U)
    BY <1>1, FS_Subset
  <2>2. \A k \in S : After(k) \in SUBSET S
    OBVIOUS
  <2>3. QED
    BY <2>1, <2>2 DEF FiniteSubsetsOf
<1>3. PICK A \in T : \A B \in T : ~(<<B, A>> \in StrictSubsetOrdering(S))
  BY <1>2, FS_StrictSubsetOrderingWellFounded, WFMin
<1>4. PICK k \in S : A = After(k)
  BY <1>3
<1>5. ASSUME NEW l \in S, l > k PROVE FALSE
  <2>0. S \subseteq Nat
    OBVIOUS
  <2>a. After(l) \in T
    OBVIOUS
  <2>b. l \in A /\ l \notin After(l)
    BY <1>4, <1>5, <2>0
  <2>c. After(l) \subseteq A
    <3>1. \A j \in S : j > l => j > k
      BY <1>5, <2>0
    <3>2. QED
      BY <1>4, <3>1
  <2>1. After(l) \in T /\ After(l) \subseteq A /\ l \in A /\ l \notin After(l)
    BY <2>a, <2>b, <2>c
  <2>2. <<After(l), A>> \in StrictSubsetOrdering(S)
    BY <1>4, <2>1 DEF StrictSubsetOrdering
  <2>3. QED
    BY <1>3, <2>1, <2>2
<1>6. QED
  BY <1>5

\* What an instance that has caught up has told of a message whose changes are all
\* published: its committed events, each of them at least once.
LEMMA Told ==
  ASSUME SystemInv, NEW i \in Instances, NEW m \in Messages,
         Settled(m), CaughtUp(i), base = 0
  PROVE  /\ Len(log) \in Nat /\ DOMAIN log = 1 .. Len(log)
         /\ \A k \in DOMAIN log : log[k][2] = m =>
              /\ log[k] \in Events /\ RowOf[log[k]] = "processed"
              /\ log[k][1] \in DOMAIN outbox
         /\ \A T : ToldOf(i, m, T) = {k \in DOMAIN log : log[k][2] = m /\ log[k][1] \in EventsOf(m, T)}
         /\ \A T : \A j \in EventsOf(m, T) :
              /\ <<j, m>> \in Events /\ RowOf[<<j, m>>] = "processed"
              /\ \E k \in DOMAIN log : log[k] = <<j, m>>
<1>1. /\ Proved!IInv /\ Proved!LInv /\ RowsOK /\ outbox \in Seq(OutboxRows)
      /\ group[i] /\ cursor[i] = Len(log) /\ pel[i] = {}
  BY DEF SystemInv, TableInv, MT, TypeOK, Proved!PipelineInv, CaughtUp
<1>2. Len(log) \in Nat /\ DOMAIN log = 1 .. Len(log) /\ \A k \in DOMAIN log : log[k] \in Events
  BY <1>1 DEF Proved!LInv, Proved!StreamTypeOK
<1>3. handled[i] = DOMAIN log
  <2>1. Proved!Positions(i) /\ Proved!Covered(i)
    BY <1>1 DEF Proved!LInv, Proved!InstanceInv
  <2>2. handled[i] \subseteq 1 .. Len(log) /\ \A k \in 1 .. Len(log) : k \in handled[i]
    BY <1>1, <1>2, <2>1 DEF Proved!Positions, Proved!Covered
  <2>3. QED
    BY <1>2, <2>2
<1>4. \A k \in DOMAIN log : StateOf(log[k]) \in {"pending", "processed"}
  <2>1. Proved!Published \subseteq Proved!Committed
    BY <1>1 DEF Proved!IInv
  <2>2. QED
    BY <1>2, <2>1 DEF Proved!Published, Proved!Committed, RowOf
<1>5. \A k \in DOMAIN log : log[k][2] = m => StateOf(log[k]) = "processed"
  BY <1>2, <1>4 DEF Settled
<1>6. \A k \in DOMAIN outbox : outbox[k].state \in {"open", "committed", "undone"} /\ outbox[k].msg \in Messages
  <2>1. \A k \in DOMAIN outbox : outbox[k] \in OutboxRows
    BY <1>1
  <2>2. QED
    BY <2>1 DEF OutboxRows
<1>7. \A e \in Events : e[2] = m /\ StateOf(e) = "processed" =>
         e[1] \in DOMAIN outbox /\ outbox[e[1]].msg = m /\ outbox[e[1]].state = "committed"
  BY <1>6 DEF StateOf, Stamped
<1>8. ASSUME NEW T
      PROVE  ToldOf(i, m, T) = {k \in DOMAIN log : log[k][2] = m /\ log[k][1] \in EventsOf(m, T)}
  BY <1>2, <1>3, <1>5, <1>7 DEF ToldOf, EventsOf
<1>9. ASSUME NEW T, NEW j \in EventsOf(m, T)
      PROVE  /\ <<j, m>> \in Events /\ RowOf[<<j, m>>] = "processed"
             /\ \E k \in DOMAIN log : log[k] = <<j, m>>
  <2>1. j \in DOMAIN outbox /\ outbox[j].msg = m /\ outbox[j].state = "committed"
    BY <1>9 DEF EventsOf
  <2>2. j \in 1 .. MaxEvents
    BY <1>1, <2>1, BoundsAssumption DEF RowsOK
  <2>3. PICK e \in Events : e = <<j, m>> /\ e[1] = j /\ e[2] = m
    BY <2>2, EventsAre
  <2>4. StateOf(e) \in {"pending", "processed"}
    BY <2>1, <2>3 DEF StateOf, Stamped
  <2>5. StateOf(e) = "processed"
    BY <2>3, <2>4 DEF Settled
  <2>6. e \in Proved!Published
    BY <1>1, <2>5 DEF Proved!IInv, Proved!Processed, RowOf
  <2>7. \E k \in DOMAIN log : log[k] = e
    BY <2>6 DEF Proved!Published
  <2>8. QED
    BY <2>3, <2>5, <2>7 DEF RowOf
<1>10. QED
  BY <1>2, <1>5, <1>7, <1>8, <1>9 DEF RowOf

LEMMA EndsWithTheDatabase ==
  ASSUME SystemInv, AllAgree, Proved!NewestPublishedLast
  PROVE  ClientsEndWithTheDatabase
<1> SUFFICES ASSUME NEW i \in Instances, NEW m \in Messages,
                    Exists(m), Settled(m), CaughtUp(i), base = 0
             PROVE  /\ \E k \in ToldOf(i, m, {"created", "edited"}) :
                         /\ Strip(Announced(log[k][1])) = row[m].text
                         /\ \A l \in ToldOf(i, m, {"created", "edited"}) : l <= k
                    /\ row[m].status = "deleted" <=> ToldOf(i, m, {"deleted"}) # {}
  BY DEF ClientsEndWithTheDatabase
<1>1. /\ Len(log) \in Nat /\ DOMAIN log = 1 .. Len(log)
      /\ \A k \in DOMAIN log : log[k][2] = m =>
           /\ log[k] \in Events /\ RowOf[log[k]] = "processed" /\ log[k][1] \in DOMAIN outbox
      /\ \A T : ToldOf(i, m, T) = {k \in DOMAIN log : log[k][2] = m /\ log[k][1] \in EventsOf(m, T)}
      /\ \A T : \A j \in EventsOf(m, T) :
           /\ <<j, m>> \in Events /\ RowOf[<<j, m>>] = "processed"
           /\ \E k \in DOMAIN log : log[k] = <<j, m>>
  BY Told
<1>2. PICK newest \in EventsOf(m, {"created", "edited"}) :
        row[m].text = Plain(newest) /\ \A k \in EventsOf(m, {"created", "edited"}) : k <= newest
  BY DEF AllAgree, Agrees
<1>2a. row[m].status = "deleted" <=> EventsOf(m, {"deleted"}) # {}
  BY DEF AllAgree, Agrees
<1>3. \A T : \A j \in EventsOf(m, T) : ToldOf(i, m, T) # {}
  <2>1. SUFFICES ASSUME NEW T, NEW j \in EventsOf(m, T) PROVE ToldOf(i, m, T) # {}
    OBVIOUS
  <2>2. PICK k \in DOMAIN log : log[k] = <<j, m>>
    BY <1>1
  <2>3. log[k][1] = j /\ log[k][2] = m
    BY <2>2
  <2>4. QED
    BY <1>1, <2>3
<1>4. row[m].status = "deleted" <=> ToldOf(i, m, {"deleted"}) # {}
  <2>1. ToldOf(i, m, {"deleted"}) # {} => EventsOf(m, {"deleted"}) # {}
    BY <1>1
  <2>2. QED
    BY <1>2a, <1>3, <2>1
<1> DEFINE T == {"created", "edited"}
           S == ToldOf(i, m, T)
<1>5. S \subseteq 1 .. Len(log) /\ S # {}
  BY <1>1, <1>2, <1>3
<1>6. PICK k \in S : \A l \in S : l <= k
  BY <1>1, <1>5, HasLast
<1>7. /\ k \in DOMAIN log /\ log[k][2] = m /\ log[k][1] \in EventsOf(m, T)
      /\ log[k] \in Events /\ RowOf[log[k]] = "processed"
  BY <1>1, <1>6
<1>8. ASSUME log[k][1] # newest PROVE FALSE
  <2>1. PICK x \in Events : x = <<newest, m>> /\ RowOf[x] = "processed" /\ x[1] = newest /\ x[2] = m
    BY <1>1, <1>2
  <2>2. log[k][1] < x[1]
    <3>1. log[k][1] <= newest /\ log[k][1] \in Nat /\ newest \in Nat
      BY <1>2, <1>7, <2>1, EventsAre
    <3>2. QED
      BY <1>8, <2>1, <3>1
  <2>3. Stamped(log[k]) /\ Stamped(x)
    BY <1>7, <2>1 DEF RowOf, StateOf
  <2>4. RankOf[log[k]] < RankOf[x] /\ MessageOf[log[k]] = MessageOf[x]
    BY <1>7, <2>1, <2>2, <2>3 DEF RankOf, MessageOf
  <2>5. Proved!Earlier(log[k], x) /\ log[k] \in Proved!Processed /\ x \in Proved!Processed
    BY <1>7, <2>1, <2>4 DEF Proved!Earlier, Proved!Committed, Proved!Processed
  <2>6. PICK j \in (k + 1) .. Len(log) : log[j] = x
    BY <1>7, <2>5 DEF Proved!NewestPublishedLast
  <2>7. j \in DOMAIN log /\ j > k
    BY <1>1, <1>7, <2>6
  <2>8. j \in S
    BY <1>1, <1>2, <2>1, <2>6, <2>7
  <2>9. j <= k /\ j \in Nat /\ k \in Nat
    BY <1>1, <1>6, <1>7, <2>7, <2>8
  <2>10. QED
    BY <2>7, <2>9
<1>9. Strip(Announced(log[k][1])) = row[m].text
  BY <1>1, <1>2, <1>7, <1>8, Stripped DEF SystemInv, TableInv, MT, TypeOK
<1>10. QED
  BY <1>4, <1>6, <1>9

\* With one worker, and no command executed after its connection was given up: the
\* clients of an instance that has caught up were told last of the text the database
\* holds (give or take the blanks an edit announces around it), and of a deletion
\* exactly if there was one, whatever requests overlapped, and whatever failed, was
\* sent again or restarted in between.
THEOREM ClientsFollowTheDatabase ==
  ASSUME NEW w, Instances = {w}, ~MayLinger
  PROVE  SystemSpec => []ClientsEndWithTheDatabase
<1>1. Proved!PipelineSpec => []Proved!NewestPublishedLast
  BY ComponentAssumptions, BoundsAssumption, SwitchesAssumption, Proved!PipelineLastInOrder
<1>2. SystemSpec => Proved!PipelineSpec
  BY ApplicationDelivers, SameComponent DEF DeliversAsSpecified
<1>3. SystemSpec => []AllAgree
  BY ApplicationIsLifecycle, RowsAgreeWithEvents
<1>4. SystemInv /\ AllAgree /\ Proved!NewestPublishedLast => ClientsEndWithTheDatabase
  BY EndsWithTheDatabase
<1>5. QED
  BY <1>1, <1>2, <1>3, <1>4, SystemInvariant, PTL
==============================================================================

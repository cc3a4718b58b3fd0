--------------------------- MODULE StreamListener ----------------------------
(***************************************************************************)
(* The stream side of an application instance.  At startup it creates a    *)
(* consumer group of its own, from the beginning of the stream             *)
(* (ensure_message_event_group, id="0"); start_redis_stream_listener then  *)
(* loops: XREADGROUP ">" moves a batch into the group's pending entries    *)
(* list, each entry is handed to the instance's local sockets and, only if *)
(* that raised nothing, acknowledged.  Nothing in the repository ever reads*)
(* the pending list again: no XAUTOCLAIM, no XREADGROUP from an explicit id*)
(***************************************************************************)
EXTENDS EventStream

CONSTANTS
  Listeners,      \* application instances, each with one listener task
  ReadCount,      \* COUNT of XREADGROUP (100 in the code)
  MayFail,        \* may handling, acknowledging or the read's reply fail?
  MayLoseRedis    \* may Redis restart, empty?

ASSUME ReadCountAssumption == ReadCount \in Nat \ {0}
ASSUME ListenerSwitches == MayFail \in BOOLEAN /\ MayLoseRedis \in BOOLEAN

VARIABLES
  lpc,       \* Listeners -> where the listener task is
  group,     \* Listeners -> does its consumer group exist in Redis?
  cursor,    \* Listeners -> the last entry delivered to the group
  pel,       \* Listeners -> the group's pending entries list
  batch,     \* Listeners -> entries read and not dealt with yet (in memory)
  handled    \* Listeners -> entries handed to local sockets since it started

listenerVars == <<lpc, group, cursor, pel, batch, handled>>

Entries == Nat \ {0}

ListenerTypeOK ==
  /\ lpc \in [Listeners -> {"down", "reading", "handling", "acking"}]
  /\ group \in [Listeners -> BOOLEAN]
  /\ cursor \in [Listeners -> Nat]
  /\ pel \in [Listeners -> SUBSET Entries]
  /\ batch \in [Listeners -> SUBSET Entries]
  /\ handled \in [Listeners -> SUBSET Entries]

ListenerInit ==
  /\ lpc = [i \in Listeners |-> "down"]
  /\ group = [i \in Listeners |-> FALSE]
  /\ cursor = [i \in Listeners |-> 0]
  /\ pel = [i \in Listeners |-> {}]
  /\ batch = [i \in Listeners |-> {}]
  /\ handled = [i \in Listeners |-> {}]

-----------------------------------------------------------------------------

\* MUTANT of StartListener: the group is created at "$", the stream's end.
StartListenerAtEnd(i) ==
  /\ lpc[i] = "down"
  /\ lpc' = [lpc EXCEPT ![i] = "reading"]
  /\ group' = [group EXCEPT ![i] = TRUE]
  /\ cursor' = [cursor EXCEPT ![i] = Len(log)]
  /\ pel' = [pel EXCEPT ![i] = {}]
  /\ batch' = [batch EXCEPT ![i] = {}]
  /\ handled' = [handled EXCEPT ![i] = {}]

\* A new process has a new instance_id, so a new group that starts at "0":
\* everything the stream still holds will be read (again).
StartListener(i) ==
  /\ lpc[i] = "down"
  /\ lpc' = [lpc EXCEPT ![i] = "reading"]
  /\ group' = [group EXCEPT ![i] = TRUE]
  /\ cursor' = [cursor EXCEPT ![i] = base]
  /\ pel' = [pel EXCEPT ![i] = {}]
  /\ batch' = [batch EXCEPT ![i] = {}]
  /\ handled' = [handled EXCEPT ![i] = {}]

\* The process is gone, and nobody will use its group again.
StopListener(i) ==
  /\ lpc[i] # "down"
  /\ lpc' = [lpc EXCEPT ![i] = "down"]
  /\ group' = [group EXCEPT ![i] = FALSE]
  /\ cursor' = [cursor EXCEPT ![i] = 0]
  /\ pel' = [pel EXCEPT ![i] = {}]
  /\ batch' = [batch EXCEPT ![i] = {}]
  /\ handled' = [handled EXCEPT ![i] = {}]

\* What XREADGROUP ">" delivers: the entries after the cursor, ReadCount at most.
LastOfRead(i) ==
  IF cursor[i] + ReadCount <= Len(log) THEN cursor[i] + ReadCount ELSE Len(log)
NewEntries(i) == (cursor[i] + 1)..LastOfRead(i)

\* MUTANT of Delivered: the read starts from the group's pending entries.
DeliveredFromStart(i) ==
  /\ lpc[i] = "reading"
  /\ group[i]
  /\ cursor[i] < Len(log)
  /\ cursor' = [cursor EXCEPT ![i] = LastOfRead(i)]
  /\ pel' = [pel EXCEPT ![i] = @ \cup NewEntries(i)]
  /\ batch' = [batch EXCEPT ![i] = pel[i] \cup NewEntries(i)]

\* MUTANT of Delivered: read with NOACK, nothing is pending.
DeliveredNoAck(i) ==
  /\ lpc[i] = "reading"
  /\ group[i]
  /\ cursor[i] < Len(log)
  /\ cursor' = [cursor EXCEPT ![i] = LastOfRead(i)]
  /\ batch' = [batch EXCEPT ![i] = NewEntries(i)]
  /\ UNCHANGED pel

\* The read succeeds.  (With nothing new it times out, and without the group
\* it raises NOGROUP and sleeps: the loop goes round with nothing changed.)
Delivered(i) ==
  /\ lpc[i] = "reading"
  /\ group[i]
  /\ cursor[i] < Len(log)
  /\ cursor' = [cursor EXCEPT ![i] = LastOfRead(i)]
  /\ pel' = [pel EXCEPT ![i] = @ \cup NewEntries(i)]
  /\ batch' = [batch EXCEPT ![i] = NewEntries(i)]

Read(i) ==
  /\ Delivered(i)
  /\ lpc' = [lpc EXCEPT ![i] = "handling"]
  /\ UNCHANGED <<group, handled, streamVars>>

\* Redis delivers the batch to the group but the reply is lost: the entries are
\* pending, the task never sees them, and its next read starts after them.
ReadReplyLost(i) ==
  /\ MayFail
  /\ lpc[i] = "reading"
  /\ group[i]
  /\ cursor[i] < Len(log)
  /\ cursor' = [cursor EXCEPT ![i] = LastOfRead(i)]
  /\ pel' = [pel EXCEPT ![i] = @ \cup NewEntries(i)]
  /\ UNCHANGED <<lpc, group, batch, handled, streamVars>>

IsNextEntry(i, k) == k \in batch[i] /\ \A l \in batch[i] : k <= l

\* The entry k is dealt with; the next one of the batch, if any, is taken up.
Done(i, k) ==
  /\ batch' = [batch EXCEPT ![i] = @ \ {k}]
  /\ lpc' = [lpc EXCEPT ![i] = IF batch[i] = {k} THEN "reading" ELSE "handling"]

\* handle_stream_message returns: every local member has been sent the entry.
Handle(i) ==
  /\ lpc[i] = "handling"
  /\ \E k \in batch[i] :
       /\ IsNextEntry(i, k)
       /\ handled' = [handled EXCEPT ![i] = @ \cup {k}]
  /\ lpc' = [lpc EXCEPT ![i] = "acking"]
  /\ UNCHANGED <<group, cursor, pel, batch, streamVars>>

\* MUTANT of HandleFails: XACK moved to a `finally`.
HandleFailsAcked(i) ==
  /\ MayFail
  /\ lpc[i] = "handling"
  /\ \E k \in batch[i] :
       /\ IsNextEntry(i, k)
       /\ pel' = [pel EXCEPT ![i] = @ \ {k}]
       /\ Done(i, k)
  /\ UNCHANGED <<group, cursor, handled, streamVars>>

\* It raises (an invalid payload, the local member set changing while it is
\* iterated...): the entry is left pending and the loop goes on.
HandleFails(i) ==
  /\ MayFail
  /\ lpc[i] = "handling"
  /\ \E k \in batch[i] : IsNextEntry(i, k) /\ Done(i, k)
  /\ UNCHANGED <<group, cursor, pel, handled, streamVars>>

Ack(i) ==
  /\ lpc[i] = "acking"
  /\ \E k \in batch[i] :
       /\ IsNextEntry(i, k)
       /\ pel' = [pel EXCEPT ![i] = @ \ {k}]
       /\ Done(i, k)
  /\ UNCHANGED <<group, cursor, handled, streamVars>>

\* XACK raises: caught like a handling failure.
AckFails(i) ==
  /\ MayFail
  /\ lpc[i] = "acking"
  /\ \E k \in batch[i] : IsNextEntry(i, k) /\ Done(i, k)
  /\ UNCHANGED <<group, cursor, pel, handled, streamVars>>

\* Redis restarts without its data: the stream and every group are gone, and
\* only a new process creates a group again.
LoseRedis ==
  /\ MayLoseRedis
  /\ LoseStream
  /\ group' = [i \in Listeners |-> FALSE]
  /\ pel' = [i \in Listeners |-> {}]
  /\ UNCHANGED <<lpc, cursor, batch, handled>>

ListenerRound(i) ==
  \/ Read(i) \/ ReadReplyLost(i)
  \/ Handle(i) \/ HandleFails(i)
  \/ Ack(i) \/ AckFails(i)

-----------------------------------------------------------------------------
(* The listener on its own, its stream written by an unspecified producer. *)

lvars == <<listenerVars, streamVars>>

ListenerSpecInit == StreamInit /\ ListenerInit

ListenerSpecNext ==
  \/ \E e \in Events : XAdd(e) /\ UNCHANGED listenerVars
  \/ \E i \in Listeners :
       \/ StartListener(i) /\ UNCHANGED streamVars
       \/ StopListener(i) /\ UNCHANGED streamVars
       \/ ListenerRound(i)
  \/ LoseRedis

ListenerSpec == ListenerSpecInit /\ [][ListenerSpecNext]_lvars

-----------------------------------------------------------------------------

\* An entry the group has moved past was handed to the local sockets or is
\* still pending: nothing is acknowledged unhandled, whatever fails in between.
NothingSkipped ==
  \A i \in Listeners : group[i] =>
    \A k \in (base + 1)..cursor[i] : k \in handled[i] \cup pel[i]

\* An instance hands entries to its sockets in stream order, each once: what is
\* still to be handled lies after everything handled since the process started.
HandledInOrderOnce ==
  \A i \in Listeners : \A k \in batch[i], h \in handled[i] :
    h < k \/ (lpc[i] = "acking" /\ IsNextEntry(i, k) /\ h = k)

\* What a task still holds in memory is pending in its group as long as the
\* group exists: a crash between the read and the acknowledgement leaves a trace.
InFlightIsPending ==
  \A i \in Listeners : group[i] => batch[i] \subseteq pel[i]

\* A copy of e was delivered to i's group, and i's task no longer holds it.
IsStranded(i, e) == \E k \in pel[i] \ batch[i] : log[k] = e

\* The comment "The message remains pending and can later be recovered with
\* XAUTOCLAIM" (stream_listner.py:67-68): an entry that a failure has left
\* pending does not stay so for as long as its instance runs.
PendingIsRecovered ==
  \A i \in Listeners, e \in Events : IsStranded(i, e) ~> ~IsStranded(i, e)
==============================================================================

-------------------------- MODULE MessageLifecycle ---------------------------
(***************************************************************************)
(* MessageService: creating, editing, deleting, forwarding and clearing    *)
(* messages of one conversation, by requests that run concurrently (one    *)
(* WebSocket task or HTTP handler each, of any instance).                  *)
(*                                                                         *)
(* A request first reads (the row as committed by then, and what it checks *)
(* about it), later flushes its change, which takes the row lock and stamps*)
(* its outbox event, and then commits, which shows change and event and    *)
(* releases the lock.  Other requests run between these steps: PostgreSQL  *)
(* is at READ COMMITTED, and nothing is read again under the lock.         *)
(***************************************************************************)
EXTENDS Naturals, Sequences, FiniteSets

CONSTANTS
  Requests,    \* concurrent requests
  Users,       \* members of the conversation
  Moderators,  \* those among them with the role ADMIN or OWNER
  Messages,    \* message ids
  ClientIds,   \* client_message_id values clients use for their retries
  None,        \* SQL NULL; no message, user or client id
  MaxEvents,   \* bound: outbox rows ever stamped
  MaxExpiries  \* bound: times a deduplication key runs out

ASSUME ModeratorsAreUsers == Moderators \subseteq Users
ASSUME LifecycleFinite == IsFiniteSet(Requests) /\ IsFiniteSet(Messages)
ASSUME NoneAssumption == None \notin Requests \cup Users \cup Messages \cup ClientIds

VARIABLES
  row,       \* Messages -> the committed row
  lock,      \* Messages -> the request holding its row lock, or None
  dedup,     \* keys client_msg:{user}:{client id} in Redis
  outbox,    \* outbox rows in created_at order, each open, committed or undone
  req,       \* Requests -> what the request is doing, and what it has read
  expiries   \* Users \X ClientIds -> times that key has run out

vars == <<row, lock, dedup, outbox, req, expiries>>

Keys == Users \X ClientIds

\* A text is named by the place of the outbox row that announces it, and has blanks
\* around it or has none.
Texts == [of : Nat, padded : BOOLEAN]

\* content.strip()
Strip(t) == [t EXCEPT !.padded = FALSE]

\* status "cleared" is a row that is gone (clear_chat deletes rows).
Rows == [status : {"absent", "live", "deleted", "cleared"},
         sender : Users \cup {None},
         text   : Texts,
         cid    : ClientIds \cup {None}]   \* client id it was created with (not stored)

AbsentRow == [status |-> "absent", sender |-> None,
              text |-> [of |-> 0, padded |-> FALSE], cid |-> None]

OutboxRows == [type : {"created", "edited", "deleted"},
               msg : Messages,
               padded : BOOLEAN,          \* of the text in its payload
               state : {"open", "committed", "undone"}]

Idle == [op |-> "idle", at |-> "-", user |-> None, cid |-> None, msg |-> None,
         rows |-> {}, event |-> 0]

RequestStates ==
  [op : {"idle", "create", "edit", "delete", "clear", "forward"},
   at : {"-", "read", "flushed"},
   user : Users \cup {None},
   cid : ClientIds \cup {None},
   msg : Messages \cup {None},
   rows : SUBSET Messages,           \* the rows clear_chat's DELETE sees
   event : Nat]

\* Every variable holds a value of its type, and a row lock is held only by a
\* request that has flushed and not yet ended.
TypeOK ==
  /\ row \in [Messages -> Rows]
  /\ lock \in [Messages -> Requests \cup {None}]
  /\ dedup \subseteq Keys
  /\ outbox \in Seq(OutboxRows)
  /\ req \in [Requests -> RequestStates]
  /\ expiries \in [Keys -> Nat]
  /\ \A m \in Messages : lock[m] # None => req[lock[m]].at = "flushed"

Init ==
  /\ row = [m \in Messages |-> AbsentRow]
  /\ lock = [m \in Messages |-> None]
  /\ dedup = {}
  /\ outbox = <<>>
  /\ req = [r \in Requests |-> Idle]
  /\ expiries = [k \in Keys |-> 0]

-----------------------------------------------------------------------------
(* Steps all operations share.                                             *)

Stamp(type, m, padded) ==
  /\ Len(outbox) < MaxEvents
  /\ outbox' = Append(outbox, [type |-> type, msg |-> m, padded |-> padded, state |-> "open"])

\* The text in the payload of the outbox row at place k.
Announced(k) == [of |-> k, padded |-> outbox[k].padded]

\* clear_chat has no event: its k is 0.
EndEvent(k, state) ==
  outbox' = [j \in DOMAIN outbox |->
               IF j = k THEN [outbox[j] EXCEPT !.state = state] ELSE outbox[j]]

Exists(m) == row[m].status \in {"live", "deleted"}

\* A request ends, successfully or not.
Return(r) == req' = [req EXCEPT ![r] = Idle]

\* An exception before the change is flushed: nothing to undo in PostgreSQL.
FailBeforeFlush(r) ==
  /\ req[r].at = "read"
  /\ Return(r)
  /\ UNCHANGED <<row, lock, dedup, outbox, expiries>>

\* MUTANT of Rollback: the session goes back to the pool with its transaction open.
RollbackLeaked(r) ==
  /\ req[r].at = "flushed"
  /\ EndEvent(req[r].event, "undone")
  /\ Return(r)
  /\ UNCHANGED <<row, lock, dedup, expiries>>

\* The commit fails, or the process dies: PostgreSQL undoes change and event.
Rollback(r) ==
  /\ req[r].at = "flushed"
  /\ EndEvent(req[r].event, "undone")
  /\ lock' = [m \in Messages |-> IF lock[m] = r THEN None ELSE lock[m]]
  /\ Return(r)
  /\ UNCHANGED <<row, dedup, expiries>>

-----------------------------------------------------------------------------
(* create_message                                                          *)

\* MUTANT of ReceiveCreate: GET, then SET without NX.
ReceiveCreateUnguarded(r, u, c) ==
  /\ req[r] = Idle
  /\ dedup' = IF c = None THEN dedup ELSE dedup \cup {<<u, c>>}
  /\ req' = [req EXCEPT ![r] = [Idle EXCEPT !.op = "create", !.at = "read",
                                            !.user = u, !.cid = c]]
  /\ UNCHANGED <<row, lock, outbox, expiries>>

\* SET client_msg:... NX EX 120, before anything else that can fail.  (With the
\* key already there the request reports success and does nothing: no step.)
ReceiveCreate(r, u, c) ==
  /\ req[r] = Idle
  /\ <<u, c>> \notin dedup
  /\ dedup' = IF c = None THEN dedup ELSE dedup \cup {<<u, c>>}
  /\ req' = [req EXCEPT ![r] = [Idle EXCEPT !.op = "create", !.at = "read",
                                            !.user = u, !.cid = c]]
  /\ UNCHANGED <<row, lock, outbox, expiries>>

\* The new row is flushed; nobody else can see or lock it before the commit.  What
\* it stores and announces was stripped first (a forward copies what is stored).
FlushCreate(r) ==
  /\ req[r].op \in {"create", "forward"}
  /\ req[r].at = "read"
  /\ \E m \in Messages :
       /\ row[m].status = "absent"
       /\ lock[m] = None
       /\ lock' = [lock EXCEPT ![m] = r]
       /\ Stamp("created", m, FALSE)
       /\ req' = [req EXCEPT ![r].at = "flushed", ![r].msg = m, ![r].event = Len(outbox) + 1]
  /\ UNCHANGED <<row, dedup, expiries>>

CommitCreate(r) ==
  /\ req[r].op \in {"create", "forward"}
  /\ req[r].at = "flushed"
  /\ row' = [row EXCEPT ![req[r].msg] =
               [status |-> "live", sender |-> req[r].user, text |-> Announced(req[r].event),
                cid |-> req[r].cid]]
  /\ EndEvent(req[r].event, "committed")
  /\ lock' = [lock EXCEPT ![req[r].msg] = None]
  /\ Return(r)
  /\ UNCHANGED <<dedup, expiries>>

\* EX 120: keys run out, each in its time; a Redis that restarts has lost all.
Expire(gone) ==
  /\ gone \subseteq dedup
  /\ \A k \in gone : expiries[k] < MaxExpiries
  /\ dedup' = dedup \ gone
  /\ expiries' = [k \in Keys |-> expiries[k] + IF k \in gone THEN 1 ELSE 0]
  /\ UNCHANGED <<row, lock, outbox, req>>

-----------------------------------------------------------------------------
(* bulk_forward_messages, one message to one conversation.  It does not ask*)
(* whether the message it copies is deleted.                               *)

ReadForward(r, u, m) ==
  /\ req[r] = Idle
  /\ Exists(m)
  /\ req' = [req EXCEPT ![r] = [Idle EXCEPT !.op = "forward", !.at = "read",
                                            !.user = u]]
  /\ UNCHANGED <<row, lock, dedup, outbox, expiries>>

-----------------------------------------------------------------------------
(* edit_message                                                            *)

\* Only the sender, and only while the message is not deleted, as of now.
ReadEdit(r, u, m) ==
  /\ req[r] = Idle
  /\ row[m].status = "live"
  /\ row[m].sender = u
  /\ req' = [req EXCEPT ![r] = [Idle EXCEPT !.op = "edit", !.at = "read", !.msg = m]]
  /\ UNCHANGED <<row, lock, dedup, outbox, expiries>>

\* MUTANT of FlushUpdate: the event is stamped before the row lock is taken.
FlushUpdateUnlocked(r, op, type, padded) ==
  /\ req[r].op = op
  /\ req[r].at = "read"
  /\ Exists(req[r].msg)
  /\ Stamp(type, req[r].msg, padded)
  /\ req' = [req EXCEPT ![r].at = "flushed", ![r].event = Len(outbox) + 1]
  /\ UNCHANGED <<row, lock, dedup, expiries>>

\* flush(): the UPDATE waits for the row lock; with the row still there (else
\* it raises: FailBeforeFlush), the event is added and stamped.
FlushUpdate(r, op, type, padded) ==
  /\ req[r].op = op
  /\ req[r].at = "read"
  /\ lock[req[r].msg] = None
  /\ Exists(req[r].msg)
  /\ lock' = [lock EXCEPT ![req[r].msg] = r]
  /\ Stamp(type, req[r].msg, padded)
  /\ req' = [req EXCEPT ![r].at = "flushed", ![r].event = Len(outbox) + 1]
  /\ UNCHANGED <<row, dedup, expiries>>

\* The event is given the content of the request as it came.
FlushEdit(r) == \E padded \in BOOLEAN : FlushUpdate(r, "edit", "edited", padded)

\* MUTANT of EditedRow: the UPDATE writes every column, as they were read.
EditedRowWhole(old, content) == [old EXCEPT !.text = Strip(content), !.status = "live"]

\* The UPDATE sets the columns that changed only: message, to content.strip(), and
\* edited_at.
EditedRow(old, content) == [old EXCEPT !.text = Strip(content)]

CommitEdit(r) ==
  /\ req[r].op = "edit"
  /\ req[r].at = "flushed"
  /\ row' = [row EXCEPT ![req[r].msg] = EditedRow(@, Announced(req[r].event))]
  /\ EndEvent(req[r].event, "committed")
  /\ lock' = [lock EXCEPT ![req[r].msg] = None]
  /\ Return(r)
  /\ UNCHANGED <<dedup, expiries>>

-----------------------------------------------------------------------------
(* message_deleted_for_everyone                                            *)

\* The sender or a moderator, while the message is not deleted, as of now.
ReadDelete(r, u, m) ==
  /\ req[r] = Idle
  /\ row[m].status = "live"
  /\ row[m].sender = u \/ u \in Moderators
  /\ req' = [req EXCEPT ![r] = [Idle EXCEPT !.op = "delete", !.at = "read", !.msg = m]]
  /\ UNCHANGED <<row, lock, dedup, outbox, expiries>>

FlushDelete(r) == FlushUpdate(r, "delete", "deleted", FALSE)

\* MUTANT of CommitDelete: the event is left out of the transaction.
CommitDeleteSilently(r) ==
  /\ req[r].op = "delete"
  /\ req[r].at = "flushed"
  /\ row' = [row EXCEPT ![req[r].msg].status = "deleted"]
  /\ EndEvent(req[r].event, "undone")
  /\ lock' = [lock EXCEPT ![req[r].msg] = None]
  /\ Return(r)
  /\ UNCHANGED <<dedup, expiries>>

CommitDelete(r) ==
  /\ req[r].op = "delete"
  /\ req[r].at = "flushed"
  /\ row' = [row EXCEPT ![req[r].msg].status = "deleted"]
  /\ EndEvent(req[r].event, "committed")
  /\ lock' = [lock EXCEPT ![req[r].msg] = None]
  /\ Return(r)
  /\ UNCHANGED <<dedup, expiries>>

-----------------------------------------------------------------------------
(* clear_chat deletes the conversation's rows, without an event.          *)

\* DELETE FROM messages sees the rows committed when it starts.
StartClear(r) ==
  /\ req[r] = Idle
  /\ req' = [req EXCEPT ![r] = [Idle EXCEPT !.op = "clear", !.at = "read",
                                            !.rows = {m \in Messages : Exists(m)}]]
  /\ UNCHANGED <<row, lock, dedup, outbox, expiries>>

\* It waits for the lock of each, and skips one that has gone meanwhile.
FlushClear(r) ==
  /\ req[r].op = "clear"
  /\ req[r].at = "read"
  /\ \A m \in req[r].rows : lock[m] = None
  /\ lock' = [m \in Messages |-> IF m \in req[r].rows /\ Exists(m) THEN r ELSE lock[m]]
  /\ req' = [req EXCEPT ![r].at = "flushed"]
  /\ UNCHANGED <<row, dedup, outbox, expiries>>

CommitClear(r) ==
  /\ req[r].op = "clear"
  /\ req[r].at = "flushed"
  /\ row' = [m \in Messages |->
               IF lock[m] = r THEN [AbsentRow EXCEPT !.status = "cleared"] ELSE row[m]]
  /\ lock' = [m \in Messages |-> IF lock[m] = r THEN None ELSE lock[m]]
  /\ Return(r)
  /\ UNCHANGED <<dedup, outbox, expiries>>

-----------------------------------------------------------------------------

Receive(r) ==
  \E u \in Users :
    \/ \E c \in ClientIds \cup {None} : ReceiveCreate(r, u, c)
    \/ \E m \in Messages : ReadForward(r, u, m) \/ ReadEdit(r, u, m) \/ ReadDelete(r, u, m)

Flush(r) == FlushCreate(r) \/ FlushEdit(r) \/ FlushDelete(r) \/ FlushClear(r)

Commit(r) == CommitCreate(r) \/ CommitEdit(r) \/ CommitDelete(r) \/ CommitClear(r)

Next ==
  \/ \E r \in Requests :
       \/ Receive(r) \/ StartClear(r) \/ Flush(r) \/ Commit(r)
       \/ FailBeforeFlush(r) \/ Rollback(r)
  \/ \E gone \in SUBSET Keys : Expire(gone)

Spec == Init /\ [][Next]_vars

-----------------------------------------------------------------------------
(* What the service promises.                                              *)

\* The committed events about m, as places in the outbox.
EventsOf(m, types) ==
  {k \in DOMAIN outbox : /\ outbox[k].msg = m
                         /\ outbox[k].state = "committed"
                         /\ outbox[k].type \in types}

\* A message deleted for everyone never comes back: an edit whose check passed
\* before the deletion committed writes the text only.
DeletedStaysDeleted ==
  [][\A m \in Messages :
       row[m].status = "deleted" => row'[m].status \in {"deleted", "cleared"}]_vars

\* The text in the database is the one the message's newest created or edited
\* event announces, newest by created_at, the order the outbox worker reads, but
\* for blanks around it: edit_message announces those and does not store them.
\* However edits overlap, clients are told last of the text that was written last.
LastEventHasTheText ==
  \A m \in Messages : Exists(m) =>
    \E k \in EventsOf(m, {"created", "edited"}) :
      /\ row[m].text = Strip(Announced(k))
      /\ \A j \in EventsOf(m, {"created", "edited"}) : j <= k

\* Clients can trust the outbox: a message in the database was announced, it is
\* deleted exactly if its deletion was, and it was announced before anything
\* else was said about it.
OutboxTellsDatabase ==
  \A m \in Messages :
    /\ Exists(m) =>
         /\ EventsOf(m, {"created"}) # {}
         /\ row[m].status = "deleted" <=> EventsOf(m, {"deleted"}) # {}
    /\ \A k \in EventsOf(m, {"edited", "deleted"}) :
         \E j \in EventsOf(m, {"created"}) : j < k

\* A client's retries (a resend after a lost reply, two tabs, two instances)
\* store its message once, unless the key had run out in between.
StoredOncePerClientId ==
  \A k \in Keys :
    Cardinality({m \in Messages : row[m].sender = k[1] /\ row[m].cid = k[2]})
      <= 1 + expiries[k]
==============================================================================

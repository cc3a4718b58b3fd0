---------------------- MODULE MessageLifecycle_proofs ----------------------
(***************************************************************************)
(* Theorems about MessageLifecycle, for any requests, users, messages and  *)
(* client ids, and any number of events.                                   *)
(***************************************************************************)
EXTENDS MessageLifecycle, FiniteSetTheorems, TLAPS

-----------------------------------------------------------------------------
(* The outbox.  The committed events about a message change only when an   *)
(* event is committed.                                                     *)

LEMMA Stamping ==
  ASSUME outbox \in Seq(OutboxRows), NEW m \in Messages,
         NEW type \in {"created", "edited", "deleted"}, NEW p \in BOOLEAN, Stamp(type, m, p)
  PROVE  /\ outbox' \in Seq(OutboxRows) /\ Len(outbox') = Len(outbox) + 1
         /\ \A j \in DOMAIN outbox : outbox'[j] = outbox[j]
         /\ outbox'[Len(outbox) + 1] = [type |-> type, msg |-> m, padded |-> p, state |-> "open"]
         /\ DOMAIN outbox = 1 .. Len(outbox) /\ DOMAIN outbox' = 1 .. Len(outbox) + 1
<1> DEFINE e == [type |-> type, msg |-> m, padded |-> p, state |-> "open"]
<1>1. outbox' = Append(outbox, e) /\ e \in OutboxRows
  BY DEF Stamp, OutboxRows
<1> HIDE DEF e
<1>2. QED
  BY <1>1 DEF e

LEMMA Ending ==
  ASSUME outbox \in Seq(OutboxRows), NEW k \in Nat, NEW state \in {"committed", "undone"},
         EndEvent(k, state)
  PROVE  /\ outbox' \in Seq(OutboxRows) /\ DOMAIN outbox' = DOMAIN outbox
         /\ \A j \in DOMAIN outbox :
              /\ outbox'[j].msg = outbox[j].msg /\ outbox'[j].type = outbox[j].type
              /\ outbox'[j].padded = outbox[j].padded
              /\ j # k => outbox'[j] = outbox[j]
              /\ j = k => outbox'[j].state = state
<1> DEFINE n == Len(outbox)
<1>1. n \in Nat /\ DOMAIN outbox = 1 .. n /\ \A j \in 1 .. n : outbox[j] \in OutboxRows
  OBVIOUS
<1>2. outbox' = [j \in 1 .. n |-> IF j = k THEN [outbox[j] EXCEPT !.state = state] ELSE outbox[j]]
  BY <1>1 DEF EndEvent
<1>3. ASSUME NEW j \in 1 .. n
      PROVE  /\ outbox'[j] \in OutboxRows
             /\ outbox'[j].msg = outbox[j].msg /\ outbox'[j].type = outbox[j].type
             /\ outbox'[j].padded = outbox[j].padded
             /\ j # k => outbox'[j] = outbox[j]
             /\ j = k => outbox'[j].state = state
  <2>1. PICK o \in OutboxRows : o = outbox[j]
    BY <1>1
  <2> DEFINE c == [o EXCEPT !.state = state]
  <2>2. c \in OutboxRows /\ c.msg = o.msg /\ c.type = o.type /\ c.padded = o.padded
        /\ c.state = state
    BY DEF OutboxRows
  <2>3. outbox'[j] = IF j = k THEN c ELSE o
    BY <1>2, <2>1
  <2> HIDE DEF c
  <2>4. QED
    BY <2>1, <2>2, <2>3
<1> HIDE DEF n
<1>4. outbox' \in [1 .. n -> OutboxRows]
  BY <1>2, <1>3
<1>5. outbox' \in Seq(OutboxRows)
  BY <1>1, <1>4
<1>6. QED
  BY <1>1, <1>2, <1>3, <1>5

Types == {"created", "edited", "deleted"}

LEMMA StampedEvents ==
  ASSUME outbox \in Seq(OutboxRows), NEW m \in Messages, NEW type \in Types,
         NEW p \in BOOLEAN, Stamp(type, m, p)
  PROVE  \A v, T : EventsOf(v, T)' = EventsOf(v, T)
<1> DEFINE n == Len(outbox) + 1
<1>1. type \in {"created", "edited", "deleted"} /\ Len(outbox) \in Nat
  BY DEF Types
<1>2. /\ \A j \in DOMAIN outbox : outbox'[j] = outbox[j]
      /\ outbox'[n] = [type |-> type, msg |-> m, padded |-> p, state |-> "open"]
      /\ DOMAIN outbox = 1 .. Len(outbox) /\ DOMAIN outbox' = 1 .. n
  BY <1>1, Stamping
<1>3. outbox'[n].state = "open"
  BY <1>2
<1>4. n \notin DOMAIN outbox /\ DOMAIN outbox' = DOMAIN outbox \cup {n}
  BY <1>1, <1>2
<1> HIDE DEF n
<1>5. QED
  BY <1>2, <1>3, <1>4 DEF EventsOf

LEMMA UndoneEvents ==
  ASSUME outbox \in Seq(OutboxRows), NEW k \in Nat, EndEvent(k, "undone"),
         k \in DOMAIN outbox => outbox[k].state = "open"
  PROVE  \A v, T : EventsOf(v, T)' = EventsOf(v, T)
<1>1. /\ DOMAIN outbox' = DOMAIN outbox
      /\ \A j \in DOMAIN outbox :
           /\ outbox'[j].msg = outbox[j].msg /\ outbox'[j].type = outbox[j].type
           /\ j # k => outbox'[j] = outbox[j]
           /\ j = k => outbox'[j].state = "undone"
  BY Ending
<1>2. \A j \in DOMAIN outbox : outbox'[j].state = "committed" <=> outbox[j].state = "committed"
  BY <1>1
<1>3. QED
  BY <1>1, <1>2 DEF EventsOf

LEMMA CommittedEvents ==
  ASSUME outbox \in Seq(OutboxRows), NEW k \in DOMAIN outbox, EndEvent(k, "committed")
  PROVE  \A v, T : EventsOf(v, T)' = EventsOf(v, T) \cup
                     {j \in {k} : outbox[k].msg = v /\ outbox[k].type \in T}
<1>1. k \in Nat
  OBVIOUS
<1>2. QED
  BY <1>1, Ending DEF EventsOf

-----------------------------------------------------------------------------
(* Locks.  Of a message, one change at a time is flushed and not committed *)
(* and its event is the newest of the message.                             *)

Changing == {"create", "forward", "edit", "delete"}

TypeOf(op) ==
  IF op \in {"create", "forward"} THEN "created" ELSE IF op = "edit" THEN "edited" ELSE "deleted"

\* o is the row of a change of m; only an edit announces what it does not store.
OpenRow(o, op, m) ==
  /\ o.type = TypeOf(op) /\ o.msg = m /\ o.state = "open"
  /\ op # "edit" => o.padded = FALSE

Flushed(r) == req[r].at = "flushed" /\ req[r].op \in Changing

Newest(k, m) == \A j \in DOMAIN outbox : outbox[j].msg = m => j <= k

ReqOK(r) ==
  /\ req[r].op = "clear" => req[r].event = 0
  /\ req[r].op \in {"edit", "delete"} => req[r].msg \in Messages
  /\ req[r].at = "flushed" => req[r].op \in Changing \cup {"clear"}
  /\ Flushed(r) =>
       /\ req[r].msg \in Messages /\ lock[req[r].msg] = r
       /\ req[r].event \in DOMAIN outbox
       /\ OpenRow(outbox[req[r].event], req[r].op, req[r].msg)
       /\ Newest(req[r].event, req[r].msg)
       /\ IF req[r].op \in {"create", "forward"} THEN row[req[r].msg].status = "absent"
          ELSE Exists(req[r].msg)

LockOK(m) ==
  lock[m] # None => /\ req[lock[m]].at = "flushed"
                    /\ Flushed(lock[m]) => req[lock[m]].msg = m

MT == TypeOK /\ (\A r \in Requests : ReqOK(r)) /\ (\A m \in Messages : LockOK(m))

LEMMA IdleTyped ==
  /\ Idle \in RequestStates /\ Idle.op = "idle" /\ Idle.at = "-" /\ Idle.event = 0
  /\ Idle.msg = None /\ Idle.cid = None
BY DEF Idle, RequestStates

\* A request that reads, or fails before it has changed anything.
Reading(r) == Receive(r) \/ StartClear(r) \/ FailBeforeFlush(r)

LEMMA ReadingFacts ==
  ASSUME TypeOK, NEW r \in Requests, Reading(r)
  PROVE  /\ \E k \in RequestStates :
              /\ req' = [req EXCEPT ![r] = k] /\ k.at \in {"-", "read"}
              /\ k.op = "clear" => k.event = 0
              /\ k.op \in {"edit", "delete"} => k.msg \in Messages
         /\ req[r].at # "flushed"
         /\ dedup' \subseteq Keys /\ UNCHANGED <<row, lock, outbox, expiries>>
<1>1. CASE FailBeforeFlush(r)
  BY <1>1, IdleTyped DEF FailBeforeFlush, Return, TypeOK
<1>2. CASE StartClear(r)
  <2> DEFINE k == [Idle EXCEPT !.op = "clear", !.at = "read", !.rows = {m \in Messages : Exists(m)}]
  <2>1. k \in RequestStates /\ k.at = "read" /\ k.op = "clear" /\ k.event = 0
    BY DEF Idle, RequestStates
  <2>2. req' = [req EXCEPT ![r] = k] /\ req[r] = Idle /\ UNCHANGED <<row, lock, dedup, outbox, expiries>>
    BY <1>2 DEF StartClear
  <2> HIDE DEF k
  <2>3. QED
    BY <2>1, <2>2, IdleTyped DEF TypeOK
<1>3. CASE Receive(r)
  <2>1. PICK u \in Users :
          \/ \E c \in ClientIds \cup {None} : ReceiveCreate(r, u, c)
          \/ \E m \in Messages : ReadForward(r, u, m) \/ ReadEdit(r, u, m) \/ ReadDelete(r, u, m)
    BY <1>3 DEF Receive
  <2>2. CASE \E c \in ClientIds \cup {None} : ReceiveCreate(r, u, c)
    <3>1. PICK c \in ClientIds \cup {None} : ReceiveCreate(r, u, c)
      BY <2>2
    <3> DEFINE k == [Idle EXCEPT !.op = "create", !.at = "read", !.user = u, !.cid = c]
    <3>2. k \in RequestStates /\ k.at = "read" /\ k.op = "create"
      BY DEF Idle, RequestStates
    <3>3. /\ req' = [req EXCEPT ![r] = k] /\ req[r] = Idle /\ UNCHANGED <<row, lock, outbox, expiries>>
          /\ dedup' = IF c = None THEN dedup ELSE dedup \cup {<<u, c>>}
      BY <3>1 DEF ReceiveCreate
    <3>4. dedup' \subseteq Keys
      BY <3>3 DEF TypeOK, Keys
    <3> HIDE DEF k
    <3>5. QED
      BY <3>2, <3>3, <3>4, IdleTyped
  <2>3. CASE \E m \in Messages : ReadForward(r, u, m)
    <3> DEFINE k == [Idle EXCEPT !.op = "forward", !.at = "read", !.user = u]
    <3>1. k \in RequestStates /\ k.at = "read" /\ k.op = "forward"
      BY DEF Idle, RequestStates
    <3>2. req' = [req EXCEPT ![r] = k] /\ req[r] = Idle /\ UNCHANGED <<row, lock, dedup, outbox, expiries>>
      BY <2>3 DEF ReadForward
    <3> HIDE DEF k
    <3>3. QED
      BY <3>1, <3>2, IdleTyped DEF TypeOK
  <2>4. ASSUME NEW m \in Messages, NEW op \in {"edit", "delete"}, req[r] = Idle,
               req' = [req EXCEPT ![r] = [Idle EXCEPT !.op = op, !.at = "read", !.msg = m]],
               UNCHANGED <<row, lock, dedup, outbox, expiries>>
        PROVE  /\ \E k \in RequestStates :
                    /\ req' = [req EXCEPT ![r] = k] /\ k.at \in {"-", "read"}
                    /\ k.op = "clear" => k.event = 0
                    /\ k.op \in {"edit", "delete"} => k.msg \in Messages
               /\ req[r].at # "flushed" /\ dedup' \subseteq Keys
    <3> DEFINE k == [Idle EXCEPT !.op = op, !.at = "read", !.msg = m]
    <3>1. k \in RequestStates /\ k.at = "read" /\ k.op = op /\ k.msg = m
      BY DEF Idle, RequestStates
    <3>2. req' = [req EXCEPT ![r] = k] /\ dedup' = dedup
      BY <2>4
    <3> HIDE DEF k
    <3>3. QED
      BY <2>4, <3>1, <3>2, IdleTyped DEF TypeOK
  <2>5. CASE \E m \in Messages : ReadEdit(r, u, m) \/ ReadDelete(r, u, m)
    <3>1. PICK m \in Messages, op \in {"edit", "delete"} :
            /\ req[r] = Idle
            /\ req' = [req EXCEPT ![r] = [Idle EXCEPT !.op = op, !.at = "read", !.msg = m]]
            /\ UNCHANGED <<row, lock, dedup, outbox, expiries>>
      BY <2>5 DEF ReadEdit, ReadDelete
    <3>2. QED
      BY <2>4, <3>1
  <2>6. QED
    BY <2>1, <2>2, <2>3, <2>5
<1>4. QED
  BY <1>1, <1>2, <1>3 DEF Reading

\* r, of kind op, takes the row of m and stamps its event; k is r then.
Takes(r, m, k) ==
  /\ lock[m] = None /\ lock' = [lock EXCEPT ![m] = r]
  /\ \E p \in BOOLEAN : Stamp(TypeOf(k.op), m, p) /\ (k.op # "edit" => p = FALSE)
  /\ req[r].at = "read" /\ req' = [req EXCEPT ![r] = k]
  /\ k.op = req[r].op /\ k.op \in Changing
  /\ k.at = "flushed" /\ k.msg = m /\ k.event = Len(outbox) + 1
  /\ k.user = req[r].user /\ k.cid = req[r].cid
  /\ IF k.op \in {"create", "forward"} THEN row[m].status = "absent" ELSE Exists(m)
  /\ UNCHANGED <<row, dedup, expiries>>

LEMMA FlushTakes ==
  ASSUME MT, NEW r \in Requests, FlushCreate(r) \/ FlushEdit(r) \/ FlushDelete(r)
  PROVE  \E m \in Messages, k \in RequestStates : Takes(r, m, k)
<1>1. PICK q \in RequestStates : q = req[r]
  BY DEF MT, TypeOK
<1>2. Len(outbox) + 1 \in Nat
  BY DEF MT, TypeOK
<1>3. CASE FlushCreate(r)
  <2>1. PICK m \in Messages :
          /\ row[m].status = "absent" /\ lock[m] = None /\ lock' = [lock EXCEPT ![m] = r]
          /\ Stamp("created", m, FALSE)
          /\ req' = [req EXCEPT ![r].at = "flushed", ![r].msg = m, ![r].event = Len(outbox) + 1]
    BY <1>3 DEF FlushCreate
  <2> DEFINE k == [q EXCEPT !.at = "flushed", !.msg = m, !.event = Len(outbox) + 1]
  <2>2. q.op \in {"create", "forward"} /\ q.at = "read" /\ UNCHANGED <<row, dedup, expiries>>
    BY <1>1, <1>3 DEF FlushCreate
  <2>3. req' = [req EXCEPT ![r] = k]
    BY <1>1, <2>1
  <2>4. /\ k \in RequestStates /\ k.op = q.op /\ k.at = "flushed" /\ k.msg = m
        /\ k.event = Len(outbox) + 1 /\ k.user = q.user /\ k.cid = q.cid
    BY <1>2 DEF RequestStates
  <2> HIDE DEF k
  <2>5. TypeOf(k.op) = "created"
    BY <2>2, <2>4 DEF TypeOf
  <2>6. Takes(r, m, k)
    BY <1>1, <2>1, <2>2, <2>3, <2>4, <2>5 DEF Takes, Changing
  <2>7. QED
    BY <2>4, <2>6
<1>4. CASE FlushEdit(r) \/ FlushDelete(r)
  <2>1. PICK op \in {"edit", "delete"}, p \in BOOLEAN :
          FlushUpdate(r, op, TypeOf(op), p) /\ (op # "edit" => p = FALSE)
    BY <1>4 DEF FlushEdit, FlushDelete, TypeOf
  <2> DEFINE m == q.msg
             k == [q EXCEPT !.at = "flushed", !.event = Len(outbox) + 1]
  <2>2. /\ q.op = op /\ q.at = "read" /\ lock[m] = None /\ Exists(m)
        /\ lock' = [lock EXCEPT ![m] = r] /\ Stamp(TypeOf(op), m, p)
        /\ req' = [req EXCEPT ![r].at = "flushed", ![r].event = Len(outbox) + 1]
        /\ UNCHANGED <<row, dedup, expiries>>
    BY <1>1, <2>1 DEF FlushUpdate
  <2>3. req' = [req EXCEPT ![r] = k]
    BY <1>1, <2>2
  <2>4. m \in Messages
    BY <1>1, <2>2 DEF MT, ReqOK
  <2>5. /\ k \in RequestStates /\ k.op = q.op /\ k.at = "flushed" /\ k.msg = m
        /\ k.event = Len(outbox) + 1 /\ k.user = q.user /\ k.cid = q.cid
    BY <1>2 DEF RequestStates
  <2> HIDE DEF k, m
  <2>6. Takes(r, m, k)
    BY <1>1, <2>1, <2>2, <2>3, <2>5 DEF Takes, Changing
  <2>7. QED
    BY <2>4, <2>5, <2>6
<1>5. QED
  BY <1>3, <1>4

\* The text announced at place k, stripped.
Plain(k) == [of |-> k, padded |-> FALSE]

LEMMA Stripped ==
  ASSUME NEW k \in DOMAIN outbox, outbox \in Seq(OutboxRows)
  PROVE  Strip(Announced(k)) = Plain(k)
<1>1. PICK o \in OutboxRows : o = outbox[k]
  OBVIOUS
<1>2. k \in Nat /\ o.padded \in BOOLEAN
  BY DEF OutboxRows
<1> DEFINE t == [of |-> k, padded |-> o.padded]
           c == Strip(t)
<1>3. t \in Texts /\ t.of = k /\ Announced(k) = t
  BY <1>1, <1>2 DEF Announced, Texts
<1> HIDE DEF t
<1>4. c \in Texts /\ c.of = t.of /\ c.padded = FALSE
  BY <1>3 DEF Strip, Texts
<1> HIDE DEF c
<1>5. c = [of |-> k, padded |-> FALSE]
  BY <1>3, <1>4 DEF Texts
<1>6. QED
  BY <1>3, <1>5 DEF Plain, c

\* What a change writes.
NewRow(r, old) ==
  IF req[r].op \in {"create", "forward"}
  THEN [status |-> "live", sender |-> req[r].user, text |-> Plain(req[r].event),
        cid |-> req[r].cid]
  ELSE IF req[r].op = "edit" THEN [old EXCEPT !.text = Plain(req[r].event)]
  ELSE [old EXCEPT !.status = "deleted"]

\* r gives the row of its message back, with its change or without.
Gives(r, state) ==
  /\ Flushed(r)
  /\ row' = IF state = "undone" THEN row
            ELSE [row EXCEPT ![req[r].msg] = NewRow(r, row[req[r].msg])]
  /\ EndEvent(req[r].event, state)
  /\ lock' = [lock EXCEPT ![req[r].msg] = None]
  /\ Return(r)
  /\ UNCHANGED <<dedup, expiries>>

LEMMA CommitGives ==
  ASSUME MT, NEW r \in Requests, CommitCreate(r) \/ CommitEdit(r) \/ CommitDelete(r)
  PROVE  Gives(r, "committed")
<1>1. Flushed(r)
  BY DEF CommitCreate, CommitEdit, CommitDelete, Flushed, Changing
<1>2. /\ EndEvent(req[r].event, "committed") /\ lock' = [lock EXCEPT ![req[r].msg] = None]
      /\ Return(r) /\ UNCHANGED <<dedup, expiries>>
  BY DEF CommitCreate, CommitEdit, CommitDelete
<1>3. row' = [row EXCEPT ![req[r].msg] = NewRow(r, row[req[r].msg])]
  <2>1. CASE CommitCreate(r)
    <3>1. OpenRow(outbox[req[r].event], req[r].op, req[r].msg) /\ req[r].op # "edit"
      BY <1>1, <2>1 DEF MT, ReqOK, CommitCreate
    <3>2. Announced(req[r].event) = Plain(req[r].event)
      BY <3>1 DEF OpenRow, Announced, Plain
    <3>3. QED
      BY <2>1, <3>2 DEF CommitCreate, NewRow
  <2>2. CASE CommitEdit(r)
    <3>1. NewRow(r, row[req[r].msg]) = [row[req[r].msg] EXCEPT !.text = Plain(req[r].event)]
      BY <2>2 DEF CommitEdit, NewRow
    <3>2. row' = [row EXCEPT ![req[r].msg] = EditedRow(row[req[r].msg], Announced(req[r].event))]
      BY <2>2 DEF CommitEdit
    <3>3. QED
      BY <1>1, <3>1, <3>2, Stripped DEF EditedRow, MT, TypeOK, ReqOK
  <2>3. CASE CommitDelete(r)
    <3>1. NewRow(r, row[req[r].msg]) = [row[req[r].msg] EXCEPT !.status = "deleted"]
      BY <2>3 DEF CommitDelete, NewRow
    <3>2. row' = [row EXCEPT ![req[r].msg] = [row[req[r].msg] EXCEPT !.status = "deleted"]]
      BY <2>3 DEF CommitDelete
    <3>3. QED
      BY <3>1, <3>2
  <2>4. QED
    BY <2>1, <2>2, <2>3
<1>4. QED
  BY <1>1, <1>2, <1>3 DEF Gives

LEMMA RollbackGives ==
  ASSUME MT, NEW r \in Requests, Rollback(r)
  PROVE  \/ Gives(r, "undone")
         \/ /\ req[r].op = "clear" /\ UNCHANGED <<row, dedup, expiries>>
            /\ outbox' = outbox /\ Return(r)
            /\ lock' = [m \in Messages |-> IF lock[m] = r THEN None ELSE lock[m]]
<1>1. /\ req[r].at = "flushed" /\ EndEvent(req[r].event, "undone") /\ Return(r)
      /\ lock' = [m \in Messages |-> IF lock[m] = r THEN None ELSE lock[m]]
      /\ UNCHANGED <<row, dedup, expiries>>
  BY DEF Rollback
<1>2. /\ outbox \in Seq(OutboxRows) /\ lock \in [Messages -> Requests \cup {None}]
      /\ ReqOK(r) /\ \A m \in Messages : LockOK(m)
  BY DEF MT, TypeOK
<1>3. CASE req[r].op = "clear"
  <2>1. req[r].event = 0
    BY <1>2, <1>3 DEF ReqOK
  <2>2. /\ DOMAIN outbox = 1 .. Len(outbox)
        /\ outbox = [j \in DOMAIN outbox |-> outbox[j]]
    BY <1>2
  <2>3. outbox' = outbox
    BY <1>1, <2>1, <2>2 DEF EndEvent
  <2>4. QED
    BY <1>1, <1>3, <2>3
<1>4. CASE req[r].op # "clear"
  <2>1. Flushed(r)
    BY <1>1, <1>2, <1>4 DEF ReqOK, Flushed
  <2>2. \A m \in Messages : lock[m] = r <=> m = req[r].msg
    BY <1>2, <2>1, NoneAssumption DEF ReqOK, LockOK
  <2>3. lock' = [lock EXCEPT ![req[r].msg] = None]
    BY <1>1, <1>2, <2>2
  <2>4. QED
    BY <1>1, <2>1, <2>3 DEF Gives
<1>5. QED
  BY <1>3, <1>4

\* A request that another one leaves alone.
LEMMA OthersKeep ==
  ASSUME MT, NEW p \in Requests, req'[p] = req[p],
         Flushed(p) =>
           /\ lock'[req[p].msg] = p /\ row'[req[p].msg] = row[req[p].msg]
           /\ req[p].event \in DOMAIN outbox' /\ outbox'[req[p].event] = outbox[req[p].event]
           /\ \A j \in DOMAIN outbox' : outbox'[j].msg = req[p].msg =>
                j \in DOMAIN outbox /\ outbox[j].msg = req[p].msg
  PROVE  ReqOK(p)'
<1>1. ReqOK(p)
  BY DEF MT
<1>2. Flushed(p)' <=> Flushed(p)
  BY DEF Flushed
<1>3. ASSUME Flushed(p)
      PROVE  /\ req[p].msg \in Messages /\ lock'[req[p].msg] = p
             /\ req[p].event \in DOMAIN outbox'
             /\ OpenRow(outbox'[req[p].event], req[p].op, req[p].msg)
             /\ \A j \in DOMAIN outbox' : outbox'[j].msg = req[p].msg => j <= req[p].event
             /\ IF req[p].op \in {"create", "forward"} THEN row'[req[p].msg].status = "absent"
                ELSE row'[req[p].msg].status \in {"live", "deleted"}
  BY <1>1, <1>3 DEF ReqOK, Newest, Exists
<1>4. QED
  BY <1>1, <1>2, <1>3 DEF ReqOK, Newest, Exists

LEMMA ReadingKeeps ==
  ASSUME MT, NEW r \in Requests, Reading(r)
  PROVE  MT'
<1>0. TypeOK
  BY DEF MT
<1>1. PICK k \in RequestStates :
        /\ req' = [req EXCEPT ![r] = k] /\ k.at \in {"-", "read"}
        /\ k.op = "clear" => k.event = 0
        /\ k.op \in {"edit", "delete"} => k.msg \in Messages
  BY <1>0, ReadingFacts
<1>2. req[r].at # "flushed" /\ dedup' \subseteq Keys /\ UNCHANGED <<row, lock, outbox, expiries>>
  BY <1>0, ReadingFacts
<1>3. req'[r] = k /\ \A p \in Requests \ {r} : req'[p] = req[p]
  BY <1>0, <1>1 DEF TypeOK
<1>4. \A m \in Messages : lock[m] # r
  BY <1>2, NoneAssumption DEF MT, LockOK
<1>5. TypeOK'
  BY <1>0, <1>1, <1>2, <1>3, <1>4 DEF TypeOK
<1>6. ASSUME NEW p \in Requests \ {r} PROVE ReqOK(p)'
  BY <1>2, <1>3, OthersKeep DEF MT, ReqOK
<1>7. ReqOK(r)'
  BY <1>1, <1>3 DEF ReqOK, Flushed
<1>8. ASSUME NEW m \in Messages PROVE LockOK(m)'
  BY <1>0, <1>2, <1>3, <1>4 DEF MT, LockOK, Flushed, TypeOK
<1>9. QED
  BY <1>5, <1>6, <1>7, <1>8 DEF MT

LEMMA TakingKeeps ==
  ASSUME MT, NEW r \in Requests, NEW m \in Messages, NEW k \in RequestStates, Takes(r, m, k)
  PROVE  MT'
<1>1. /\ TypeOK /\ req'[r] = k /\ \A p \in Requests \ {r} : req'[p] = req[p]
      /\ lock'[m] = r /\ \A v \in Messages \ {m} : lock'[v] = lock[v]
      /\ UNCHANGED <<row, dedup, expiries>> /\ k.at = "flushed" /\ k.op \in Changing
      /\ k.msg = m /\ k.event = Len(outbox) + 1 /\ req[r].at = "read"
  BY DEF MT, TypeOK, Takes
<1>2. PICK type \in {"created", "edited", "deleted"}, b \in BOOLEAN :
        type = TypeOf(k.op) /\ Stamp(type, m, b) /\ (k.op # "edit" => b = FALSE)
  BY DEF Takes, TypeOf
<1>3. /\ outbox' \in Seq(OutboxRows) /\ Len(outbox) \in Nat
      /\ \A j \in DOMAIN outbox : outbox'[j] = outbox[j]
      /\ OpenRow(outbox'[Len(outbox) + 1], k.op, m)
      /\ DOMAIN outbox = 1 .. Len(outbox) /\ DOMAIN outbox' = 1 .. Len(outbox) + 1
  <2>1. outbox \in Seq(OutboxRows)
    BY <1>1 DEF TypeOK
  <2>2. Len(outbox) \in Nat
    BY <2>1
  <2>3. QED
    <3>1. /\ outbox' \in Seq(OutboxRows)
          /\ \A j \in DOMAIN outbox : outbox'[j] = outbox[j]
          /\ outbox'[Len(outbox) + 1] = [type |-> type, msg |-> m, padded |-> b, state |-> "open"]
          /\ DOMAIN outbox = 1 .. Len(outbox) /\ DOMAIN outbox' = 1 .. Len(outbox) + 1
      BY <1>2, <2>1, Stamping
    <3>2. OpenRow([type |-> type, msg |-> m, padded |-> b, state |-> "open"], k.op, m)
      BY <1>2 DEF OpenRow
    <3>3. QED
      BY <2>2, <3>1, <3>2
<1>4. \A v \in Messages : lock[v] # r
  BY <1>1, NoneAssumption DEF MT, LockOK
<1>5. TypeOK'
  <2>1. /\ lock' \in [Messages -> Requests \cup {None}] /\ req' \in [Requests -> RequestStates]
    BY <1>1 DEF Takes, TypeOK
  <2>2. \A v \in Messages : lock'[v] # None => req'[lock'[v]].at = "flushed"
    BY <1>1, <1>4 DEF TypeOK
  <2>3. QED
    BY <1>1, <1>3, <2>1, <2>2 DEF TypeOK
<1>6. ASSUME NEW p \in Requests \ {r} PROVE ReqOK(p)'
  <2>1. req'[p] = req[p] /\ ReqOK(p)
    BY <1>1 DEF MT
  <2>2. ASSUME Flushed(p)
        PROVE  /\ lock'[req[p].msg] = p /\ row'[req[p].msg] = row[req[p].msg]
               /\ req[p].event \in DOMAIN outbox' /\ outbox'[req[p].event] = outbox[req[p].event]
               /\ \A j \in DOMAIN outbox' : outbox'[j].msg = req[p].msg =>
                    j \in DOMAIN outbox /\ outbox[j].msg = req[p].msg
    <3>1. /\ req[p].msg \in Messages /\ lock[req[p].msg] = p /\ req[p].event \in DOMAIN outbox
      BY <2>1, <2>2 DEF ReqOK
    <3>2. req[p].msg # m
      BY <3>1, NoneAssumption DEF Takes
    <3>3. outbox'[Len(outbox) + 1].msg = m
      BY <1>3 DEF OpenRow
    <3>4. \A j \in DOMAIN outbox' : j \in DOMAIN outbox \/ j = Len(outbox) + 1
      BY <1>3
    <3>5. req[p].event \in DOMAIN outbox'
      BY <1>3, <3>1
    <3>6. QED
      BY <1>1, <1>3, <3>1, <3>2, <3>3, <3>4, <3>5
  <2>3. QED
    BY <2>1, <2>2, OthersKeep
<1>7. ReqOK(r)'
  <2>1. \A j \in DOMAIN outbox' : j <= k.event
    BY <1>1, <1>3
  <2>2. k.event \in DOMAIN outbox'
    BY <1>1, <1>3
  <2>3. IF k.op \in {"create", "forward"} THEN row'[m].status = "absent" ELSE Exists(m)'
    BY <1>1 DEF Takes, Exists
  <2>4. k.op # "clear"
    BY <1>1 DEF Changing
  <2>5. QED
    BY <1>1, <1>3, <2>1, <2>2, <2>3, <2>4 DEF ReqOK, Flushed, Newest
<1>8. ASSUME NEW v \in Messages PROVE LockOK(v)'
  BY <1>1, <1>4 DEF MT, LockOK, Flushed, TypeOK
<1>9. QED
  BY <1>5, <1>6, <1>7, <1>8 DEF MT

LEMMA NewRowTyped ==
  ASSUME MT, NEW r \in Requests, Flushed(r)
  PROVE  /\ NewRow(r, row[req[r].msg]) \in Rows
         /\ NewRow(r, row[req[r].msg]).status =
              IF req[r].op \in {"create", "forward"} THEN "live"
              ELSE IF req[r].op = "edit" THEN row[req[r].msg].status ELSE "deleted"
         /\ NewRow(r, row[req[r].msg]).text =
              IF req[r].op = "delete" THEN row[req[r].msg].text ELSE Plain(req[r].event)
         /\ NewRow(r, row[req[r].msg]).sender =
              IF req[r].op \in {"create", "forward"} THEN req[r].user ELSE row[req[r].msg].sender
         /\ NewRow(r, row[req[r].msg]).cid =
              IF req[r].op \in {"create", "forward"} THEN req[r].cid ELSE row[req[r].msg].cid
<1>1. PICK q \in RequestStates : q = req[r]
  BY DEF MT, TypeOK
<1>2. q.msg \in Messages /\ q.op \in Changing
  BY <1>1 DEF MT, ReqOK, Flushed
<1>3. PICK old \in Rows : old = row[q.msg]
  BY <1>2 DEF MT, TypeOK
<1>4. /\ q.user \in Users \cup {None} /\ q.cid \in ClientIds \cup {None} /\ q.event \in Nat
  BY DEF RequestStates
<1> DEFINE t == Plain(q.event)
<1>0. t \in Texts
  BY <1>4 DEF Plain, Texts
<1> HIDE DEF t
<1>5. CASE q.op \in {"create", "forward"}
  <2> DEFINE n == [status |-> "live", sender |-> q.user, text |-> t, cid |-> q.cid]
  <2>1. n \in Rows /\ n.status = "live" /\ n.sender = q.user /\ n.text = t /\ n.cid = q.cid
    BY <1>0, <1>4 DEF Rows
  <2>2. NewRow(r, old) = n
    BY <1>1, <1>5 DEF NewRow, t
  <2> HIDE DEF n
  <2>3. QED
    BY <1>1, <1>3, <1>5, <2>1, <2>2 DEF t
<1>6. CASE q.op = "edit"
  <2> DEFINE n == [old EXCEPT !.text = t]
  <2>1. /\ n \in Rows /\ n.status = old.status /\ n.sender = old.sender /\ n.text = t
        /\ n.cid = old.cid
    BY <1>0, <1>4 DEF Rows
  <2>2. NewRow(r, old) = n
    BY <1>1, <1>6 DEF NewRow, t
  <2> HIDE DEF n
  <2>3. QED
    BY <1>1, <1>3, <1>6, <2>1, <2>2 DEF t
<1>7. CASE q.op = "delete"
  <2> DEFINE n == [old EXCEPT !.status = "deleted"]
  <2>1. /\ n \in Rows /\ n.status = "deleted" /\ n.sender = old.sender /\ n.text = old.text
        /\ n.cid = old.cid
    BY DEF Rows
  <2>2. NewRow(r, old) = n
    BY <1>1, <1>7 DEF NewRow
  <2> HIDE DEF n
  <2>3. QED
    BY <1>1, <1>3, <1>7, <2>1, <2>2
<1>8. QED
  BY <1>2, <1>5, <1>6, <1>7 DEF Changing

LEMMA GivingKeeps ==
  ASSUME MT, NEW r \in Requests, NEW state \in {"committed", "undone"}, Gives(r, state)
  PROVE  MT'
<1> DEFINE m == req[r].msg
           k == req[r].event
<1>1. TypeOK /\ ReqOK(r) /\ Flushed(r)
  BY DEF MT, Gives
<1>2. PICK v \in Messages, e \in DOMAIN outbox :
        /\ v = req[r].msg /\ e = req[r].event /\ lock[v] = r /\ outbox[e].msg = v
        /\ outbox[e].state = "open"
  BY <1>1 DEF ReqOK, OpenRow
<1>3. /\ req' = [req EXCEPT ![r] = Idle] /\ lock' = [lock EXCEPT ![v] = None]
      /\ EndEvent(e, state) /\ UNCHANGED <<dedup, expiries>>
      /\ row' = row \/ row' = [row EXCEPT ![v] = NewRow(r, row[v])]
  BY <1>2 DEF Gives, Return
<1>4. /\ req'[r] = Idle /\ \A p \in Requests \ {r} : req'[p] = req[p]
      /\ lock'[v] = None /\ \A w \in Messages \ {v} : lock'[w] = lock[w] /\ row'[w] = row[w]
  BY <1>1, <1>3 DEF TypeOK
<1>5. /\ outbox' \in Seq(OutboxRows) /\ DOMAIN outbox' = DOMAIN outbox
      /\ \A j \in DOMAIN outbox : outbox'[j].msg = outbox[j].msg
      /\ \A j \in DOMAIN outbox : j # e => outbox'[j] = outbox[j]
  <2>1. outbox \in Seq(OutboxRows) /\ e \in Nat
    BY <1>1, <1>2 DEF TypeOK
  <2>2. QED
    BY <1>3, <2>1, Ending
<1>6. \A w \in Messages : lock[w] = r => w = v
  BY <1>1, <1>2, NoneAssumption DEF MT, LockOK
<1>7. TypeOK'
  <2>1. row' \in [Messages -> Rows]
    BY <1>1, <1>2, <1>3, NewRowTyped DEF TypeOK
  <2>2. /\ lock' \in [Messages -> Requests \cup {None}] /\ req' \in [Requests -> RequestStates]
    BY <1>1, <1>3, IdleTyped DEF TypeOK
  <2>3. \A w \in Messages : lock'[w] # None => req'[lock'[w]].at = "flushed"
    BY <1>1, <1>4, <1>6 DEF TypeOK
  <2>4. QED
    BY <1>1, <1>3, <1>5, <2>1, <2>2, <2>3 DEF TypeOK
<1>8. ASSUME NEW p \in Requests \ {r} PROVE ReqOK(p)'
  <2>1. req'[p] = req[p] /\ ReqOK(p)
    BY <1>4 DEF MT
  <2>2. ASSUME Flushed(p)
        PROVE  /\ lock'[req[p].msg] = p /\ row'[req[p].msg] = row[req[p].msg]
               /\ req[p].event \in DOMAIN outbox' /\ outbox'[req[p].event] = outbox[req[p].event]
               /\ \A j \in DOMAIN outbox' : outbox'[j].msg = req[p].msg =>
                    j \in DOMAIN outbox /\ outbox[j].msg = req[p].msg
    <3>1. /\ req[p].msg \in Messages /\ lock[req[p].msg] = p /\ req[p].event \in DOMAIN outbox
          /\ outbox[req[p].event].msg = req[p].msg
      BY <2>1, <2>2 DEF ReqOK, OpenRow
    <3>2. req[p].msg # v
      BY <1>2, <3>1
    <3>3. req[p].event # e
      BY <1>2, <3>1, <3>2
    <3>4. QED
      BY <1>4, <1>5, <3>1, <3>2, <3>3
  <2>3. QED
    BY <2>1, <2>2, OthersKeep
<1>9. ReqOK(r)'
  BY <1>4, IdleTyped DEF ReqOK, Flushed
<1>10. ASSUME NEW w \in Messages PROVE LockOK(w)'
  BY <1>1, <1>4, <1>6 DEF MT, LockOK, Flushed, TypeOK
<1>11. QED
  BY <1>7, <1>8, <1>9, <1>10 DEF MT

\* A clear takes rows that nobody holds; in the end it gives them back, gone or not.
ClearEnds(r) ==
  /\ req[r].op = "clear" /\ Return(r)
  /\ lock' = [m \in Messages |-> IF lock[m] = r THEN None ELSE lock[m]]
  /\ row' \in [Messages -> Rows]
  /\ \A m \in Messages : \/ row'[m] = row[m]
                         \/ lock[m] = r /\ row'[m].status = "cleared" /\ row'[m].sender = None
  /\ UNCHANGED <<dedup, outbox, expiries>>

LEMMA ClearFacts ==
  ASSUME MT, NEW r \in Requests, CommitClear(r)
  PROVE  ClearEnds(r)
<1> DEFINE c == [AbsentRow EXCEPT !.status = "cleared"]
<1>1. c \in Rows /\ c.status = "cleared" /\ c.sender = None
  BY DEF AbsentRow, Rows, Texts
<1>2. row' = [m \in Messages |-> IF lock[m] = r THEN c ELSE row[m]]
  BY DEF CommitClear
<1> HIDE DEF c
<1>3. row' \in [Messages -> Rows]
  BY <1>1, <1>2 DEF MT, TypeOK
<1>4. QED
  BY <1>1, <1>2, <1>3 DEF CommitClear, ClearEnds

LEMMA ClearingKeeps ==
  ASSUME MT, NEW r \in Requests, FlushClear(r) \/ ClearEnds(r)
  PROVE  MT'
<1>1. TypeOK /\ outbox' = outbox
  BY DEF MT, FlushClear, ClearEnds
<1>2. PICK q \in RequestStates : q = req[r]
  BY <1>1 DEF TypeOK
<1>3. ~Flushed(r) /\ q.event = 0 /\ q.op = "clear"
  BY <1>2 DEF MT, ReqOK, Flushed, Changing, FlushClear, ClearEnds
<1>4. CASE FlushClear(r)
  <2> DEFINE k == [q EXCEPT !.at = "flushed"]
  <2>1. k \in RequestStates /\ k.op = "clear" /\ k.event = 0 /\ k.at = "flushed"
    BY <1>3 DEF RequestStates
  <2>2. req' = [req EXCEPT ![r] = k] /\ UNCHANGED <<row, dedup, outbox, expiries>>
    BY <1>2, <1>4 DEF FlushClear
  <2> HIDE DEF k
  <2>3. /\ \A m \in q.rows : lock[m] = None
        /\ lock' = [m \in Messages |-> IF m \in q.rows /\ Exists(m) THEN r ELSE lock[m]]
    BY <1>2, <1>4 DEF FlushClear
  <2>4. req'[r] = k /\ \A p \in Requests \ {r} : req'[p] = req[p]
    BY <1>1, <2>2 DEF TypeOK
  <2>5. \A m \in Messages : lock'[m] = r \/ lock'[m] = lock[m]
    BY <2>3
  <2>6. TypeOK'
    <3>1. /\ lock' \in [Messages -> Requests \cup {None}] /\ req' \in [Requests -> RequestStates]
      BY <1>1, <2>1, <2>2, <2>3 DEF TypeOK
    <3>2. \A m \in Messages : lock'[m] # None => req'[lock'[m]].at = "flushed"
      BY <1>1, <2>1, <2>4, <2>5 DEF TypeOK
    <3>3. QED
      BY <1>1, <2>2, <3>1, <3>2 DEF TypeOK
  <2>7. ASSUME NEW p \in Requests \ {r} PROVE ReqOK(p)'
    <3>1. req'[p] = req[p] /\ ReqOK(p)
      BY <2>4 DEF MT
    <3>2. Flushed(p) => req[p].msg \in Messages /\ lock'[req[p].msg] = p
      BY <2>3, <3>1, NoneAssumption DEF ReqOK
    <3>3. QED
      BY <2>2, <3>1, <3>2, OthersKeep DEF ReqOK
  <2>8. ReqOK(r)'
    BY <2>1, <2>4 DEF ReqOK, Flushed, Changing
  <2>9. ASSUME NEW m \in Messages PROVE LockOK(m)'
    BY <1>1, <1>3, <2>1, <2>4, <2>5 DEF MT, LockOK, Flushed, TypeOK, Changing
  <2>10. QED
    BY <2>6, <2>7, <2>8, <2>9 DEF MT
<1>5. CASE ClearEnds(r)
  <2>1. /\ req' = [req EXCEPT ![r] = Idle] /\ row' \in [Messages -> Rows]
        /\ lock' = [m \in Messages |-> IF lock[m] = r THEN None ELSE lock[m]]
        /\ \A m \in Messages : row'[m] = row[m] \/ lock[m] = r
        /\ UNCHANGED <<dedup, outbox, expiries>>
    BY <1>5 DEF ClearEnds, Return
  <2>2. req'[r] = Idle /\ \A p \in Requests \ {r} : req'[p] = req[p]
    BY <1>1, <2>1 DEF TypeOK
  <2>3. TypeOK'
    <3>1. /\ lock' \in [Messages -> Requests \cup {None}] /\ req' \in [Requests -> RequestStates]
      BY <1>1, <2>1, IdleTyped DEF TypeOK
    <3>2. \A m \in Messages : lock'[m] # None => req'[lock'[m]].at = "flushed"
      BY <1>1, <2>1, <2>2 DEF TypeOK
    <3>3. QED
      BY <1>1, <2>1, <3>1, <3>2 DEF TypeOK
  <2>4. ASSUME NEW p \in Requests \ {r} PROVE ReqOK(p)'
    <3>1. req'[p] = req[p] /\ ReqOK(p)
      BY <2>2 DEF MT
    <3>2. Flushed(p) => /\ req[p].msg \in Messages /\ lock'[req[p].msg] = p
                        /\ row'[req[p].msg] = row[req[p].msg]
      BY <2>1, <3>1 DEF ReqOK
    <3>3. QED
      BY <2>1, <3>1, <3>2, OthersKeep DEF ReqOK
  <2>5. ReqOK(r)'
    BY <2>2, IdleTyped DEF ReqOK, Flushed
  <2>6. ASSUME NEW m \in Messages PROVE LockOK(m)'
    BY <1>1, <2>1, <2>2 DEF MT, LockOK, Flushed, TypeOK
  <2>7. QED
    BY <2>3, <2>4, <2>5, <2>6 DEF MT
<1>6. QED
  BY <1>4, <1>5

-----------------------------------------------------------------------------
(* Every step is one of these.                                             *)

Working(r) ==
  \/ Reading(r)
  \/ \E m \in Messages, k \in RequestStates : Takes(r, m, k)
  \/ Gives(r, "committed") \/ Gives(r, "undone")
  \/ FlushClear(r) \/ ClearEnds(r)

LEMMA NextSorted ==
  ASSUME MT, Next
  PROVE  (\E r \in Requests : Working(r)) \/ \E gone \in SUBSET Keys : Expire(gone)
<1>1. ASSUME NEW r \in Requests, Flush(r) PROVE Working(r)
  BY <1>1, FlushTakes DEF Flush, Working
<1>2. ASSUME NEW r \in Requests, Commit(r) PROVE Working(r)
  BY <1>2, CommitGives, ClearFacts DEF Commit, Working
<1>3. ASSUME NEW r \in Requests, Rollback(r) PROVE Working(r)
  <2>1. CASE Gives(r, "undone")
    BY <2>1 DEF Working
  <2>2. CASE /\ req[r].op = "clear" /\ UNCHANGED <<row, dedup, expiries>>
             /\ outbox' = outbox /\ Return(r)
             /\ lock' = [m \in Messages |-> IF lock[m] = r THEN None ELSE lock[m]]
    <3>1. ClearEnds(r)
      BY <2>2 DEF ClearEnds, MT, TypeOK
    <3>2. QED
      BY <3>1 DEF Working
  <2>3. QED
    BY <1>3, <2>1, <2>2, RollbackGives
<1>4. QED
  BY <1>1, <1>2, <1>3 DEF Next, Working, Reading

LEMMA NextTypes ==
  ASSUME MT, [Next]_vars
  PROVE  MT'
<1>1. ASSUME NEW r \in Requests, Working(r) PROVE MT'
  BY <1>1, ReadingKeeps, TakingKeeps, GivingKeeps, ClearingKeeps DEF Working
<1>2. ASSUME NEW gone \in SUBSET Keys, Expire(gone) PROVE MT'
  <2>1. /\ UNCHANGED <<row, lock, outbox, req>> /\ dedup' = dedup \ gone
        /\ expiries' = [k \in Keys |-> expiries[k] + IF k \in gone THEN 1 ELSE 0]
    BY <1>2 DEF Expire
  <2>2. TypeOK'
    BY <2>1 DEF MT, TypeOK
  <2>3. (\A r \in Requests : ReqOK(r)') /\ \A m \in Messages : LockOK(m)'
    BY <2>1 DEF MT, ReqOK, LockOK, Flushed, Newest, Exists
  <2>4. QED
    BY <2>2, <2>3 DEF MT
<1>3. CASE UNCHANGED vars
  <2>1. TypeOK'
    BY <1>3 DEF MT, TypeOK, vars
  <2>2. (\A r \in Requests : ReqOK(r)') /\ \A m \in Messages : LockOK(m)'
    BY <1>3 DEF MT, ReqOK, LockOK, Flushed, Newest, Exists, vars
  <2>3. QED
    BY <2>1, <2>2 DEF MT
<1>4. QED
  BY <1>1, <1>2, <1>3, NextSorted

LEMMA InitTypes ==
  ASSUME Init
  PROVE  MT
<1>1. AbsentRow \in Rows /\ AbsentRow.status = "absent"
  BY DEF AbsentRow, Rows, Texts
<1>2. TypeOK
  BY <1>1, IdleTyped DEF Init, TypeOK, Keys
<1>3. \A r \in Requests : ReqOK(r)
  BY IdleTyped DEF Init, ReqOK, Flushed
<1>4. \A m \in Messages : LockOK(m)
  BY DEF Init, LockOK
<1>5. QED
  BY <1>2, <1>3, <1>4 DEF MT

\* What a row lock means: whoever holds it has flushed a change of that message, whose
\* event is open and the newest of the message, or a clear.
THEOREM LifecycleInvariant == Spec => []MT
<1>1. Init => MT
  BY InitTypes
<1>2. MT /\ [Next]_vars => MT'
  BY NextTypes
<1>3. QED
  BY <1>1, <1>2, PTL DEF Spec

\* Every variable has its type, and a row lock is held only by a request that has
\* flushed a change and not yet ended.
THEOREM LifecycleTypesCorrect == Spec => []TypeOK
<1>1. MT => TypeOK
  BY DEF MT
<1>2. QED
  BY <1>1, LifecycleInvariant, PTL

-----------------------------------------------------------------------------
(* The outbox agrees with the rows.                                        *)

Agrees(m) ==
  /\ Exists(m) =>
       /\ \E k \in EventsOf(m, {"created", "edited"}) :
            /\ row[m].text = Plain(k)
            /\ \A j \in EventsOf(m, {"created", "edited"}) : j <= k
       /\ EventsOf(m, {"created"}) # {}
       /\ row[m].status = "deleted" <=> EventsOf(m, {"deleted"}) # {}
  /\ row[m].status = "absent" => EventsOf(m, Types) = {}
  /\ \A k \in EventsOf(m, {"edited", "deleted"}) : \E j \in EventsOf(m, {"created"}) : j < k

AllAgree == \A m \in Messages : Agrees(m)

LEMMA AgreesStays ==
  ASSUME NEW m \in Messages, Agrees(m), \A T : EventsOf(m, T)' = EventsOf(m, T),
         row'[m] = row[m] \/ row'[m].status = "cleared"
  PROVE  Agrees(m)'
<1>1. CASE row'[m] = row[m]
  <2>1. Exists(m)' <=> Exists(m)
    BY <1>1 DEF Exists
  <2>2. QED
    BY <1>1, <2>1 DEF Agrees
<1>2. CASE row'[m].status = "cleared"
  <2>1. ~Exists(m)'
    BY <1>2 DEF Exists
  <2>2. QED
    BY <1>2, <2>1 DEF Agrees
<1>3. QED
  BY <1>1, <1>2

LEMMA AgreesCommits ==
  ASSUME MT, AllAgree, NEW r \in Requests, Gives(r, "committed")
  PROVE  AllAgree'
<1>1. TypeOK /\ ReqOK(r) /\ Flushed(r)
  BY DEF MT, Gives
<1>2. PICK v \in Messages, e \in DOMAIN outbox :
        /\ v = req[r].msg /\ e = req[r].event
        /\ OpenRow(outbox[e], req[r].op, v)
        /\ Newest(e, v)
        /\ IF req[r].op \in {"create", "forward"} THEN row[v].status = "absent" ELSE Exists(v)
  BY <1>1 DEF ReqOK
<1>3. /\ outbox[e].type = TypeOf(req[r].op) /\ outbox[e].msg = v /\ outbox[e].state = "open"
      /\ outbox \in Seq(OutboxRows) /\ DOMAIN outbox \subseteq Nat
  BY <1>1, <1>2 DEF TypeOK, OpenRow
<1>4. PICK n \in Rows : n = NewRow(r, row[v])
  BY <1>1, <1>2, NewRowTyped
<1>5. EndEvent(e, "committed") /\ row' = [row EXCEPT ![v] = n]
  BY <1>2, <1>4 DEF Gives
<1>6. row'[v] = n /\ \A w \in Messages \ {v} : row'[w] = row[w]
  BY <1>1, <1>5 DEF TypeOK
<1>7. \A w, T : EventsOf(w, T)' = EventsOf(w, T) \cup
                  {j \in {e} : v = w /\ TypeOf(req[r].op) \in T}
  BY <1>3, <1>5, CommittedEvents
<1>8. ASSUME NEW w \in Messages \ {v} PROVE Agrees(w)'
  BY <1>6, <1>7, <1>8, AgreesStays DEF AllAgree
<1>9. \A T : \A j \in EventsOf(v, T) : j \in Nat /\ j < e
  <2>1. ASSUME NEW T, NEW j \in EventsOf(v, T) PROVE j \in Nat /\ j < e
    <3>1. j \in DOMAIN outbox /\ outbox[j].msg = v /\ outbox[j].state = "committed"
      BY <2>1 DEF EventsOf
    <3>2. j <= e /\ j # e
      BY <1>2, <1>3, <3>1 DEF Newest
    <3>3. QED
      BY <1>3, <3>1, <3>2
  <2>2. QED
    BY <2>1
<1>10. /\ n.status = IF req[r].op \in {"create", "forward"} THEN "live"
                     ELSE IF req[r].op = "edit" THEN row[v].status ELSE "deleted"
       /\ n.text = IF req[r].op = "delete" THEN row[v].text ELSE Plain(e)
  BY <1>1, <1>2, <1>4, NewRowTyped
<1>11. Agrees(v)
  BY DEF AllAgree
<1>12. e \in Nat
  BY <1>3
<1>13. Agrees(v)'
  <2>1. CASE req[r].op \in {"create", "forward"}
    <3>1. EventsOf(v, Types) = {} /\ TypeOf(req[r].op) = "created"
      BY <1>2, <1>11, <2>1 DEF Agrees, TypeOf
    <3>2. \A T : T \subseteq Types => EventsOf(v, T) = {}
      BY <3>1 DEF EventsOf, Types
    <3>3. /\ EventsOf(v, {"created", "edited"})' = {e} /\ EventsOf(v, {"created"})' = {e}
          /\ EventsOf(v, {"deleted"})' = {} /\ EventsOf(v, {"edited", "deleted"})' = {}
      BY <1>7, <3>1, <3>2 DEF Types
    <3>4. row'[v].status = "live" /\ row'[v].text = Plain(e)
      BY <1>6, <1>10, <2>1
    <3>5. QED
      BY <1>12, <3>3, <3>4 DEF Agrees
  <2>2. CASE req[r].op = "edit"
    <3>1. TypeOf(req[r].op) = "edited" /\ Exists(v)
      BY <1>2, <2>2 DEF TypeOf
    <3>2. /\ EventsOf(v, {"created", "edited"})' = EventsOf(v, {"created", "edited"}) \cup {e}
          /\ EventsOf(v, {"created"})' = EventsOf(v, {"created"})
          /\ EventsOf(v, {"deleted"})' = EventsOf(v, {"deleted"})
          /\ EventsOf(v, {"edited", "deleted"})' = EventsOf(v, {"edited", "deleted"}) \cup {e}
      BY <1>7, <3>1
    <3>3. row'[v].status = row[v].status /\ row'[v].text = Plain(e)
      BY <1>6, <1>10, <2>2
    <3>4. row[v].status # "absent" /\ EventsOf(v, {"created"}) # {}
          /\ (row[v].status = "deleted" <=> EventsOf(v, {"deleted"}) # {})
          /\ \A k \in EventsOf(v, {"edited", "deleted"}) : \E j \in EventsOf(v, {"created"}) : j < k
      BY <1>11, <3>1 DEF Agrees, Exists
    <3>5. \A k \in EventsOf(v, {"created", "edited"})' : k <= e
      BY <1>9, <1>12, <3>2
    <3>6. \E j \in EventsOf(v, {"created"}) : j < e
      BY <1>9, <3>4
    <3>7. QED
      BY <3>2, <3>3, <3>4, <3>5, <3>6 DEF Agrees
  <2>3. CASE req[r].op = "delete"
    <3>1. TypeOf(req[r].op) = "deleted" /\ Exists(v)
      BY <1>2, <2>3 DEF TypeOf
    <3>2. /\ EventsOf(v, {"created", "edited"})' = EventsOf(v, {"created", "edited"})
          /\ EventsOf(v, {"created"})' = EventsOf(v, {"created"})
          /\ e \in EventsOf(v, {"deleted"})'
          /\ EventsOf(v, {"edited", "deleted"})' = EventsOf(v, {"edited", "deleted"}) \cup {e}
      BY <1>7, <3>1
    <3>3. row'[v].status = "deleted" /\ row'[v].text = row[v].text
      BY <1>6, <1>10, <2>3
    <3>4. /\ \E k \in EventsOf(v, {"created", "edited"}) :
               /\ row[v].text = Plain(k)
               /\ \A j \in EventsOf(v, {"created", "edited"}) : j <= k
          /\ EventsOf(v, {"created"}) # {}
          /\ \A k \in EventsOf(v, {"edited", "deleted"}) : \E j \in EventsOf(v, {"created"}) : j < k
      BY <1>11, <3>1 DEF Agrees
    <3>5. \E j \in EventsOf(v, {"created"}) : j < e
      BY <1>9, <3>4
    <3>6. QED
      BY <3>2, <3>3, <3>4, <3>5 DEF Agrees
  <2>4. QED
    BY <1>1, <2>1, <2>2, <2>3 DEF Flushed, Changing
<1>14. QED
  BY <1>8, <1>13 DEF AllAgree

LEMMA NextAgrees ==
  ASSUME MT, AllAgree, [Next]_vars
  PROVE  AllAgree'
<1>1. ASSUME \A v, T : EventsOf(v, T)' = EventsOf(v, T),
             \A v \in Messages : row'[v] = row[v] \/ row'[v].status = "cleared"
      PROVE  AllAgree'
  <2>1. ASSUME NEW v \in Messages PROVE Agrees(v)'
    BY <1>1, AgreesStays DEF AllAgree
  <2>2. QED
    BY <2>1 DEF AllAgree
<1>2. ASSUME outbox' = outbox PROVE \A v, T : EventsOf(v, T)' = EventsOf(v, T)
  BY <1>2 DEF EventsOf
<1>3. ASSUME NEW r \in Requests, Working(r) PROVE AllAgree'
  <2>1. CASE Reading(r)
    BY <1>1, <1>2, <2>1, ReadingFacts DEF MT
  <2>2. ASSUME NEW m \in Messages, NEW k \in RequestStates, Takes(r, m, k) PROVE AllAgree'
    <3>1. PICK type \in Types, p \in BOOLEAN : Stamp(type, m, p)
      BY <2>2 DEF Takes, TypeOf, Types
    <3>2. \A v, T : EventsOf(v, T)' = EventsOf(v, T)
      BY <3>1, StampedEvents DEF MT, TypeOK
    <3>3. row' = row
      BY <2>2 DEF Takes
    <3>4. QED
      BY <1>1, <3>2, <3>3
  <2>3. CASE Gives(r, "committed")
    BY <2>3, AgreesCommits
  <2>4. CASE Gives(r, "undone")
    <3>0. ReqOK(r) /\ Flushed(r)
      BY <2>4 DEF MT, Gives
    <3>1. PICK e \in DOMAIN outbox : e = req[r].event /\ outbox[e].state = "open"
      BY <3>0 DEF ReqOK, OpenRow
    <3>2. EndEvent(e, "undone") /\ row' = row /\ e \in Nat /\ outbox \in Seq(OutboxRows)
      BY <2>4, <3>1 DEF Gives, MT, TypeOK
    <3>3. \A v, T : EventsOf(v, T)' = EventsOf(v, T)
      BY <3>1, <3>2, UndoneEvents
    <3>4. QED
      BY <1>1, <3>2, <3>3
  <2>5. CASE FlushClear(r) \/ ClearEnds(r)
    BY <1>1, <1>2, <2>5 DEF FlushClear, ClearEnds
  <2>6. QED
    BY <1>3, <2>1, <2>2, <2>3, <2>4, <2>5 DEF Working
<1>4. CASE (\E gone \in SUBSET Keys : Expire(gone)) \/ UNCHANGED vars
  BY <1>1, <1>2, <1>4 DEF Expire, vars
<1>5. QED
  BY <1>3, <1>4, NextSorted

\* Rows and committed events agree at all times.
THEOREM RowsAgreeWithEvents == Spec => []AllAgree
<1>1. Init => AllAgree
  BY DEF Init, AllAgree, Agrees, Exists, EventsOf, AbsentRow
<1>2. MT /\ AllAgree /\ [Next]_vars => AllAgree'
  BY NextAgrees
<1>3. QED
  BY <1>1, <1>2, LifecycleInvariant, PTL DEF Spec

\* The text of a message in the database is the one its newest created or edited event
\* announces, stripped, whichever way edits overlap: the change is stamped under the
\* row lock.
THEOREM TextIsLastAnnounced == Spec => []LastEventHasTheText
<1>1. TypeOK /\ AllAgree => LastEventHasTheText
  <2>1. SUFFICES ASSUME TypeOK, AllAgree, NEW m \in Messages, Exists(m)
                 PROVE  \E k \in EventsOf(m, {"created", "edited"}) :
                          /\ row[m].text = Strip(Announced(k))
                          /\ \A j \in EventsOf(m, {"created", "edited"}) : j <= k
    BY DEF LastEventHasTheText
  <2>2. PICK k \in EventsOf(m, {"created", "edited"}) :
          /\ row[m].text = Plain(k)
          /\ \A j \in EventsOf(m, {"created", "edited"}) : j <= k
    BY <2>1 DEF AllAgree, Agrees
  <2>3. Strip(Announced(k)) = Plain(k)
    BY <2>1, <2>2, Stripped DEF EventsOf, TypeOK
  <2>4. QED
    BY <2>2, <2>3
<1>2. QED
  BY <1>1, RowsAgreeWithEvents, LifecycleTypesCorrect, PTL

\* A message in the database was announced, is deleted exactly if its deletion was
\* announced, and was announced before anything else was said about it.
THEOREM OutboxTellsTheTruth == Spec => []OutboxTellsDatabase
<1>1. AllAgree => OutboxTellsDatabase
  BY DEF AllAgree, Agrees, OutboxTellsDatabase
<1>2. QED
  BY <1>1, RowsAgreeWithEvents, PTL

\* No request, whatever it read before the deletion, brings a deleted message back.
THEOREM DeletedMessagesStayDeleted == Spec => DeletedStaysDeleted
<1> DEFINE Stays == \A m \in Messages :
                      row[m].status = "deleted" => row'[m].status \in {"deleted", "cleared"}
<1>1. ASSUME MT, [Next]_vars PROVE Stays
  <2>1. ASSUME NEW r \in Requests, Working(r) PROVE Stays
    <3>1. CASE Reading(r) \/ FlushClear(r) \/ ClearEnds(r)
      BY <1>1, <3>1, ReadingFacts DEF MT, FlushClear, ClearEnds
    <3>2. CASE \E m \in Messages, k \in RequestStates : Takes(r, m, k)
      BY <3>2 DEF Takes
    <3>3. CASE Gives(r, "undone")
      BY <3>3 DEF Gives
    <3>4. CASE Gives(r, "committed")
      <4>1. TypeOK /\ ReqOK(r) /\ Flushed(r)
        BY <1>1, <3>4 DEF MT, Gives
      <4>2. PICK v \in Messages :
              /\ v = req[r].msg
              /\ req[r].op \in {"create", "forward"} => row[v].status = "absent"
        <5>1. /\ req[r].msg \in Messages
              /\ req[r].op \in {"create", "forward"} => row[req[r].msg].status = "absent"
          BY <4>1 DEF ReqOK
        <5>2. QED
          BY <5>1
      <4>3. PICK n \in Rows : n = NewRow(r, row[v])
        BY <1>1, <4>1, <4>2, NewRowTyped
      <4>4. row' = [row EXCEPT ![v] = n]
        BY <3>4, <4>2, <4>3 DEF Gives
      <4>5. row'[v] = n /\ \A w \in Messages \ {v} : row'[w] = row[w]
        BY <4>1, <4>4 DEF TypeOK
      <4>6. row[v].status = "deleted" => n.status = "deleted"
        <5>1. n.status = IF req[r].op \in {"create", "forward"} THEN "live"
                         ELSE IF req[r].op = "edit" THEN row[v].status ELSE "deleted"
          BY <1>1, <4>1, <4>2, <4>3, NewRowTyped
        <5>2. QED
          BY <4>2, <5>1
      <4>7. QED
        BY <4>5, <4>6
    <3>5. QED
      BY <2>1, <3>1, <3>2, <3>3, <3>4 DEF Working
  <2>2. CASE (\E gone \in SUBSET Keys : Expire(gone)) \/ UNCHANGED vars
    BY <2>2 DEF Expire, vars
  <2>3. QED
    BY <1>1, <2>1, <2>2, NextSorted
<1>2. MT /\ [Next]_vars => [Stays]_vars
  BY <1>1
<1>3. QED
  BY <1>2, LifecycleInvariant, PTL DEF Spec, DeletedStaysDeleted

-----------------------------------------------------------------------------
(* A client's retries.  Each create holds the deduplication key it has set *)
(* until the key runs out: rows of a key, and creates under way that may   *)
(* still add one, are as many as the times it was set at most.             *)

Stored(k) == {m \in Messages : row[m].sender = k[1] /\ row[m].cid = k[2]}

Creating(k) == {r \in Requests : /\ req[r].op = "create"
                                 /\ req[r].user = k[1] /\ req[r].cid = k[2]}

TimesSet(k) == expiries[k] + (IF k \in dedup THEN 1 ELSE 0)

Covered(k) == Cardinality(Stored(k)) + Cardinality(Creating(k)) <= TimesSet(k)

Once ==
  /\ \A k \in Keys : Covered(k)
  /\ \A r \in Requests : req[r].op = "forward" => req[r].cid = None

LEMMA Counting ==
  ASSUME NEW k
  PROVE  /\ IsFiniteSet(Stored(k)) /\ IsFiniteSet(Creating(k))
         /\ Cardinality(Stored(k)) \in Nat /\ Cardinality(Creating(k)) \in Nat
<1>1. Stored(k) \subseteq Messages /\ Creating(k) \subseteq Requests
  BY DEF Stored, Creating
<1>2. IsFiniteSet(Stored(k)) /\ IsFiniteSet(Creating(k))
  BY <1>1, LifecycleFinite, FS_Subset
<1>3. QED
  BY <1>2, FS_CardinalityType

LEMMA AddingOne ==
  ASSUME NEW S, NEW x, IsFiniteSet(S)
  PROVE  /\ IsFiniteSet(S \cup {x}) /\ Cardinality(S \cup {x}) \in Nat
         /\ Cardinality(S \cup {x}) <= Cardinality(S) + 1
<1>1. /\ IsFiniteSet(S \cup {x})
      /\ Cardinality(S \cup {x}) = IF x \in S THEN Cardinality(S) ELSE Cardinality(S) + 1
  BY FS_AddElement
<1>2. Cardinality(S) \in Nat
  BY FS_CardinalityType
<1>3. QED
  BY <1>1, <1>2

\* Nothing is added but what is paid for.
LEMMA CoveredStays ==
  ASSUME NEW S, NEW C, NEW S1, NEW C1, IsFiniteSet(S), IsFiniteSet(C),
         NEW t \in Nat, NEW t1 \in Nat, Cardinality(S) + Cardinality(C) <= t,
         \/ S1 \subseteq S /\ C1 \subseteq C /\ t <= t1
         \/ S1 \subseteq S /\ t1 = t + 1 /\ \E r : C1 \subseteq C \cup {r}
         \/ t1 = t /\ \E m : S1 \subseteq S \cup {m} /\ \E r \in C : C1 \subseteq C \ {r}
  PROVE  Cardinality(S1) + Cardinality(C1) <= t1
<1>1. Cardinality(S) \in Nat /\ Cardinality(C) \in Nat
  BY FS_CardinalityType
<1>2. ASSUME S1 \subseteq S PROVE Cardinality(S1) \in Nat /\ Cardinality(S1) <= Cardinality(S)
  BY <1>2, FS_Subset, FS_CardinalityType
<1>3. CASE S1 \subseteq S /\ C1 \subseteq C /\ t <= t1
  <2>1. Cardinality(C1) \in Nat /\ Cardinality(C1) <= Cardinality(C)
    BY <1>3, FS_Subset, FS_CardinalityType
  <2>2. QED
    BY <1>1, <1>2, <1>3, <2>1
<1>4. CASE S1 \subseteq S /\ t1 = t + 1 /\ \E r : C1 \subseteq C \cup {r}
  <2>1. PICK r : C1 \subseteq C \cup {r}
    BY <1>4
  <2>2. /\ IsFiniteSet(C \cup {r}) /\ Cardinality(C \cup {r}) \in Nat
        /\ Cardinality(C \cup {r}) <= Cardinality(C) + 1
    BY <1>1, AddingOne
  <2>3. Cardinality(C1) \in Nat /\ Cardinality(C1) <= Cardinality(C \cup {r})
    BY <2>1, <2>2, FS_Subset, FS_CardinalityType
  <2>4. QED
    BY <1>1, <1>2, <1>4, <2>2, <2>3
<1>5. CASE t1 = t /\ \E m : S1 \subseteq S \cup {m} /\ \E r \in C : C1 \subseteq C \ {r}
  <2>1. PICK m : S1 \subseteq S \cup {m} /\ \E r \in C : C1 \subseteq C \ {r}
    BY <1>5
  <2> PICK r \in C : C1 \subseteq C \ {r}
    BY <2>1
  <2>2. /\ IsFiniteSet(S \cup {m}) /\ Cardinality(S \cup {m}) \in Nat
        /\ Cardinality(S \cup {m}) <= Cardinality(S) + 1
    BY <1>1, AddingOne
  <2>3. Cardinality(S1) \in Nat /\ Cardinality(S1) <= Cardinality(S \cup {m})
    BY <2>1, <2>2, FS_Subset, FS_CardinalityType
  <2>4. IsFiniteSet(C \ {r}) /\ Cardinality(C \ {r}) = Cardinality(C) - 1
    BY FS_RemoveElement
  <2>5. Cardinality(C1) \in Nat /\ Cardinality(C1) <= Cardinality(C \ {r})
    BY <2>1, <2>4, FS_Subset, FS_CardinalityType
  <2>6. QED
    BY <1>1, <1>5, <2>2, <2>3, <2>4, <2>5
<1>6. QED
  BY <1>3, <1>4, <1>5

LEMMA StepCovers ==
  ASSUME TypeOK, TypeOK', Once, NEW k \in Keys,
         \/ /\ Stored(k)' \subseteq Stored(k) /\ Creating(k)' \subseteq Creating(k)
            /\ TimesSet(k) <= TimesSet(k)'
         \/ /\ Stored(k)' \subseteq Stored(k) /\ TimesSet(k)' = TimesSet(k) + 1
            /\ \E r : Creating(k)' \subseteq Creating(k) \cup {r}
         \/ /\ TimesSet(k)' = TimesSet(k)
            /\ \E m : Stored(k)' \subseteq Stored(k) \cup {m}
            /\ \E r \in Creating(k) : Creating(k)' \subseteq Creating(k) \ {r}
  PROVE  Covered(k)'
<1>1. TimesSet(k) \in Nat /\ TimesSet(k)' \in Nat
  BY DEF TypeOK, TimesSet
<1>2. PICK S, C, S1, C1 : S = Stored(k) /\ C = Creating(k) /\ S1 = Stored(k)' /\ C1 = Creating(k)'
  OBVIOUS
<1> PICK t \in Nat, t1 \in Nat : t = TimesSet(k) /\ t1 = TimesSet(k)'
  BY <1>1
<1>3. IsFiniteSet(S) /\ IsFiniteSet(C)
  BY <1>2, Counting
<1>4. Cardinality(S) + Cardinality(C) <= t
  BY <1>2 DEF Once, Covered
<1>5. \/ S1 \subseteq S /\ C1 \subseteq C /\ t <= t1
      \/ S1 \subseteq S /\ t1 = t + 1 /\ \E r : C1 \subseteq C \cup {r}
      \/ t1 = t /\ \E m : S1 \subseteq S \cup {m} /\ \E r \in C : C1 \subseteq C \ {r}
  BY <1>2
<1>6. Cardinality(S1) + Cardinality(C1) <= t1
  BY <1>3, <1>4, <1>5, CoveredStays
<1>7. QED
  BY <1>2, <1>6 DEF Covered

\* Row w is, for the keys, what it was, or nobody's.
SameOwner(w) ==
  \/ row'[w].sender = row[w].sender /\ row'[w].cid = row[w].cid
  \/ row'[w].sender = None \/ row'[w].cid = None

\* A step that starts no create and stores no created row.
LEMMA NoCreateKeepsOnce ==
  ASSUME TypeOK, TypeOK', Once, NEW r \in Requests, NEW n \in RequestStates,
         req' = [req EXCEPT ![r] = n],
         n.op = "create" => req[r].op = "create" /\ n.user = req[r].user /\ n.cid = req[r].cid,
         n.op = "forward" => n.cid = None,
         \A w \in Messages : SameOwner(w),
         dedup' = dedup, expiries' = expiries
  PROVE  Once'
<1>1. req'[r] = n /\ \A p \in Requests \ {r} : req'[p] = req[p]
  BY DEF TypeOK
<1>2. ASSUME NEW k \in Keys PROVE Covered(k)'
  <2>1. k[1] # None /\ k[2] # None
    BY NoneAssumption DEF Keys
  <2>2. Stored(k)' \subseteq Stored(k)
    BY <2>1 DEF Stored, SameOwner
  <2>3. Creating(k)' \subseteq Creating(k)
    BY <1>1 DEF Creating
  <2>4. TimesSet(k) \in Nat /\ TimesSet(k)' = TimesSet(k)
    BY DEF TimesSet, TypeOK
  <2>5. QED
    BY <2>2, <2>3, <2>4, StepCovers
<1>3. QED
  BY <1>1, <1>2 DEF Once

LEMMA ReceiveCreateKeepsOnce ==
  ASSUME TypeOK, TypeOK', Once, NEW r \in Requests, NEW u \in Users,
         NEW c \in ClientIds \cup {None}, ReceiveCreate(r, u, c)
  PROVE  Once'
<1> DEFINE n == [Idle EXCEPT !.op = "create", !.at = "read", !.user = u, !.cid = c]
<1>1. n.op = "create" /\ n.user = u /\ n.cid = c
  BY DEF Idle
<1>2. /\ req' = [req EXCEPT ![r] = n] /\ req[r] = Idle /\ <<u, c>> \notin dedup
      /\ dedup' = IF c = None THEN dedup ELSE dedup \cup {<<u, c>>}
      /\ row' = row /\ expiries' = expiries
  BY DEF ReceiveCreate
<1> HIDE DEF n
<1>3. req'[r] = n /\ \A p \in Requests \ {r} : req'[p] = req[p]
  BY <1>2 DEF TypeOK
<1>4. ASSUME NEW k \in Keys PROVE Covered(k)'
  <2>1. /\ k[1] # None /\ k[2] # None /\ k = <<k[1], k[2]>>
        /\ Stored(k)' = Stored(k) /\ Creating(k)' \subseteq Creating(k) \cup {r}
        /\ expiries[k] \in Nat
    BY <1>2, <1>3, NoneAssumption DEF Keys, Stored, Creating, TypeOK
  <2>2. CASE k = <<u, c>>
    <3>1. TimesSet(k)' = TimesSet(k) + 1
      BY <1>2, <2>1, <2>2 DEF TimesSet
    <3>2. QED
      BY <2>1, <3>1, StepCovers
  <2>3. CASE k # <<u, c>>
    <3>1. TimesSet(k)' = TimesSet(k) /\ TimesSet(k) \in Nat
      BY <1>2, <2>1, <2>3 DEF TimesSet
    <3>2. ~(u = k[1] /\ c = k[2])
      BY <2>1, <2>3
    <3>3. Creating(k)' \subseteq Creating(k)
      BY <1>1, <1>3, <3>2 DEF Creating
    <3>4. QED
      BY <2>1, <3>1, <3>3, StepCovers
  <2>4. QED
    BY <2>2, <2>3
<1>5. QED
  BY <1>1, <1>3, <1>4 DEF Once

\* A created row takes the place of its request.
LEMMA CreatedKeepsOnce ==
  ASSUME TypeOK, TypeOK', Once, NEW r \in Requests, NEW v \in Messages, NEW n \in Rows,
         req[r].op = "create", req' = [req EXCEPT ![r] = Idle],
         row' = [row EXCEPT ![v] = n], n.sender = req[r].user, n.cid = req[r].cid,
         dedup' = dedup, expiries' = expiries
  PROVE  Once'
<1>1. /\ req'[r] = Idle /\ \A p \in Requests \ {r} : req'[p] = req[p]
      /\ row'[v] = n /\ \A w \in Messages \ {v} : row'[w] = row[w]
  BY DEF TypeOK
<1>2. ASSUME NEW k \in Keys PROVE Covered(k)'
  <2>1. Creating(k)' \subseteq Creating(k) \ {r}
    BY <1>1, IdleTyped DEF Creating
  <2>2. TimesSet(k) \in Nat /\ TimesSet(k)' = TimesSet(k)
    BY DEF TimesSet, TypeOK
  <2>3. CASE r \in Creating(k)
    <3>1. Stored(k)' \subseteq Stored(k) \cup {v}
      BY <1>1 DEF Stored
    <3>2. QED
      BY <2>1, <2>2, <2>3, <3>1, StepCovers
  <2>4. CASE r \notin Creating(k)
    <3>1. Stored(k)' \subseteq Stored(k)
      BY <1>1, <2>4 DEF Stored, Creating
    <3>2. QED
      BY <2>1, <2>2, <3>1, StepCovers
  <2>5. QED
    BY <2>3, <2>4
<1>3. QED
  BY <1>1, <1>2, IdleTyped DEF Once

\* Reading, with a new state that is not of a create.
LEMMA ReadingElse ==
  ASSUME TypeOK, NEW r \in Requests, Reading(r),
         ~\E u \in Users, c \in ClientIds \cup {None} : ReceiveCreate(r, u, c)
  PROVE  /\ \E n \in RequestStates : /\ req' = [req EXCEPT ![r] = n] /\ n.op # "create"
                                     /\ n.op = "forward" => n.cid = None
         /\ UNCHANGED <<row, dedup, expiries>>
<1>1. CASE FailBeforeFlush(r)
  BY <1>1, IdleTyped DEF FailBeforeFlush, Return
<1>2. CASE StartClear(r)
  <2> DEFINE n == [Idle EXCEPT !.op = "clear", !.at = "read", !.rows = {m \in Messages : Exists(m)}]
  <2>1. n \in RequestStates /\ n.op = "clear"
    BY DEF Idle, RequestStates
  <2>2. req' = [req EXCEPT ![r] = n] /\ UNCHANGED <<row, dedup, expiries>>
    BY <1>2 DEF StartClear
  <2> HIDE DEF n
  <2>3. QED
    BY <2>1, <2>2
<1>3. CASE Receive(r)
  <2>1. PICK u \in Users, m \in Messages : ReadForward(r, u, m) \/ ReadEdit(r, u, m) \/ ReadDelete(r, u, m)
    BY <1>3 DEF Receive
  <2>2. CASE ReadForward(r, u, m)
    <3> DEFINE n == [Idle EXCEPT !.op = "forward", !.at = "read", !.user = u]
    <3>1. n \in RequestStates /\ n.op = "forward" /\ n.cid = None
      BY DEF Idle, RequestStates
    <3>2. req' = [req EXCEPT ![r] = n] /\ UNCHANGED <<row, dedup, expiries>>
      BY <2>2 DEF ReadForward
    <3> HIDE DEF n
    <3>3. QED
      BY <3>1, <3>2
  <2>3. ASSUME NEW op \in {"edit", "delete"},
               req' = [req EXCEPT ![r] = [Idle EXCEPT !.op = op, !.at = "read", !.msg = m]]
        PROVE  \E n \in RequestStates : /\ req' = [req EXCEPT ![r] = n] /\ n.op # "create"
                                        /\ n.op = "forward" => n.cid = None
    <3> DEFINE n == [Idle EXCEPT !.op = op, !.at = "read", !.msg = m]
    <3>1. n \in RequestStates /\ n.op = op
      BY DEF Idle, RequestStates
    <3>2. req' = [req EXCEPT ![r] = n]
      BY <2>3
    <3> HIDE DEF n
    <3>3. QED
      BY <3>1, <3>2
  <2>4. CASE ReadEdit(r, u, m) \/ ReadDelete(r, u, m)
    <3>1. PICK op \in {"edit", "delete"} :
            /\ req' = [req EXCEPT ![r] = [Idle EXCEPT !.op = op, !.at = "read", !.msg = m]]
            /\ UNCHANGED <<row, dedup, expiries>>
      BY <2>4 DEF ReadEdit, ReadDelete
    <3>2. QED
      BY <2>3, <3>1
  <2>5. QED
    BY <2>1, <2>2, <2>4
<1>4. QED
  BY <1>1, <1>2, <1>3 DEF Reading

LEMMA GivingKeepsOnce ==
  ASSUME MT, MT', Once, NEW r \in Requests, Gives(r, "committed")
  PROVE  Once'
<1>1. TypeOK /\ TypeOK' /\ ReqOK(r) /\ Flushed(r)
  BY DEF MT, Gives
<1>2. PICK v \in Messages : v = req[r].msg
  BY <1>1 DEF ReqOK
<1>3. PICK n \in Rows : n = NewRow(r, row[v])
  BY <1>1, <1>2, NewRowTyped
<1>4. /\ row' = [row EXCEPT ![v] = n] /\ req' = [req EXCEPT ![r] = Idle]
      /\ dedup' = dedup /\ expiries' = expiries
  BY <1>2, <1>3 DEF Gives, Return
<1>5. /\ n.sender = IF req[r].op \in {"create", "forward"} THEN req[r].user ELSE row[v].sender
      /\ n.cid = IF req[r].op \in {"create", "forward"} THEN req[r].cid ELSE row[v].cid
  BY <1>1, <1>2, <1>3, NewRowTyped
<1>6. CASE req[r].op = "create"
  <2>1. n.sender = req[r].user /\ n.cid = req[r].cid
    BY <1>5, <1>6
  <2>2. QED
    BY <1>1, <1>4, <1>6, <2>1, CreatedKeepsOnce
<1>7. CASE req[r].op # "create"
  <2>1. row'[v] = n /\ \A w \in Messages \ {v} : row'[w] = row[w]
    BY <1>1, <1>4 DEF TypeOK
  <2>2. (n.sender = row[v].sender /\ n.cid = row[v].cid) \/ n.cid = None
    BY <1>5, <1>7 DEF Once
  <2>3. \A w \in Messages : SameOwner(w)
    BY <2>1, <2>2 DEF SameOwner
  <2>4. QED
    BY <1>1, <1>4, <2>3, IdleTyped, NoCreateKeepsOnce
<1>8. QED
  BY <1>6, <1>7

LEMMA NextOnce ==
  ASSUME MT, Once, [Next]_vars
  PROVE  Once'
<1>1. MT' /\ TypeOK /\ TypeOK'
  BY NextTypes DEF MT
<1>2. ASSUME NEW r \in Requests, Working(r) PROVE Once'
  <2>1. CASE \E u \in Users, c \in ClientIds \cup {None} : ReceiveCreate(r, u, c)
    BY <1>1, <2>1, ReceiveCreateKeepsOnce
  <2>2. CASE Reading(r) /\ ~\E u \in Users, c \in ClientIds \cup {None} : ReceiveCreate(r, u, c)
    <3>1. PICK n \in RequestStates : /\ req' = [req EXCEPT ![r] = n] /\ n.op # "create"
                                     /\ n.op = "forward" => n.cid = None
      BY <1>1, <2>2, ReadingElse
    <3>2. (\A w \in Messages : SameOwner(w)) /\ dedup' = dedup /\ expiries' = expiries
      BY <1>1, <2>2, ReadingElse DEF SameOwner
    <3>3. QED
      BY <1>1, <3>1, <3>2, NoCreateKeepsOnce
  <2>3. ASSUME NEW m \in Messages, NEW n \in RequestStates, Takes(r, m, n) PROVE Once'
    <3>1. /\ req' = [req EXCEPT ![r] = n] /\ n.op = req[r].op /\ n.user = req[r].user
          /\ n.cid = req[r].cid /\ dedup' = dedup /\ expiries' = expiries /\ row' = row
      BY <2>3 DEF Takes
    <3>2. (\A w \in Messages : SameOwner(w)) /\ (n.op = "forward" => n.cid = None)
      BY <3>1 DEF SameOwner, Once
    <3>3. QED
      BY <1>1, <3>1, <3>2, NoCreateKeepsOnce
  <2>4. CASE Gives(r, "committed")
    BY <1>1, <2>4, GivingKeepsOnce
  <2>5. CASE Gives(r, "undone") \/ ClearEnds(r)
    <3>1. req' = [req EXCEPT ![r] = Idle] /\ dedup' = dedup /\ expiries' = expiries
      BY <2>5 DEF Gives, ClearEnds, Return
    <3>2. \A w \in Messages : SameOwner(w)
      BY <2>5 DEF Gives, ClearEnds, SameOwner
    <3>3. QED
      BY <1>1, <3>1, <3>2, IdleTyped, NoCreateKeepsOnce
  <2>6. CASE FlushClear(r)
    <3>1. PICK q \in RequestStates : q = req[r]
      BY <1>1 DEF TypeOK
    <3> DEFINE n == [q EXCEPT !.at = "flushed"]
    <3>2. n \in RequestStates /\ n.op = "clear"
      BY <2>6, <3>1 DEF RequestStates, FlushClear
    <3>3. /\ req' = [req EXCEPT ![r] = n] /\ dedup' = dedup /\ expiries' = expiries
          /\ \A w \in Messages : SameOwner(w)
      BY <2>6, <3>1 DEF FlushClear, SameOwner
    <3> HIDE DEF n
    <3>4. QED
      BY <1>1, <3>2, <3>3, NoCreateKeepsOnce
  <2>7. QED
    BY <1>2, <2>1, <2>2, <2>3, <2>4, <2>5, <2>6 DEF Working
<1>3. CASE \E gone \in SUBSET Keys : Expire(gone)
  <2>1. PICK gone \in SUBSET Keys :
          /\ gone \subseteq dedup /\ dedup' = dedup \ gone /\ row' = row /\ req' = req
          /\ expiries' = [k \in Keys |-> expiries[k] + IF k \in gone THEN 1 ELSE 0]
    BY <1>3 DEF Expire
  <2>2. ASSUME NEW k \in Keys PROVE Covered(k)'
    <3>1. Stored(k)' = Stored(k) /\ Creating(k)' = Creating(k)
      BY <2>1 DEF Stored, Creating
    <3>2. TimesSet(k)' = TimesSet(k) /\ TimesSet(k) \in Nat
      BY <1>1, <2>1 DEF TimesSet, TypeOK
    <3>3. QED
      BY <1>1, <3>1, <3>2, StepCovers
  <2>3. QED
    BY <2>1, <2>2 DEF Once
<1>4. CASE UNCHANGED vars
  <2>1. ASSUME NEW k \in Keys PROVE Covered(k)'
    <3>1. Stored(k)' = Stored(k) /\ Creating(k)' = Creating(k) /\ TimesSet(k)' = TimesSet(k)
      BY <1>4 DEF Stored, Creating, TimesSet, vars
    <3>2. QED
      BY <3>1 DEF Covered, Once
  <2>2. QED
    BY <1>4, <2>1 DEF Once, vars
<1>5. QED
  BY <1>2, <1>3, <1>4, NextSorted

LEMMA InitOnce ==
  ASSUME Init
  PROVE  Once
<1>1. ASSUME NEW k \in Keys PROVE Covered(k)
  <2>1. Stored(k) = {} /\ Creating(k) = {} /\ TimesSet(k) = 0
    BY NoneAssumption, IdleTyped DEF Init, Stored, Creating, TimesSet, AbsentRow, Keys
  <2>2. Cardinality({}) = 0
    BY FS_EmptySet
  <2>3. QED
    BY <2>1, <2>2 DEF Covered
<1>2. QED
  BY <1>1, IdleTyped DEF Init, Once

\* A client's retries store its message once, and once more for each time the key has
\* run out: SET NX before anything else, and a key is not given back by a failure.
THEOREM RetriesStoreOnce == Spec => []StoredOncePerClientId
<1>1. MT /\ Once => StoredOncePerClientId
  <2>1. ASSUME MT, Once, NEW k \in Keys PROVE Cardinality(Stored(k)) <= 1 + expiries[k]
    <3>1. expiries[k] \in Nat /\ TimesSet(k) <= 1 + expiries[k] /\ TimesSet(k) \in Nat
      BY <2>1 DEF MT, TypeOK, TimesSet
    <3>2. Cardinality(Stored(k)) + Cardinality(Creating(k)) <= TimesSet(k)
      BY <2>1 DEF Once, Covered
    <3>3. Cardinality(Stored(k)) \in Nat /\ Cardinality(Creating(k)) \in Nat
      BY Counting
    <3>4. QED
      BY <3>1, <3>2, <3>3
  <2>2. QED
    BY <2>1 DEF StoredOncePerClientId, Stored
<1>2. Init => Once
  BY InitOnce
<1>3. MT /\ Once /\ [Next]_vars => Once'
  BY NextOnce
<1>4. QED
  BY <1>1, <1>2, <1>3, LifecycleInvariant, PTL DEF Spec
==============================================================================

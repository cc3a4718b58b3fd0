--------------------------- MODULE MessageReceipts ---------------------------
(***************************************************************************)
(* Receipts, reactions and messages hidden by one user (services/          *)
(* messages.py, models/chat/messages.py), and what get_messages and        *)
(* get_user_groups make of them.                                           *)
(*                                                                         *)
(* A call reads, commits (PostgreSQL refuses a second receipt of a user    *)
(* for a message, or the same reaction twice, and then nothing of the call *)
(* is stored), and only then publishes what it did, one event per message. *)
(* Other calls run in between.  A call that is turned down, or finds       *)
(* nothing to do, changes nothing and is not modelled.                     *)
(***************************************************************************)
EXTENDS FiniteSets, Naturals

CONSTANTS
  People,    \* participants of a conversation, some of whom come and go
  Messages,
  SenderOf,  \* Messages -> People
  Emojis,
  Calls      \* calls ever made

ASSUME SenderAssumption == SenderOf \in [Messages -> People]
ASSUME PeopleAssumption == IsFiniteSet(People)
ASSUME CallsAssumption == "none" \notin Calls
ASSUME EmojisAssumption == "none" \notin Emojis

VARIABLES
  stored,        \* Messages -> "absent", "present", or "cleared" by clear_chat
  participants,  \* those of the conversation, in the rows and in the cache
  receipts,      \* Messages -> People -> "none", "delivered" or "read"
  reactions,     \* rows [msg, user, emoji, by]: by, the inserting call, is their id
  hidden,        \* the pairs <<message, user>> of message_delete_state
  call,          \* Calls -> what is asked, what has been read, what is left to do
  told,          \* Messages -> People -> the last receipt and reaction published
  readUpTo       \* history: People -> the messages their read-all calls found

receiptVars == <<stored, participants, receipts, reactions, hidden, call, told, readUpTo>>

Marks == {"none", "delivered", "read"}
Marking == {"mark_read", "mark_all_read", "mark_delivered", "mark_all_undelivered"}

CallStates ==
  [op : Marking \cup {"none", "add_reaction", "remove_reaction", "delete_for_me"},
   step : {"new", "loop", "commit", "publish", "done", "cut"},
   user : People \cup {"none"},
   about : SUBSET Messages,                \* all it deals with
   rest : SUBSET Messages,                 \* not yet looked up
   batch : SUBSET Messages,                \* to be committed, then to be published
   insert : SUBSET Messages,               \* those of them that had no row
   emoji : Emojis \cup {"none"},
   found : Calls \cup {"none"},            \* the id of the reaction it changes
   all : SUBSET Messages,                  \* history: the messages there were
   before : SUBSET Calls]                  \* history: the calls that had ended

NewCall == [op |-> "none", step |-> "new", user |-> "none", about |-> {}, rest |-> {},
            batch |-> {}, insert |-> {}, emoji |-> "none", found |-> "none",
            all |-> {}, before |-> {}]

ReceiptsInit ==
  /\ stored = [m \in Messages |-> "absent"]
  /\ participants = People
  /\ receipts = [m \in Messages |-> [u \in People |-> "none"]]
  /\ reactions = {}
  /\ hidden = {}
  /\ call = [q \in Calls |-> NewCall]
  /\ told = [m \in Messages |-> [u \in People |-> [receipt |-> "none", reaction |-> "none"]]]
  /\ readUpTo = [u \in People |-> {}]

Present == {m \in Messages : stored[m] = "present"}
Received(u) == {m \in Present : SenderOf[m] # u}

-----------------------------------------------------------------------------
(* What the users see.                                                     *)

\* How many others have a row that says so: also of those who have left.
MarkedBy(m, marks) == Cardinality({u \in People \ {SenderOf[m]} : receipts[m][u] \in marks})

\* MUTANT of ShownToSender: = for >=.
ShownToSenderExact(m) ==
  LET others == Cardinality(participants \ {SenderOf[m]})
  IN IF MarkedBy(m, {"read"}) = others THEN "read"
     ELSE IF MarkedBy(m, {"delivered", "read"}) = others THEN "delivered" ELSE "none"

ShownToSender(m) ==
  LET others == Cardinality(participants \ {SenderOf[m]})
  IN IF MarkedBy(m, {"read"}) >= others THEN "read"
     ELSE IF MarkedBy(m, {"delivered", "read"}) >= others THEN "delivered" ELSE "none"

\* A message in the list of get_messages.
Shown(u, m) ==
  IF <<m, u>> \in hidden THEN "hidden"
  ELSE IF u = SenderOf[m] THEN ShownToSender(m) ELSE receipts[m][u]

\* What unread_count counts in get_user_groups and get_user_dms.
Unread(u) == {m \in Received(u) : receipts[m][u] # "read"}

-----------------------------------------------------------------------------
(* A call begins with what it reads.                                       *)

EndedCalls == {q \in Calls : call[q].step \in {"done", "cut"}}

Start(q, c) ==
  /\ call[q].step = "new"
  /\ c.user \in participants
  /\ call' = [call EXCEPT ![q] = [c EXCEPT !.before = EndedCalls]]
  /\ UNCHANGED <<stored, participants, receipts, reactions, hidden, told, readUpTo>>

\* MUTANT of MarkDelivered: whether the message is delivered is not asked.
MarkDeliveredAgain(q, u, m) ==
  /\ m \in Received(u)
  /\ Start(q, [NewCall EXCEPT !.op = "mark_delivered", !.step = "loop", !.user = u,
                              !.about = {m}, !.rest = {m}])

\* The message and the receipt are looked up; the commit follows below.
MarkDelivered(q, u, m) ==
  /\ m \in Received(u)
  /\ receipts[m][u] = "none"
  /\ Start(q, [NewCall EXCEPT !.op = "mark_delivered", !.step = "commit", !.user = u,
                              !.about = {m}, !.batch = {m}, !.insert = {m}])

MarkRead(q, u, m) ==
  /\ m \in Unread(u)
  /\ Start(q, [NewCall EXCEPT !.op = "mark_read", !.step = "commit", !.user = u,
                              !.about = {m}, !.batch = {m},
                              !.insert = {x \in {m} : receipts[x][u] = "none"}])

MarkAllRead(q, u) ==
  LET L == Unread(u)
  IN /\ L # {}
     /\ Start(q, [NewCall EXCEPT !.op = "mark_all_read", !.step = "loop", !.user = u,
                                 !.about = L, !.rest = L, !.all = Present])

\* Of a user whose socket has just been accepted.  (Messages deleted for everyone,
\* which it leaves out, are not distinguished here.)
MarkAllUndelivered(q, u) ==
  LET L == {m \in Received(u) : receipts[m][u] = "none"}
  IN /\ L # {}
     /\ Start(q, [NewCall EXCEPT !.op = "mark_all_undelivered", !.step = "loop",
                                 !.user = u, !.about = L, !.rest = L])

ReactionsOf(u, m) == {r \in reactions : r.msg = m /\ r.user = u}

React(q, u, m, e, found) ==
  Start(q, [NewCall EXCEPT !.op = "add_reaction", !.step = "commit", !.user = u,
                           !.about = {m}, !.emoji = e, !.found = found])

\* MUTANT of AddReaction: it looks for the same reaction, as the constraint does.
AddReactionSame(q, u, m, e) ==
  /\ m \in Present
  /\ \A r \in ReactionsOf(u, m) : r.emoji # e
  /\ React(q, u, m, e, "none")

\* Of several rows it finds any one.  (That a message deleted for everyone takes no
\* new reaction is not distinguished here.)
AddReaction(q, u, m, e) ==
  /\ m \in Present
  /\ IF ReactionsOf(u, m) = {}
     THEN React(q, u, m, e, "none")
     ELSE \E r \in ReactionsOf(u, m) : r.emoji # e /\ React(q, u, m, e, r.by)

RemoveReaction(q, u, m) ==
  \E r \in ReactionsOf(u, m) :
    Start(q, [NewCall EXCEPT !.op = "remove_reaction", !.step = "commit", !.user = u,
                             !.about = {m}, !.found = r.by])

\* message_delete_for_me and bulk_delete_messages.
DeleteForMe(q, u, M) ==
  /\ M \subseteq Present
  /\ M \X {u} \ hidden # {}
  /\ Start(q, [NewCall EXCEPT !.op = "delete_for_me", !.step = "commit", !.user = u,
                              !.about = M, !.insert = {m \in M : <<m, u>> \notin hidden}])

-----------------------------------------------------------------------------
(* The rest of a call.                                                     *)

Return(q, step) ==
  call' = [call EXCEPT ![q] = [@ EXCEPT !.step = step, !.rest = {}, !.batch = {},
                               !.insert = {}, !.found = "none", !.all = {}]]

End(q) == Return(q, "done")

\* The loops look every receipt up again.  mark_all_read commits after the loop,
\* mark_all_undelivered in each round.
LookUp(q) ==
  LET c == call[q]
  IN /\ c.step = "loop"
     /\ \E m \in c.rest :
          call' = [call EXCEPT ![q] =
            [c EXCEPT !.rest = c.rest \ {m},
                      !.batch = c.batch \cup {m},
                      !.insert = c.insert \cup {x \in {m} : receipts[x][c.user] = "none"},
                      !.step = IF c.op = "mark_all_read" /\ c.rest # {m}
                               THEN "loop" ELSE "commit"]]
     /\ UNCHANGED <<stored, participants, receipts, reactions, hidden, told, readUpTo>>

\* Neither a second row, nor a row of a message that is gone, nor the update of
\* a row that is gone.
Accepted(c) == \A m \in c.batch : m \in Present /\ (m \in c.insert => receipts[m][c.user] = "none")

\* MUTANT of Marked: the receipt is written as a whole.
MarkedAnew(c, mark) ==
  IF c.op \in {"mark_read", "mark_all_read"} THEN "read" ELSE "delivered"

\* Only the columns that are set: a delivered_at leaves read_at alone.
Marked(c, mark) ==
  IF c.op \in {"mark_read", "mark_all_read"} \/ mark = "read" THEN "read" ELSE "delivered"

CommitReceipts(q) ==
  LET c == call[q]
  IN /\ c.step = "commit" /\ c.op \in Marking
     /\ Accepted(c)
     /\ receipts' = [m \in Messages |-> IF m \notin c.batch THEN receipts[m] ELSE
                       [receipts[m] EXCEPT ![c.user] = Marked(c, @)]]
     /\ readUpTo' = [readUpTo EXCEPT ![c.user] = @ \cup c.all]
     /\ call' = [call EXCEPT ![q] = [@ EXCEPT !.step = "publish", !.insert = {}]]
     /\ UNCHANGED <<stored, participants, reactions, hidden, told>>

\* The event names the operation, not what the row says by now.
PublishReceipt(q) ==
  LET c == call[q]
  IN /\ c.step = "publish" /\ c.op \in Marking
     /\ \E m \in c.batch :
          /\ told' = [told EXCEPT ![m][c.user].receipt =
                        IF c.op \in {"mark_read", "mark_all_read"} THEN "read" ELSE "delivered"]
          /\ CASE c.batch # {m} -> call' = [call EXCEPT ![q].batch = @ \ {m}]
               [] c.batch = {m} /\ c.rest # {} ->
                    call' = [call EXCEPT ![q] = [@ EXCEPT !.batch = {}, !.step = "loop"]]
               [] OTHER -> End(q)
     /\ UNCHANGED <<stored, participants, receipts, reactions, hidden, readUpTo>>

\* The one row of reactions that the call found; none if it is gone.
FoundRow(c) == {r \in reactions : r.by = c.found}

CommitReaction(q) ==
  LET c == call[q]
  IN /\ c.step = "commit" /\ c.op = "add_reaction"
     /\ \A m \in c.about :
          /\ m \in Present
          /\ \A r \in ReactionsOf(c.user, m) : r.emoji = c.emoji => r.by = c.found
          /\ IF c.found = "none"
             THEN reactions' = reactions \cup
                    {[msg |-> m, user |-> c.user, emoji |-> c.emoji, by |-> q]}
             ELSE /\ FoundRow(c) # {}
                  /\ reactions' = (reactions \ FoundRow(c)) \cup
                       {[r EXCEPT !.emoji = c.emoji] : r \in FoundRow(c)}
     /\ call' = [call EXCEPT ![q].step = "publish"]
     /\ UNCHANGED <<stored, participants, receipts, hidden, told, readUpTo>>

\* Deleting a row that is gone is no error.
CommitRemoval(q) ==
  LET c == call[q]
  IN /\ c.step = "commit" /\ c.op = "remove_reaction"
     /\ reactions' = reactions \ FoundRow(c)
     /\ call' = [call EXCEPT ![q].step = "publish"]
     /\ UNCHANGED <<stored, participants, receipts, hidden, told, readUpTo>>

PublishReaction(q) ==
  LET c == call[q]
  IN /\ c.step = "publish" /\ c.op \in {"add_reaction", "remove_reaction"}
     /\ told' = [m \in Messages |-> IF m \notin c.about THEN told[m] ELSE
                   [told[m] EXCEPT ![c.user].reaction = c.emoji]]
     /\ End(q)
     /\ UNCHANGED <<stored, participants, receipts, reactions, hidden, readUpTo>>

\* With its outbox event, in one transaction.
CommitHidden(q) ==
  LET c == call[q]
  IN /\ c.step = "commit" /\ c.op = "delete_for_me"
     /\ c.insert \subseteq Present
     /\ c.insert \X {c.user} \cap hidden = {}
     /\ hidden' = hidden \cup (c.insert \X {c.user})
     /\ End(q)
     /\ UNCHANGED <<stored, participants, receipts, reactions, told, readUpTo>>

\* An exception: the commit is refused, the row to refresh is gone, Redis does
\* not answer; or the process dies.  What is committed stays.
Cut(q) ==
  /\ call[q].step \in {"loop", "commit", "publish"}
  /\ Return(q, "cut")
  /\ UNCHANGED <<stored, participants, receipts, reactions, hidden, told, readUpTo>>

-----------------------------------------------------------------------------
(* The surroundings.                                                       *)

Create(m) ==
  /\ stored[m] = "absent"
  /\ SenderOf[m] \in participants
  /\ stored' = [stored EXCEPT ![m] = "present"]
  /\ UNCHANGED <<participants, receipts, reactions, hidden, call, told, readUpTo>>

\* MUTANT of ClearChat: the reference of message_delete_state does not cascade.
ClearChatLeaving ==
  /\ Present # {}
  /\ stored' = [m \in Messages |-> IF m \in Present THEN "cleared" ELSE stored[m]]
  /\ receipts' = [m \in Messages |-> [u \in People |-> "none"]]
  /\ reactions' = {}
  /\ UNCHANGED <<participants, hidden, call, told, readUpTo>>

\* clear_chat; the rows that refer to a message go with it (ON DELETE CASCADE).
ClearChat ==
  /\ Present # {}
  /\ stored' = [m \in Messages |-> IF m \in Present THEN "cleared" ELSE stored[m]]
  /\ receipts' = [m \in Messages |-> [u \in People |-> "none"]]
  /\ reactions' = {}
  /\ hidden' = {}
  /\ UNCHANGED <<participants, call, told, readUpTo>>

Leave(u) ==
  /\ u \in participants
  /\ participants' = participants \ {u}
  /\ UNCHANGED <<stored, receipts, reactions, hidden, call, told, readUpTo>>

Join(u) ==
  /\ u \notin participants
  /\ participants' = participants \cup {u}
  /\ UNCHANGED <<stored, receipts, reactions, hidden, call, told, readUpTo>>

ReceiptsNext ==
  \/ \E q \in Calls :
       \/ \E u \in People :
            \/ MarkAllRead(q, u) \/ MarkAllUndelivered(q, u)
            \/ \E m \in Messages :
                 \/ MarkDelivered(q, u, m) \/ MarkRead(q, u, m)
                 \/ RemoveReaction(q, u, m)
                 \/ \E e \in Emojis : AddReaction(q, u, m, e)
            \/ \E M \in SUBSET Messages : DeleteForMe(q, u, M)
       \/ LookUp(q) \/ CommitReceipts(q) \/ PublishReceipt(q)
       \/ CommitReaction(q) \/ CommitRemoval(q) \/ PublishReaction(q)
       \/ CommitHidden(q) \/ Cut(q)
  \/ ClearChat
  \/ \E m \in Messages : Create(m)
  \/ \E u \in People : Leave(u) \/ Join(u)

ReceiptsSpec == ReceiptsInit /\ [][ReceiptsNext]_receiptVars

-----------------------------------------------------------------------------

\* Every variable holds a value of its type, and no row refers to a message that
\* is not there.
ReceiptsTypeOK ==
  /\ stored \in [Messages -> {"absent", "present", "cleared"}]
  /\ participants \subseteq People
  /\ receipts \in [Messages -> [People -> Marks]]
  /\ reactions \subseteq [msg : Present, user : People, emoji : Emojis, by : Calls]
  /\ hidden \subseteq Present \X People
  /\ call \in [Calls -> CallStates]
  /\ told \in [Messages -> [People -> [receipt : Marks, reaction : Emojis \cup {"none"}]]]
  /\ readUpTo \in [People -> SUBSET Messages]
  /\ \A m \in Messages \ Present, u \in People : receipts[m][u] = "none"

\* Neither of two calls had ended when the other began.
Overlap(p, q) == p # q /\ p \notin call[q].before /\ q \notin call[p].before

Rank(status) == CASE status = "none" -> 0 [] status = "delivered" -> 1
                  [] status = "read" -> 2 [] status = "hidden" -> 3

\* What a participant is shown of a message ("sent", then "delivered", then
\* "read") never goes back while calls overlap and participants leave: only a new
\* participant, who has not read it, or clear_chat sets it back.
ShownNeverGoesBack ==
  [][\A u \in participants \cap participants', m \in Present :
       (m \in Present' /\ participants' \subseteq participants) =>
         Rank(Shown(u, m)') >= Rank(Shown(u, m))]_receiptVars

\* A second reaction of a user to a message comes only from two calls that
\* overlapped: add_reaction looks for the one there is, and changes it.
OneReaction ==
  \A r, s \in reactions :
    (r # s /\ r.msg = s.msg /\ r.user = s.user) => Overlap(r.by, s.by)

\* The badge: after a mark_all_read has committed nothing it found in the
\* conversation counts as unread, whatever calls ran at the same time.
ReadAllClearsTheBadge ==
  \A u \in People : Unread(u) \cap readUpTo[u] = {}

Quiet == \A q \in Calls : call[q].step \in {"new", "done", "cut"}

Disturbed(m, u, ops) ==
  \E p, q \in Calls :
    /\ \A c \in {call[p], call[q]} : c.user = u /\ m \in c.about /\ c.op \in ops
    /\ Overlap(p, q) \/ call[p].step = "cut"

\* When nothing is going on, the event last published about a user's receipt, or
\* reaction, of a message says what the database says, unless two calls about it
\* overlapped or one was cut.
LastToldIsStored ==
  Quiet => \A m \in Present, u \in People :
    /\ \/ told[m][u].receipt = receipts[m][u]
       \/ Disturbed(m, u, Marking)
    /\ \/ {r.emoji : r \in ReactionsOf(u, m)} = {told[m][u].reaction} \ {"none"}
       \/ Disturbed(m, u, {"add_reaction", "remove_reaction"})
==============================================================================

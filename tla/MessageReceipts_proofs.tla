------------------------ MODULE MessageReceipts_proofs ------------------------
(***************************************************************************)
(* Theorems about MessageReceipts, for any participants, messages, emojis  *)
(* and concurrent calls.                                                   *)
(***************************************************************************)
EXTENDS MessageReceipts, FiniteSetTheorems, TLAPS

-----------------------------------------------------------------------------
(* Types, and what a call keeps to at each of its steps.                   *)

CallOK(q) ==
  /\ call[q].step # "new" => call[q].user \in People
  /\ call[q].op = "add_reaction" =>
       /\ call[q].emoji \in Emojis /\ \E m \in Messages : call[q].about = {m}
       /\ call[q].step # "loop"
  /\ call[q].op # "mark_all_read" => call[q].all = {}
  /\ call[q].op = "mark_all_read" /\ call[q].step \in {"commit", "publish"} => call[q].rest = {}
  /\ call[q].before \subseteq EndedCalls

RT == ReceiptsTypeOK /\ \A q \in Calls : CallOK(q)

Reacting == {"add_reaction", "remove_reaction"}
Delivering == {"mark_delivered", "mark_all_undelivered"}

\* It deals with messages there are, has published nothing, and has read the rows.
Whole(c) ==
  /\ c.rest \cup c.batch \subseteq c.about /\ c.rest \cap c.batch = {}
  /\ c.about \subseteq Present
  /\ c.op \in Delivering => \A m \in c.about : receipts[m][c.user] = "none"
  /\ c.op \in Reacting =>
       /\ c.step = "commit" /\ (c.op = "remove_reaction" => c.emoji = "none")
       /\ \E m \in Messages :
            /\ c.about = {m}
            /\ IF c.found = "none" THEN ReactionsOf(c.user, m) = {}
               ELSE \E r \in ReactionsOf(c.user, m) : r.by = c.found

\* What a call begins with.
Fit(c) ==
  /\ Whole(c)
  /\ c.step \in {"loop", "commit"}
  /\ c.op = "mark_all_read" => c.step = "loop" /\ c.rest = Unread(c.user) /\ c.all = Present
  /\ c.op # "mark_all_read" => c.all = {}
  /\ c.op = "add_reaction" =>
       /\ c.emoji \in Emojis /\ c.step = "commit"
       /\ \E m \in Messages : /\ c.about = {m}
                              /\ c.found = "none" => ReactionsOf(c.user, m) = {}

SameRows == UNCHANGED <<stored, participants, receipts, reactions, hidden, told, readUpTo>>

Began(q, c) ==
  /\ call[q].step = "new" /\ call' = [call EXCEPT ![q] = c] /\ c.before = EndedCalls
  /\ c.user \in People /\ Fit(c) /\ SameRows

LEMMA StartBegins ==
  ASSUME ReceiptsTypeOK, NEW q \in Calls, NEW k \in CallStates, Fit(k), Start(q, k)
  PROVE  \E c \in CallStates : Began(q, c)
<1> DEFINE c == [k EXCEPT !.before = EndedCalls]
<1>1. /\ call[q].step = "new" /\ k.user \in participants /\ call' = [call EXCEPT ![q] = c]
      /\ SameRows
  BY DEF Start, SameRows
<1>2. EndedCalls \in SUBSET Calls /\ participants \subseteq People
  BY DEF EndedCalls, ReceiptsTypeOK
<1>3. c \in CallStates
  BY <1>2 DEF CallStates
<1>4. /\ c.before = EndedCalls /\ c.op = k.op /\ c.step = k.step /\ c.user = k.user
      /\ c.about = k.about /\ c.rest = k.rest /\ c.batch = k.batch /\ c.all = k.all
      /\ c.emoji = k.emoji /\ c.found = k.found
  BY DEF CallStates
<1> HIDE DEF c
<1>5. Fit(c)
  BY <1>4 DEF Fit, Whole
<1>6. QED
  BY <1>1, <1>2, <1>3, <1>4, <1>5 DEF Began

LEMMA NewCallTyped ==
  NewCall \in CallStates
BY DEF NewCall, CallStates

LEMMA ReceivedTypes ==
  ASSUME ReceiptsTypeOK
  PROVE  /\ Present \subseteq Messages
         /\ \A u \in People : Received(u) \subseteq Present /\ Unread(u) \subseteq Received(u)
BY DEF Present, Received, Unread

LEMMA AllReadBegins ==
  ASSUME ReceiptsTypeOK, NEW q \in Calls, NEW u \in People, MarkAllRead(q, u)
  PROVE  \E c \in CallStates : Began(q, c)
<1> DEFINE k == [NewCall EXCEPT !.op = "mark_all_read", !.step = "loop", !.user = u,
                                !.about = Unread(u), !.rest = Unread(u), !.all = Present]
<1>1. Start(q, k)
  BY DEF MarkAllRead
<1>2. /\ k.op = "mark_all_read" /\ k.step = "loop" /\ k.user = u /\ k.about = Unread(u) /\ k.rest = Unread(u)
      /\ k.batch = {} /\ k.all = Present /\ k.emoji = "none" /\ k.found = "none"
  BY DEF NewCall
<1>3. k \in CallStates
  BY NewCallTyped, ReceivedTypes DEF CallStates, Marking
<1>4. Fit(k)
  BY <1>2, ReceivedTypes DEF Fit, Whole, Delivering, Reacting
<1>5. QED
  BY <1>1, <1>3, <1>4, StartBegins

LEMMA UndeliveredBegins ==
  ASSUME ReceiptsTypeOK, NEW q \in Calls, NEW u \in People, MarkAllUndelivered(q, u)
  PROVE  \E c \in CallStates : Began(q, c)
<1> DEFINE L == {m \in Received(u) : receipts[m][u] = "none"}
           k == [NewCall EXCEPT !.op = "mark_all_undelivered", !.step = "loop", !.user = u,
                                !.about = L, !.rest = L]
<1>1. Start(q, k)
  BY DEF MarkAllUndelivered
<1>2. /\ k.op = "mark_all_undelivered" /\ k.step = "loop" /\ k.user = u /\ k.about = L /\ k.rest = L
      /\ k.batch = {} /\ k.all = {} /\ k.emoji = "none" /\ k.found = "none"
  BY DEF NewCall
<1>3. /\ L \subseteq Messages /\ L \subseteq Present
      /\ \A m \in L : receipts[m][u] = "none"
  BY ReceivedTypes
<1> HIDE DEF L
<1>4. k \in CallStates
  BY NewCallTyped, <1>3 DEF CallStates, Marking
<1>5. Fit(k)
  BY <1>2, <1>3 DEF Fit, Whole, Reacting
<1>6. QED
  BY <1>1, <1>4, <1>5, StartBegins

LEMMA MarkBegins ==
  ASSUME ReceiptsTypeOK, NEW q \in Calls, NEW u \in People, NEW m \in Messages,
         MarkDelivered(q, u, m) \/ MarkRead(q, u, m)
  PROVE  \E c \in CallStates : Began(q, c)
<1>1. PICK op \in {"mark_delivered", "mark_read"}, I \in SUBSET {m} :
        Start(q, [NewCall EXCEPT !.op = op, !.step = "commit", !.user = u,
                                 !.about = {m}, !.batch = {m}, !.insert = I])
        /\ m \in Present /\ (op = "mark_delivered" => receipts[m][u] = "none")
  BY DEF MarkDelivered, MarkRead, Unread, Received
<1> DEFINE k == [NewCall EXCEPT !.op = op, !.step = "commit", !.user = u,
                                !.about = {m}, !.batch = {m}, !.insert = I]
<1>2. /\ k.op = op /\ k.step = "commit" /\ k.user = u /\ k.about = {m} /\ k.rest = {}
      /\ k.batch = {m} /\ k.all = {} /\ k.emoji = "none" /\ k.found = "none"
  BY DEF NewCall
<1>3. k \in CallStates
  BY NewCallTyped DEF CallStates, Marking
<1>4. Fit(k)
  BY <1>1, <1>2 DEF Fit, Whole, Delivering, Reacting
<1>5. QED
  BY <1>1, <1>3, <1>4, StartBegins

LEMMA ReactBegins ==
  ASSUME ReceiptsTypeOK, NEW q \in Calls, NEW u \in People, NEW m \in Messages, NEW e \in Emojis,
         AddReaction(q, u, m, e)
  PROVE  \E c \in CallStates : Began(q, c)
<1>1. PICK f \in Calls \cup {"none"} :
        /\ React(q, u, m, e, f) /\ m \in Present
        /\ IF f = "none" THEN ReactionsOf(u, m) = {}
           ELSE \E r \in ReactionsOf(u, m) : r.by = f
  <2>1. \A r \in ReactionsOf(u, m) : r.by \in Calls
    BY DEF ReactionsOf, ReceiptsTypeOK
  <2>2. QED
    BY <2>1, CallsAssumption DEF AddReaction
<1> DEFINE k == [NewCall EXCEPT !.op = "add_reaction", !.step = "commit", !.user = u,
                                !.about = {m}, !.emoji = e, !.found = f]
<1>2. Start(q, k)
  BY <1>1 DEF React
<1>3. /\ k.op = "add_reaction" /\ k.step = "commit" /\ k.user = u /\ k.about = {m} /\ k.rest = {}
      /\ k.batch = {} /\ k.all = {} /\ k.emoji = e /\ k.found = f
  BY DEF NewCall
<1>4. k \in CallStates
  BY NewCallTyped DEF CallStates
<1>5. Fit(k)
  <2>1. Whole(k)
    BY <1>1, <1>3 DEF Whole, Delivering
  <2>2. QED
    BY <1>1, <1>3, <2>1 DEF Fit
<1>6. QED
  BY <1>2, <1>4, <1>5, StartBegins

LEMMA RemoveBegins ==
  ASSUME ReceiptsTypeOK, NEW q \in Calls, NEW u \in People, NEW m \in Messages,
         RemoveReaction(q, u, m)
  PROVE  \E c \in CallStates : Began(q, c)
<1>1. PICK f \in Calls :
        /\ Start(q, [NewCall EXCEPT !.op = "remove_reaction", !.step = "commit", !.user = u,
                                    !.about = {m}, !.found = f])
        /\ m \in Present /\ \E r \in ReactionsOf(u, m) : r.by = f
  BY DEF RemoveReaction, ReactionsOf, ReceiptsTypeOK
<1> DEFINE k == [NewCall EXCEPT !.op = "remove_reaction", !.step = "commit", !.user = u,
                                !.about = {m}, !.found = f]
<1>2. /\ k.op = "remove_reaction" /\ k.step = "commit" /\ k.user = u /\ k.about = {m} /\ k.rest = {}
      /\ k.batch = {} /\ k.all = {} /\ k.emoji = "none" /\ k.found = f
  BY DEF NewCall
<1>3. k \in CallStates
  BY NewCallTyped DEF CallStates
<1>4. Fit(k)
  BY <1>1, <1>2, CallsAssumption DEF Fit, Whole, Delivering
<1>5. QED
  BY <1>1, <1>3, <1>4, StartBegins

LEMMA HideBegins ==
  ASSUME ReceiptsTypeOK, NEW q \in Calls, NEW u \in People, NEW M \in SUBSET Messages,
         DeleteForMe(q, u, M)
  PROVE  \E c \in CallStates : Began(q, c)
<1> DEFINE I == {m \in M : <<m, u>> \notin hidden}
           k == [NewCall EXCEPT !.op = "delete_for_me", !.step = "commit", !.user = u,
                                !.about = M, !.insert = I]
<1>1. Start(q, k) /\ I \in SUBSET Messages /\ M \subseteq Present
  BY DEF DeleteForMe
<1>2. /\ k.op = "delete_for_me" /\ k.step = "commit" /\ k.user = u /\ k.about = M /\ k.rest = {}
      /\ k.batch = {} /\ k.all = {} /\ k.emoji = "none" /\ k.found = "none"
  BY DEF NewCall
<1> HIDE DEF I
<1>3. k \in CallStates
  BY NewCallTyped, <1>1 DEF CallStates
<1>4. Fit(k)
  BY <1>1, <1>2 DEF Fit, Whole, Delivering, Reacting
<1>5. QED
  BY <1>1, <1>3, <1>4, StartBegins

\* The first step of a call.
FirstStep(q) ==
  \E u \in People :
    \/ MarkAllRead(q, u) \/ MarkAllUndelivered(q, u)
    \/ \E m \in Messages :
         \/ MarkDelivered(q, u, m) \/ MarkRead(q, u, m)
         \/ RemoveReaction(q, u, m)
         \/ \E e \in Emojis : AddReaction(q, u, m, e)
    \/ \E M \in SUBSET Messages : DeleteForMe(q, u, M)

LEMMA FirstStepBegins ==
  ASSUME ReceiptsTypeOK, NEW q \in Calls, FirstStep(q)
  PROVE  \E c \in CallStates : Began(q, c)
BY AllReadBegins, UndeliveredBegins, MarkBegins, ReactBegins, RemoveBegins, HideBegins
   DEF FirstStep

LEMMA BeganTypes ==
  ASSUME RT, NEW q \in Calls, NEW c \in CallStates, Began(q, c)
  PROVE  RT' /\ EndedCalls' = EndedCalls
<1>1. /\ call[q].step = "new" /\ call' = [call EXCEPT ![q] = c] /\ call \in [Calls -> CallStates]
      /\ c.before = EndedCalls /\ c.user \in People /\ Fit(c) /\ SameRows
  BY DEF Began, RT, ReceiptsTypeOK
<1>2. ReceiptsTypeOK'
  BY <1>1 DEF RT, ReceiptsTypeOK, SameRows, Present
<1>3. EndedCalls' = EndedCalls
  BY <1>1 DEF EndedCalls, Fit
<1>4. ASSUME NEW p \in Calls \ {q} PROVE CallOK(p)'
  <2>1. call'[p] = call[p] /\ CallOK(p)
    BY <1>1 DEF RT
  <2>2. QED
    BY <1>3, <2>1 DEF CallOK
<1>5. CallOK(q)'
  <2>1. call'[q] = c
    BY <1>1
  <2>2. QED
    BY <1>1, <1>3, <2>1 DEF CallOK, Fit
<1>6. QED
  BY <1>2, <1>3, <1>4, <1>5 DEF RT

\* A call goes on: c is what it is after the step.
GoesOn(q, c) ==
  /\ call' = [call EXCEPT ![q] = c] /\ c \in CallStates
  /\ call[q].step \in {"loop", "commit", "publish"} /\ c.step # "new"
  /\ c.op = call[q].op /\ c.user = call[q].user /\ c.about = call[q].about
  /\ c.emoji = call[q].emoji /\ c.before = call[q].before
  /\ c.all \in {call[q].all, {}}
  /\ c.op = "mark_all_read" /\ c.step \in {"commit", "publish"} => c.rest = {}
  /\ c.op = "mark_all_read" /\ c.step \in {"loop", "commit"} =>
       /\ call[q].step = "loop" /\ c.all = call[q].all
       /\ call[q].rest \cup call[q].batch \subseteq c.rest \cup c.batch
  /\ c.op = "add_reaction" => c.step \notin {"loop", "commit"}

LEMMA GoesOnTypes ==
  ASSUME RT, NEW q \in Calls, NEW c, GoesOn(q, c)
  PROVE  /\ call' \in [Calls -> CallStates] /\ EndedCalls \subseteq EndedCalls'
         /\ \A p \in Calls : CallOK(p)'
<1>1. call \in [Calls -> CallStates]
  BY DEF RT, ReceiptsTypeOK
<1>2. EndedCalls \subseteq EndedCalls'
  BY <1>1 DEF EndedCalls, GoesOn
<1>3. ASSUME NEW p \in Calls \ {q} PROVE CallOK(p)'
  <2>1. call'[p] = call[p] /\ CallOK(p)
    BY <1>1 DEF RT, GoesOn
  <2>2. QED
    BY <1>2, <2>1 DEF CallOK
<1>4. CallOK(q)'
  <2>1. call'[q] = c /\ CallOK(q)
    BY <1>1 DEF RT, GoesOn
  <2>2. QED
    BY <1>2, <2>1 DEF CallOK, GoesOn
<1>5. QED
  BY <1>1, <1>2, <1>3, <1>4 DEF GoesOn

LEMMA ReturnGoesOn ==
  ASSUME RT, NEW q \in Calls, NEW step \in {"done", "cut"}, Return(q, step),
         call[q].step \in {"loop", "commit", "publish"}
  PROVE  \E c : GoesOn(q, c) /\ c.step = step
<1>1. PICK k \in CallStates : k = call[q]
  BY DEF RT, ReceiptsTypeOK
<1> DEFINE c == [k EXCEPT !.step = step, !.rest = {}, !.batch = {}, !.insert = {},
                          !.found = "none", !.all = {}]
<1>2. call' = [call EXCEPT ![q] = c]
  BY <1>1 DEF Return
<1>3. c \in CallStates
  BY DEF CallStates
<1>4. /\ c.op = k.op /\ c.user = k.user /\ c.about = k.about /\ c.emoji = k.emoji
      /\ c.before = k.before /\ c.all = {} /\ c.step = step
  BY DEF CallStates
<1> HIDE DEF c
<1>5. QED
  BY <1>1, <1>2, <1>3, <1>4 DEF GoesOn

LEMMA LookUpFacts ==
  ASSUME RT, NEW q \in Calls, LookUp(q)
  PROVE  \E c : GoesOn(q, c) /\ SameRows /\ RT'
<1> DEFINE k == call[q]
<1>1. k \in CallStates
  BY DEF RT, ReceiptsTypeOK
<1>2. k.step = "loop" /\ SameRows
  BY DEF LookUp, SameRows
<1>3. PICK m \in k.rest :
        call' = [call EXCEPT ![q] =
            [k EXCEPT !.rest = k.rest \ {m},
                      !.batch = k.batch \cup {m},
                      !.insert = k.insert \cup {x \in {m} : receipts[x][k.user] = "none"},
                      !.step = IF k.op = "mark_all_read" /\ k.rest # {m}
                               THEN "loop" ELSE "commit"]]
  BY Zenon DEF LookUp
<1> DEFINE I == k.insert \cup {x \in {m} : receipts[x][k.user] = "none"}
           s == IF k.op = "mark_all_read" /\ k.rest # {m} THEN "loop" ELSE "commit"
<1> HIDE DEF k
<1>4. I \in SUBSET Messages /\ s \in {"loop", "commit"}
      /\ (k.op = "mark_all_read" /\ s = "commit" => k.rest = {m})
      /\ k.rest \ {m} \in SUBSET Messages /\ k.batch \cup {m} \in SUBSET Messages
  BY <1>1 DEF CallStates
<1> HIDE DEF I, s
<1> DEFINE c == [k EXCEPT !.rest = k.rest \ {m}, !.batch = k.batch \cup {m},
                          !.insert = I, !.step = s]
<1>5. call' = [call EXCEPT ![q] = c]
  BY <1>3 DEF I, s
<1>6. c \in CallStates
  BY <1>1, <1>4 DEF CallStates
<1>7. /\ c.op = k.op /\ c.user = k.user /\ c.about = k.about /\ c.emoji = k.emoji
      /\ c.before = k.before /\ c.all = k.all /\ c.step = s
      /\ c.rest = k.rest \ {m} /\ c.batch = k.batch \cup {m}
  BY <1>1 DEF CallStates
<1>8. k.op # "add_reaction"
  BY <1>1, <1>2 DEF RT, CallOK, k
<1> HIDE DEF c
<1>9. GoesOn(q, c)
  BY <1>1, <1>2, <1>4, <1>5, <1>6, <1>7, <1>8 DEF GoesOn, k
<1>10. ReceiptsTypeOK'
  BY <1>2, <1>9, GoesOnTypes DEF RT, ReceiptsTypeOK, SameRows, Present
<1>11. QED
  BY <1>2, <1>9, <1>10, GoesOnTypes DEF RT

LEMMA CommitReceiptsFacts ==
  ASSUME RT, NEW q \in Calls, CommitReceipts(q)
  PROVE  /\ \E c : GoesOn(q, c) /\ c.step = "publish"
         /\ RT' /\ call[q].step = "commit" /\ call[q].op \in Marking
         /\ call[q].batch \subseteq Present /\ call[q].user \in People
         /\ \A m \in Messages, u \in People :
              receipts'[m][u] = IF m \in call[q].batch /\ u = call[q].user
                                THEN Marked(call[q], receipts[m][u]) ELSE receipts[m][u]
         /\ readUpTo' = [readUpTo EXCEPT ![call[q].user] = @ \cup call[q].all]
         /\ UNCHANGED <<stored, participants, reactions, hidden>>
<1>1. PICK k \in CallStates : k = call[q]
  BY DEF RT, ReceiptsTypeOK
<1>2. /\ k.step = "commit" /\ k.op \in Marking /\ Accepted(k)
      /\ receipts' = [m \in Messages |-> IF m \notin k.batch THEN receipts[m] ELSE
                       [receipts[m] EXCEPT ![k.user] = Marked(k, @)]]
      /\ readUpTo' = [readUpTo EXCEPT ![k.user] = @ \cup k.all]
      /\ call' = [call EXCEPT ![q] = [k EXCEPT !.step = "publish", !.insert = {}]]
      /\ UNCHANGED <<stored, participants, reactions, hidden, told>>
  BY <1>1 DEF CommitReceipts
<1> DEFINE c == [k EXCEPT !.step = "publish", !.insert = {}]
<1>3. c \in CallStates
  BY DEF CallStates
<1>4. /\ c.op = k.op /\ c.user = k.user /\ c.about = k.about /\ c.emoji = k.emoji
      /\ c.before = k.before /\ c.all = k.all /\ c.step = "publish" /\ c.rest = k.rest
  BY DEF CallStates
<1> HIDE DEF c
<1>5. k.user \in People /\ (k.op = "mark_all_read" => k.rest = {})
  BY <1>1, <1>2 DEF RT, CallOK
<1>6. GoesOn(q, c)
  BY <1>1, <1>2, <1>3, <1>4, <1>5 DEF GoesOn, c
<1>7. k.batch \subseteq Present /\ \A mark : Marked(k, mark) \in Marks
  BY <1>2 DEF Accepted, Marked, Marks
<1>8. \A m \in Messages, u \in People :
        receipts'[m][u] = IF m \in k.batch /\ u = k.user THEN Marked(k, receipts[m][u])
                          ELSE receipts[m][u]
  BY <1>2, <1>5 DEF RT, ReceiptsTypeOK
<1>9. receipts' \in [Messages -> [People -> Marks]]
  BY <1>2, <1>5, <1>7 DEF RT, ReceiptsTypeOK
<1>10. readUpTo' \in [People -> SUBSET Messages]
  BY <1>2, <1>5 DEF RT, ReceiptsTypeOK, CallStates
<1>11. ReceiptsTypeOK'
  <2>1. Present' = Present
    BY <1>2 DEF Present
  <2>2. \A m \in Messages \ Present, u \in People : receipts'[m][u] = "none"
    BY <1>7, <1>8 DEF RT, ReceiptsTypeOK
  <2>3. QED
    BY <1>2, <1>6, <1>9, <1>10, <2>1, <2>2, GoesOnTypes DEF RT, ReceiptsTypeOK
<1>12. RT'
  BY <1>6, <1>11, GoesOnTypes DEF RT
<1>13. QED
  BY <1>1, <1>2, <1>4, <1>5, <1>6, <1>7, <1>8, <1>12

LEMMA PublishReceiptFacts ==
  ASSUME RT, NEW q \in Calls, PublishReceipt(q)
  PROVE  /\ \E c : GoesOn(q, c)
         /\ RT' /\ UNCHANGED <<stored, participants, receipts, reactions, hidden, readUpTo>>
<1>1. PICK k \in CallStates : k = call[q]
  BY DEF RT, ReceiptsTypeOK
<1>2. PICK m \in k.batch :
        /\ told' = [told EXCEPT ![m][k.user].receipt =
                      IF k.op \in {"mark_read", "mark_all_read"} THEN "read" ELSE "delivered"]
        /\ CASE k.batch # {m} -> call' = [call EXCEPT ![q].batch = @ \ {m}]
             [] k.batch = {m} /\ k.rest # {} ->
                  call' = [call EXCEPT ![q] = [@ EXCEPT !.batch = {}, !.step = "loop"]]
             [] OTHER -> End(q)
  BY <1>1 DEF PublishReceipt
<1>3. /\ k.step = "publish" /\ k.op \in Marking
      /\ UNCHANGED <<stored, participants, receipts, reactions, hidden, readUpTo>>
  BY <1>1 DEF PublishReceipt
<1>4. k.user \in People /\ (k.op = "mark_all_read" => k.rest = {}) /\ m \in Messages
  BY <1>1, <1>3 DEF RT, CallOK, CallStates
<1>5. \E c : GoesOn(q, c)
  <2>1. CASE k.batch # {m}
    <3> DEFINE c == [k EXCEPT !.batch = @ \ {m}]
    <3>1. call' = [call EXCEPT ![q] = c]
      BY <1>1, <1>2, <2>1
    <3>2. c \in CallStates
      BY DEF CallStates
    <3>3. /\ c.op = k.op /\ c.user = k.user /\ c.about = k.about /\ c.emoji = k.emoji
          /\ c.before = k.before /\ c.all = k.all /\ c.step = "publish" /\ c.rest = k.rest
      BY <1>3 DEF CallStates
    <3> HIDE DEF c
    <3>4. GoesOn(q, c)
      BY <1>1, <1>3, <1>4, <3>1, <3>2, <3>3 DEF GoesOn
    <3>5. QED
      BY <3>4
  <2>2. CASE k.batch = {m} /\ k.rest # {}
    <3> DEFINE c == [k EXCEPT !.batch = {}, !.step = "loop"]
    <3>1. call' = [call EXCEPT ![q] = c]
      BY <1>1, <1>2, <2>2
    <3>2. c \in CallStates
      BY DEF CallStates
    <3>3. /\ c.op = k.op /\ c.user = k.user /\ c.about = k.about /\ c.emoji = k.emoji
          /\ c.before = k.before /\ c.all = k.all /\ c.step = "loop"
      BY DEF CallStates
    <3> HIDE DEF c
    <3>4. k.op # "mark_all_read" /\ k.op # "add_reaction"
      BY <1>3, <1>4, <2>2 DEF Marking
    <3>5. GoesOn(q, c)
      BY <1>1, <1>3, <1>4, <3>1, <3>2, <3>3, <3>4 DEF GoesOn
    <3>6. QED
      BY <3>5
  <2>3. CASE k.batch = {m} /\ k.rest = {}
    <3>1. Return(q, "done")
      BY <1>2, <2>3 DEF End
    <3>2. QED
      BY <1>1, <1>3, <3>1, ReturnGoesOn
  <2>4. QED
    BY <2>1, <2>2, <2>3
<1>6. told' \in [Messages -> [People -> [receipt : Marks, reaction : Emojis \cup {"none"}]]]
  <2> DEFINE mark == IF k.op \in {"mark_read", "mark_all_read"} THEN "read" ELSE "delivered"
  <2>1. mark \in Marks
    BY DEF Marks
  <2> HIDE DEF mark
  <2>2. PICK t \in [receipt : Marks, reaction : Emojis \cup {"none"}] : t = told[m][k.user]
    BY <1>4 DEF RT, ReceiptsTypeOK
  <2>3. [t EXCEPT !.receipt = mark] \in [receipt : Marks, reaction : Emojis \cup {"none"}]
    BY <2>1
  <2> DEFINE t1 == [t EXCEPT !.receipt = mark]
  <2>4. told' = [told EXCEPT ![m] = [told[m] EXCEPT ![k.user] = t1]]
    BY <1>2, <2>2 DEF mark
  <2> HIDE DEF t1
  <2>5. QED
    BY <1>4, <2>3, <2>4 DEF RT, ReceiptsTypeOK, t1
<1>7. ReceiptsTypeOK'
  BY <1>3, <1>5, <1>6, GoesOnTypes DEF RT, ReceiptsTypeOK, Present
<1>8. QED
  BY <1>3, <1>5, <1>7, GoesOnTypes DEF RT

LEMMA RemovalFacts ==
  ASSUME RT, NEW q \in Calls, CommitRemoval(q)
  PROVE  /\ \E c : GoesOn(q, c)
         /\ RT' /\ reactions' \subseteq reactions
         /\ UNCHANGED <<stored, participants, receipts, hidden, readUpTo>>
<1>1. PICK k \in CallStates : k = call[q]
  BY DEF RT, ReceiptsTypeOK
<1>2. /\ k.step = "commit" /\ k.op = "remove_reaction"
      /\ reactions' = reactions \ FoundRow(k)
      /\ call' = [call EXCEPT ![q].step = "publish"]
      /\ UNCHANGED <<stored, participants, receipts, hidden, told, readUpTo>>
  BY <1>1 DEF CommitRemoval
<1> DEFINE c == [k EXCEPT !.step = "publish"]
<1>3. call' = [call EXCEPT ![q] = c]
  BY <1>1, <1>2
<1>4. c \in CallStates
  BY DEF CallStates
<1>5. /\ c.op = k.op /\ c.user = k.user /\ c.about = k.about /\ c.emoji = k.emoji
      /\ c.before = k.before /\ c.all = k.all /\ c.step = "publish"
  BY DEF CallStates
<1> HIDE DEF c
<1>6. GoesOn(q, c)
  BY <1>1, <1>2, <1>3, <1>4, <1>5 DEF GoesOn
<1>7. ReceiptsTypeOK'
  BY <1>2, <1>6, GoesOnTypes DEF RT, ReceiptsTypeOK, Present
<1>8. QED
  BY <1>2, <1>6, <1>7, GoesOnTypes DEF RT

\* The row a reaction is stored in: q's own, or the one it found, with a new emoji.
LEMMA ReactionFacts ==
  ASSUME RT, NEW q \in Calls, CommitReaction(q)
  PROVE  /\ \E c : GoesOn(q, c)
         /\ RT' /\ call[q].step = "commit" /\ call[q].op = "add_reaction"
         /\ UNCHANGED <<stored, participants, receipts, hidden, readUpTo>>
         /\ \/ /\ call[q].found = "none"
               /\ \E m \in call[q].about :
                    reactions' = reactions \cup {[msg |-> m, user |-> call[q].user,
                                                  emoji |-> call[q].emoji, by |-> q]}
            \/ \A r \in reactions' : \E s \in reactions :
                 r.msg = s.msg /\ r.user = s.user /\ r.by = s.by
                 /\ (s.by # call[q].found => r = s) /\ (s.by = call[q].found => r.emoji = call[q].emoji)
<1>1. PICK k \in CallStates : k = call[q]
  BY DEF RT, ReceiptsTypeOK
<1>2. /\ k.step = "commit" /\ k.op = "add_reaction"
      /\ call' = [call EXCEPT ![q].step = "publish"]
      /\ UNCHANGED <<stored, participants, receipts, hidden, told, readUpTo>>
  BY <1>1 DEF CommitReaction
<1>3. PICK m \in Messages : k.about = {m}
  BY <1>1, <1>2 DEF RT, CallOK
<1>4. k.user \in People /\ k.emoji \in Emojis
  BY <1>1, <1>2 DEF RT, CallOK
<1> DEFINE c == [k EXCEPT !.step = "publish"]
<1>5. call' = [call EXCEPT ![q] = c]
  BY <1>1, <1>2
<1>6. c \in CallStates
  BY DEF CallStates
<1>7. /\ c.op = k.op /\ c.user = k.user /\ c.about = k.about /\ c.emoji = k.emoji
      /\ c.before = k.before /\ c.all = k.all /\ c.step = "publish"
  BY DEF CallStates
<1> HIDE DEF c
<1>8. GoesOn(q, c)
  BY <1>1, <1>2, <1>5, <1>6, <1>7 DEF GoesOn
<1>9. /\ m \in Present
      /\ IF k.found = "none"
         THEN reactions' = reactions \cup
                {[msg |-> m, user |-> k.user, emoji |-> k.emoji, by |-> q]}
         ELSE reactions' = (reactions \ FoundRow(k)) \cup
                {[r EXCEPT !.emoji = k.emoji] : r \in FoundRow(k)}
  BY <1>1, <1>3 DEF CommitReaction
<1> DEFINE RR == [msg : Present, user : People, emoji : Emojis, by : Calls]
<1>10. reactions \subseteq RR
  BY DEF RT, ReceiptsTypeOK
<1>11. CASE k.found = "none"
  <2>1. [msg |-> m, user |-> k.user, emoji |-> k.emoji, by |-> q] \in RR
    BY <1>4, <1>9
  <2> DEFINE new == [msg |-> m, user |-> k.user, emoji |-> k.emoji, by |-> q]
  <2>2. reactions' = reactions \cup {new}
    BY <1>9, <1>11
  <2> HIDE DEF RR, new
  <2>3. reactions' \subseteq RR
    BY <1>10, <2>1, <2>2 DEF new
  <2>4. ReceiptsTypeOK'
    BY <1>2, <1>8, <2>3, GoesOnTypes DEF RT, ReceiptsTypeOK, Present, RR
  <2>5. \E x \in call[q].about :
          reactions' = reactions \cup {[msg |-> x, user |-> call[q].user,
                                        emoji |-> call[q].emoji, by |-> q]}
    BY <1>1, <1>3, <2>2 DEF new
  <2>6. QED
    BY <1>1, <1>2, <1>8, <1>11, <2>4, <2>5, GoesOnTypes DEF RT
<1>12. CASE k.found # "none"
  <2>1. ASSUME NEW r \in RR
        PROVE  /\ [r EXCEPT !.emoji = k.emoji] \in RR
               /\ [r EXCEPT !.emoji = k.emoji].msg = r.msg
               /\ [r EXCEPT !.emoji = k.emoji].user = r.user
               /\ [r EXCEPT !.emoji = k.emoji].by = r.by
               /\ [r EXCEPT !.emoji = k.emoji].emoji = k.emoji
    BY <1>4
  <2>2. reactions' = (reactions \ FoundRow(k)) \cup
                     {[r EXCEPT !.emoji = k.emoji] : r \in FoundRow(k)}
    BY <1>9, <1>12
  <2>3. \A r \in FoundRow(k) : r \in reactions /\ r.by = k.found
    BY DEF FoundRow
  <2>4. \A r \in reactions \ FoundRow(k) : r.by # k.found
    BY DEF FoundRow
  <2> HIDE DEF RR
  <2>5. reactions' \subseteq RR
    BY <1>10, <2>1, <2>2, <2>3
  <2>6. ReceiptsTypeOK'
    BY <1>2, <1>8, <2>5, GoesOnTypes DEF RT, ReceiptsTypeOK, Present, RR
  <2>7. \A r \in reactions' : \E s \in reactions :
           r.msg = s.msg /\ r.user = s.user /\ r.by = s.by
           /\ (s.by # k.found => r = s) /\ (s.by = k.found => r.emoji = k.emoji)
    BY <1>10, <2>1, <2>2, <2>3, <2>4
  <2>8. QED
    BY <1>1, <1>2, <1>8, <2>6, <2>7, GoesOnTypes DEF RT
<1>13. QED
  BY <1>11, <1>12

LEMMA PublishReactionFacts ==
  ASSUME RT, NEW q \in Calls, PublishReaction(q)
  PROVE  /\ \E c : GoesOn(q, c)
         /\ RT' /\ UNCHANGED <<stored, participants, receipts, reactions, hidden, readUpTo>>
<1>1. /\ call[q].step = "publish" /\ Return(q, "done")
      /\ UNCHANGED <<stored, participants, receipts, reactions, hidden, readUpTo>>
      /\ told' = [m \in Messages |-> IF m \notin call[q].about THEN told[m] ELSE
                   [told[m] EXCEPT ![call[q].user].reaction = call[q].emoji]]
  BY DEF PublishReaction, End
<1>2. \E c : GoesOn(q, c)
  BY <1>1, ReturnGoesOn
<1>3. call[q].user \in People /\ call[q].emoji \in Emojis \cup {"none"}
  BY <1>1 DEF RT, ReceiptsTypeOK, CallOK, CallStates
<1> DEFINE TT == [receipt : Marks, reaction : Emojis \cup {"none"}]
<1>4. told' \in [Messages -> [People -> TT]]
  <2>1. ASSUME NEW m \in Messages PROVE told'[m] \in [People -> TT]
    <3>1. told[m] \in [People -> TT] /\ told[m][call[q].user] \in TT
      BY <1>3 DEF RT, ReceiptsTypeOK
    <3>2. PICK t \in TT : t = told[m][call[q].user]
      BY <3>1
    <3> DEFINE t1 == [t EXCEPT !.reaction = call[q].emoji]
    <3>3. t1 \in TT
      BY <1>3
    <3>4. m \in call[q].about => told'[m] = [told[m] EXCEPT ![call[q].user] = t1]
      BY <1>1, <3>2
    <3> HIDE DEF t1, TT
    <3>5. QED
      BY <1>1, <3>1, <3>3, <3>4
  <2> HIDE DEF TT
  <2>2. QED
    BY <1>1, <2>1
<1>5. ReceiptsTypeOK'
  BY <1>1, <1>2, <1>4, GoesOnTypes DEF RT, ReceiptsTypeOK, Present
<1>6. QED
  BY <1>1, <1>2, <1>5, GoesOnTypes DEF RT

LEMMA CommitHiddenFacts ==
  ASSUME RT, NEW q \in Calls, CommitHidden(q)
  PROVE  /\ \E c : GoesOn(q, c)
         /\ RT' /\ hidden \subseteq hidden'
         /\ UNCHANGED <<stored, participants, receipts, reactions, readUpTo>>
<1>1. /\ call[q].step = "commit" /\ Return(q, "done")
      /\ call[q].insert \subseteq Present
      /\ hidden' = hidden \cup (call[q].insert \X {call[q].user})
      /\ UNCHANGED <<stored, participants, receipts, reactions, told, readUpTo>>
  BY DEF CommitHidden, End
<1>2. \E c : GoesOn(q, c)
  BY <1>1, ReturnGoesOn
<1>3. call[q].user \in People
  BY <1>1 DEF RT, CallOK
<1>4. hidden' \subseteq Present \X People
  BY <1>1, <1>3 DEF RT, ReceiptsTypeOK
<1>5. ReceiptsTypeOK'
  BY <1>1, <1>2, <1>4, GoesOnTypes DEF RT, ReceiptsTypeOK, Present
<1>6. QED
  BY <1>1, <1>2, <1>5, GoesOnTypes DEF RT

LEMMA CutFacts ==
  ASSUME RT, NEW q \in Calls, Cut(q)
  PROVE  /\ \E c : GoesOn(q, c)
         /\ RT' /\ SameRows
<1>1. call[q].step \in {"loop", "commit", "publish"} /\ Return(q, "cut") /\ SameRows
  BY DEF Cut, SameRows
<1>2. \E c : GoesOn(q, c)
  BY <1>1, ReturnGoesOn
<1>3. ReceiptsTypeOK'
  BY <1>1, <1>2, GoesOnTypes DEF RT, ReceiptsTypeOK, Present, SameRows
<1>4. QED
  BY <1>1, <1>2, <1>3, GoesOnTypes DEF RT

\* Messages and participants that come and go.
Surroundings ==
  \/ ClearChat
  \/ \E m \in Messages : Create(m)
  \/ \E u \in People : Leave(u) \/ Join(u)

LEMMA SurroundingsTypes ==
  ASSUME RT, Surroundings
  PROVE  RT' /\ call' = call
<1>1. call' = call /\ told' = told /\ readUpTo' = readUpTo
  BY DEF Surroundings, ClearChat, Create, Leave, Join
<1>2. \A q \in Calls : CallOK(q)'
  BY <1>1 DEF RT, CallOK, EndedCalls
<1>3. ReceiptsTypeOK'
  <2>1. CASE ClearChat
    <3>1. Present' = {} /\ stored' \in [Messages -> {"absent", "present", "cleared"}]
      BY <2>1 DEF ClearChat, Present, RT, ReceiptsTypeOK
    <3>2. /\ receipts' = [m \in Messages |-> [u \in People |-> "none"]] /\ reactions' = {}
          /\ hidden' = {} /\ participants' = participants
      BY <2>1 DEF ClearChat
    <3>3. QED
      BY <1>1, <3>1, <3>2 DEF RT, ReceiptsTypeOK, Marks
  <2>2. CASE \E m \in Messages : Create(m)
    <3>1. PICK m \in Messages : Create(m)
      BY <2>2
    <3>2. /\ stored' = [stored EXCEPT ![m] = "present"]
          /\ UNCHANGED <<participants, receipts, reactions, hidden>>
      BY <3>1 DEF Create
    <3>3. Present \subseteq Present' /\ stored' \in [Messages -> {"absent", "present", "cleared"}]
      BY <3>2 DEF Present, RT, ReceiptsTypeOK
    <3>4. QED
      BY <1>1, <3>2, <3>3 DEF RT, ReceiptsTypeOK
  <2>3. CASE \E u \in People : Leave(u) \/ Join(u)
    BY <1>1, <2>3 DEF Leave, Join, RT, ReceiptsTypeOK, Present
  <2>4. QED
    BY <2>1, <2>2, <2>3 DEF Surroundings
<1>4. QED
  BY <1>1, <1>2, <1>3 DEF RT

-----------------------------------------------------------------------------
(* The steps, sorted by what they do to the calls.                         *)

GoingOn(q) ==
  \/ LookUp(q) \/ CommitReceipts(q) \/ PublishReceipt(q)
  \/ CommitReaction(q) \/ CommitRemoval(q) \/ PublishReaction(q)
  \/ CommitHidden(q) \/ Cut(q)

LEMMA NextSorted ==
  ASSUME ReceiptsNext
  PROVE  (\E q \in Calls : FirstStep(q) \/ GoingOn(q)) \/ Surroundings
BY DEF ReceiptsNext, FirstStep, GoingOn, Surroundings

LEMMA GoingOnFacts ==
  ASSUME RT, NEW q \in Calls, GoingOn(q)
  PROVE  /\ \E c : GoesOn(q, c)
         /\ RT' /\ stored' = stored /\ participants' = participants
         /\ hidden \subseteq hidden'
         /\ CommitReceipts(q) \/ (receipts' = receipts /\ readUpTo' = readUpTo)
         /\ CommitReaction(q) \/ reactions' \subseteq reactions
<1>1. CASE LookUp(q) \/ Cut(q)
  BY <1>1, LookUpFacts, CutFacts DEF SameRows
<1>2. CASE CommitReceipts(q)
  BY <1>2, CommitReceiptsFacts
<1>3. CASE PublishReceipt(q) \/ PublishReaction(q)
  BY <1>3, PublishReceiptFacts, PublishReactionFacts
<1>4. CASE CommitReaction(q)
  BY <1>4, ReactionFacts
<1>5. CASE CommitRemoval(q)
  BY <1>5, RemovalFacts
<1>6. CASE CommitHidden(q)
  BY <1>6, CommitHiddenFacts
<1>7. QED
  BY <1>1, <1>2, <1>3, <1>4, <1>5, <1>6 DEF GoingOn

LEMMA InitTypes ==
  ASSUME ReceiptsInit
  PROVE  RT
<1>1. ReceiptsTypeOK
  BY NewCallTyped DEF ReceiptsInit, ReceiptsTypeOK, Present, Marks
<1>2. \A q \in Calls : CallOK(q)
  BY DEF ReceiptsInit, CallOK, NewCall
<1>3. QED
  BY <1>1, <1>2 DEF RT

LEMMA StutterTypes ==
  ASSUME RT, UNCHANGED receiptVars
  PROVE  RT'
<1>1. ReceiptsTypeOK'
  BY DEF RT, ReceiptsTypeOK, Present, receiptVars
<1>2. ASSUME NEW q \in Calls PROVE CallOK(q)'
  BY DEF RT, CallOK, EndedCalls, receiptVars
<1>3. QED
  BY <1>1, <1>2 DEF RT

LEMMA NextTypes ==
  ASSUME RT, [ReceiptsNext]_receiptVars
  PROVE  RT'
<1>1. ReceiptsTypeOK
  BY DEF RT
<1>2. ASSUME NEW q \in Calls, FirstStep(q) PROVE RT'
  BY <1>1, <1>2, FirstStepBegins, BeganTypes
<1>3. QED
  BY <1>2, GoingOnFacts, SurroundingsTypes, StutterTypes, NextSorted

\* The types of the state, no receipt, reaction or hidden mark of a message that is
\* gone, and what every call keeps to at each of its steps.
THEOREM ReceiptsInvariant ==
  ReceiptsSpec => []RT
<1>1. ReceiptsInit => RT
  BY InitTypes
<1>2. RT /\ [ReceiptsNext]_receiptVars => RT'
  BY NextTypes
<1>3. QED
  BY <1>1, <1>2, PTL DEF ReceiptsSpec

\* Every variable of MessageReceipts has its type, and no receipt, reaction or hidden
\* mark refers to a message that is not there: each commit asks for the message, and
\* clear_chat takes the rows with it.
THEOREM ReceiptsTypesCorrect ==
  ReceiptsSpec => []ReceiptsTypeOK
<1>1. RT => ReceiptsTypeOK
  BY DEF RT
<1>2. QED
  BY <1>1, ReceiptsInvariant, PTL

-----------------------------------------------------------------------------
(* The badge.  What a mark_all_read found is read already, or still to be  *)
(* committed by it; and what is read stays read.                           *)

ReadDone ==
  \A u \in People : \A m \in readUpTo[u] :
    stored[m] # "absent" /\ (m \in Received(u) => receipts[m][u] = "read")

ReadDue(q) ==
  (call[q].op = "mark_all_read" /\ call[q].step \in {"loop", "commit"}) =>
    \A m \in call[q].all :
      /\ stored[m] # "absent"
      /\ m \in Received(call[q].user) =>
           \/ receipts[m][call[q].user] = "read"
           \/ m \in call[q].batch \cup call[q].rest

Badge == ReadDone /\ \A q \in Calls : ReadDue(q)

\* Messages do not come back, and what is read stays read.
Steady ==
  \A m \in Messages : stored[m] # "absent" =>
    /\ stored'[m] # "absent"
    /\ \A u \in People : m \in Received(u)' =>
         m \in Received(u) /\ (receipts[m][u] = "read" => receipts'[m][u] = "read")

LEMMA SteadySteps ==
  ASSUME RT, [ReceiptsNext]_receiptVars
  PROVE  Steady
<1>1. ReceiptsTypeOK
  BY DEF RT
<1>2. ASSUME UNCHANGED <<stored, receipts>> PROVE Steady
  BY <1>2 DEF Steady, Received, Present
<1>3. ASSUME NEW q \in Calls, FirstStep(q) PROVE Steady
  BY <1>1, <1>2, <1>3, FirstStepBegins DEF Began, SameRows
<1>4. ASSUME NEW q \in Calls, GoingOn(q) PROVE Steady
  <2>1. CASE CommitReceipts(q)
    <3>1. \A mark : mark = "read" => Marked(call[q], mark) = "read"
      BY DEF Marked
    <3>2. \A m \in Messages, u \in People : receipts[m][u] = "read" => receipts'[m][u] = "read"
      BY <2>1, <3>1, CommitReceiptsFacts
    <3>3. stored' = stored
      BY <2>1, CommitReceiptsFacts
    <3>4. QED
      BY <3>2, <3>3 DEF Steady, Received, Present
  <2>2. QED
    BY <1>2, <1>4, <2>1, GoingOnFacts
<1>5. CASE Surroundings
  <2>1. CASE ClearChat
    BY <1>1, <2>1 DEF ClearChat, Steady, Received, Present, ReceiptsTypeOK
  <2>2. CASE \E m \in Messages : Create(m)
    BY <1>1, <2>2 DEF Create, Steady, Received, Present, ReceiptsTypeOK
  <2>3. CASE \E u \in People : Leave(u) \/ Join(u)
    BY <1>2, <2>3 DEF Leave, Join
  <2>4. QED
    BY <1>5, <2>1, <2>2, <2>3 DEF Surroundings
<1>6. CASE UNCHANGED receiptVars
  BY <1>2, <1>6 DEF receiptVars
<1>7. QED
  BY <1>3, <1>4, <1>5, <1>6, NextSorted

LEMMA ReadDueStays ==
  ASSUME RT, Steady, NEW p \in Calls, NEW q \in Calls, ReadDue(p), call'[q] = call[p]
  PROVE  ReadDue(q)'
<1>1. call[p].all \subseteq Messages /\ (call[p].step # "new" => call[p].user \in People)
  BY DEF RT, ReceiptsTypeOK, CallStates, CallOK
<1>2. QED
  BY <1>1 DEF ReadDue, Steady

LEMMA ReadDoneStays ==
  ASSUME RT, Steady, ReadDone, readUpTo' = readUpTo
  PROVE  ReadDone'
<1>1. \A u \in People : readUpTo[u] \subseteq Messages
  BY DEF RT, ReceiptsTypeOK
<1>2. QED
  BY <1>1 DEF ReadDone, Steady

LEMMA ReadDueBegins ==
  ASSUME RT, Steady, Badge, NEW q \in Calls, NEW c \in CallStates, Began(q, c)
  PROVE  Badge'
<1>1. /\ call' = [call EXCEPT ![q] = c] /\ c.user \in People /\ Fit(c) /\ SameRows
      /\ call \in [Calls -> CallStates]
  BY DEF Began, RT, ReceiptsTypeOK
<1>2. ReadDone'
  BY <1>1, ReadDoneStays DEF Badge, SameRows
<1>3. ReadDue(q)'
  <2>1. call'[q] = c /\ Received(c.user)' = Received(c.user)
    BY <1>1 DEF SameRows, Received, Present
  <2>2. \A m \in Present : stored[m] # "absent" /\ stored' = stored /\ receipts' = receipts
    BY <1>1 DEF Present, SameRows
  <2>3. QED
    BY <1>1, <2>1, <2>2 DEF ReadDue, Fit, Unread
<1>4. ASSUME NEW p \in Calls \ {q} PROVE ReadDue(p)'
  BY <1>1, ReadDueStays DEF Badge
<1>5. QED
  BY <1>2, <1>3, <1>4 DEF Badge

LEMMA ReadDueGoesOn ==
  ASSUME RT, Steady, Badge, NEW q \in Calls, GoingOn(q)
  PROVE  Badge'
<1>1. PICK c : GoesOn(q, c)
  BY GoingOnFacts
<1>2. /\ call' = [call EXCEPT ![q] = c] /\ call'[q] = c /\ c \in CallStates
      /\ call \in [Calls -> CallStates] /\ CallOK(q)
  BY <1>1 DEF GoesOn, RT, ReceiptsTypeOK
<1>3. ReadDone'
  <2>1. CASE readUpTo' = readUpTo
    BY <2>1, ReadDoneStays DEF Badge
  <2>2. CASE CommitReceipts(q)
    <3>0. PICK u \in People, all \in SUBSET Messages : u = call[q].user /\ all = call[q].all
      BY <2>2, CommitReceiptsFacts DEF RT, ReceiptsTypeOK, CallStates
    <3>1. /\ call[q].step = "commit" /\ stored' = stored
          /\ readUpTo' = [readUpTo EXCEPT ![u] = @ \cup all]
          /\ \A m \in Messages, v \in People :
               receipts'[m][v] = IF m \in call[q].batch /\ v = u
                                 THEN Marked(call[q], receipts[m][v]) ELSE receipts[m][v]
      BY <2>2, <3>0, CommitReceiptsFacts
    <3>2. readUpTo \in [People -> SUBSET Messages]
      BY DEF RT, ReceiptsTypeOK, CallStates
    <3>3. ASSUME NEW m \in all, m \in Received(u)'
          PROVE  receipts'[m][u] = "read"
      <4>1. call[q].op = "mark_all_read" /\ call[q].rest = {}
        BY <1>2, <3>0, <3>1, <3>3 DEF CallOK
      <4>2. m \in Received(u) /\ m \in Messages
        BY <3>1, <3>2, <3>3 DEF Received, Present
      <4>3. receipts[m][u] = "read" \/ m \in call[q].batch
        BY <3>0, <3>1, <4>1, <4>2 DEF Badge, ReadDue
      <4>4. \A mark : Marked(call[q], mark) = "read"
        BY <4>1 DEF Marked
      <4>5. QED
        BY <3>1, <4>2, <4>3, <4>4
    <3>4. \A m \in all : stored'[m] # "absent"
      BY <1>2, <3>0, <3>1 DEF Badge, ReadDue, CallOK
    <3>5. ASSUME NEW v \in People, NEW m \in readUpTo'[v]
          PROVE  stored'[m] # "absent" /\ (m \in Received(v)' => receipts'[m][v] = "read")
      <4>1. CASE m \in readUpTo[v]
        BY <3>2, <4>1 DEF Badge, ReadDone, Steady
      <4>2. CASE m \notin readUpTo[v]
        <5>1. v = u /\ m \in all
          BY <3>1, <3>2, <3>5, <4>2
        <5>2. QED
          BY <3>3, <3>4, <5>1
      <4>3. QED
        BY <4>1, <4>2
    <3>6. QED
      BY <3>5 DEF ReadDone
  <2>3. QED
    BY <2>1, <2>2, GoingOnFacts
<1>4. ReadDue(q)'
  <2> SUFFICES ASSUME c.op = "mark_all_read", c.step \in {"loop", "commit"}, NEW m \in c.all
               PROVE  /\ stored'[m] # "absent"
                      /\ m \in Received(c.user)' =>
                           receipts'[m][c.user] = "read" \/ m \in c.batch \cup c.rest
    BY <1>2 DEF ReadDue
  <2>1. /\ call[q].step = "loop" /\ c.all = call[q].all /\ c.op = call[q].op
        /\ c.user = call[q].user /\ call[q].rest \cup call[q].batch \subseteq c.rest \cup c.batch
    BY <1>1 DEF GoesOn
  <2>2. c.user \in People /\ m \in Messages
    BY <1>2, <2>1 DEF CallOK, CallStates
  <2>3. /\ stored[m] # "absent"
        /\ m \in Received(c.user) =>
             receipts[m][c.user] = "read" \/ m \in call[q].batch \cup call[q].rest
    BY <2>1 DEF Badge, ReadDue
  <2>4. QED
    BY <2>1, <2>2, <2>3 DEF Steady
<1>5. ASSUME NEW p \in Calls \ {q} PROVE ReadDue(p)'
  BY <1>2, ReadDueStays DEF Badge
<1>6. QED
  BY <1>3, <1>4, <1>5 DEF Badge

LEMMA BadgeStays ==
  ASSUME RT, Badge, [ReceiptsNext]_receiptVars
  PROVE  Badge'
<1>1. Steady
  BY SteadySteps
<1>2. ASSUME call' = call, readUpTo' = readUpTo PROVE Badge'
  BY <1>1, <1>2, ReadDoneStays, ReadDueStays DEF Badge
<1>3. ASSUME NEW q \in Calls, FirstStep(q) PROVE Badge'
  BY <1>1, <1>3, FirstStepBegins, ReadDueBegins DEF RT
<1>4. CASE Surroundings
  <2>1. call' = call /\ readUpTo' = readUpTo
    BY <1>4 DEF Surroundings, ClearChat, Create, Leave, Join
  <2>2. QED
    BY <1>2, <2>1
<1>5. CASE UNCHANGED receiptVars
  BY <1>2, <1>5 DEF receiptVars
<1>6. QED
  BY <1>1, <1>3, <1>4, <1>5, NextSorted, ReadDueGoesOn

\* After mark_all_messages_as_read has committed, none of the messages it found counts
\* as unread, however receipts of other calls, chats cleared and calls cut short come
\* in between.
THEOREM BadgeIsCleared ==
  ReceiptsSpec => []ReadAllClearsTheBadge
<1>1. ReceiptsInit => Badge
  BY DEF ReceiptsInit, Badge, ReadDone, ReadDue, NewCall
<1>2. RT /\ Badge /\ [ReceiptsNext]_receiptVars => Badge'
  BY BadgeStays
<1>3. Badge => ReadAllClearsTheBadge
  BY DEF Badge, ReadDone, ReadAllClearsTheBadge, Unread
<1>4. QED
  BY <1>1, <1>2, <1>3, ReceiptsInvariant, PTL DEF ReceiptsSpec

-----------------------------------------------------------------------------
(* Reactions.  A call that found none is going to add a row; every row     *)
(* that has come in between is of a call that overlaps it.                 *)

\* A row is known by the call that inserted it, which has committed.
RowsKnown ==
  /\ \A r, s \in reactions : r.by = s.by => r = s
  /\ \A r \in reactions : /\ call[r.by].op = "add_reaction"
                          /\ call[r.by].step \notin {"new", "loop", "commit"}

FoundNone(q) ==
  (call[q].op = "add_reaction" /\ call[q].step = "commit" /\ call[q].found = "none") =>
    \A r \in reactions : (r.user = call[q].user /\ r.msg \in call[q].about) => Overlap(r.by, q)

Paired == RowsKnown /\ OneReaction /\ \A q \in Calls : FoundNone(q)

\* Of a call that has begun these do not change; one that has committed a reaction
\* does not commit again, and one that is about to has not just changed.
CallsPersist ==
  \A q \in Calls :
    /\ call[q].step # "new" => /\ call'[q].op = call[q].op /\ call'[q].before = call[q].before
                               /\ call'[q].step # "new"
    /\ (call[q].op = "add_reaction" /\ call[q].step \notin {"new", "loop", "commit"}) =>
         call'[q].step \notin {"new", "loop", "commit"}

LEMMA BeganPersists ==
  ASSUME RT, NEW q \in Calls, NEW c \in CallStates, Began(q, c)
  PROVE  CallsPersist
BY DEF RT, ReceiptsTypeOK, Began, CallsPersist

LEMMA GoesOnPersists ==
  ASSUME RT, NEW q \in Calls, NEW c, GoesOn(q, c)
  PROVE  CallsPersist
<1>1. call' = [call EXCEPT ![q] = c] /\ call \in [Calls -> CallStates]
  BY DEF RT, ReceiptsTypeOK, GoesOn
<1>2. QED
  BY <1>1 DEF GoesOn, CallsPersist

LEMMA OverlapStays ==
  ASSUME CallsPersist, NEW p \in Calls, NEW q \in Calls, Overlap(p, q),
         call[p].step # "new", call[q].step # "new"
  PROVE  Overlap(p, q)'
BY DEF CallsPersist, Overlap

LEMMA FoundNoneStays ==
  ASSUME RT, CallsPersist, RowsKnown, reactions' \subseteq reactions,
         NEW q \in Calls, FoundNone(q), call'[q] = call[q]
  PROVE  FoundNone(q)'
<1> SUFFICES ASSUME call[q].op = "add_reaction", call[q].step = "commit", call[q].found = "none",
                    NEW r \in reactions', r.user = call[q].user, r.msg \in call[q].about
             PROVE  Overlap(r.by, q)'
  BY DEF FoundNone
<1>1. r.by \in Calls /\ call[r.by].step # "new" /\ Overlap(r.by, q)
  BY DEF RT, ReceiptsTypeOK, RowsKnown, FoundNone
<1>2. QED
  BY <1>1, OverlapStays

LEMMA FewerRowsPaired ==
  ASSUME RT, CallsPersist, Paired, reactions' \subseteq reactions
  PROVE  RowsKnown' /\ OneReaction'
<1>1. \A r \in reactions : r.by \in Calls /\ call[r.by].step # "new"
  BY DEF RT, ReceiptsTypeOK, Paired, RowsKnown
<1>2. RowsKnown'
  BY <1>1 DEF Paired, RowsKnown, CallsPersist
<1>3. OneReaction'
  BY <1>1, OverlapStays DEF Paired, OneReaction
<1>4. QED
  BY <1>2, <1>3

LEMMA PairedBegins ==
  ASSUME RT, Paired, NEW q \in Calls, NEW c \in CallStates, Began(q, c)
  PROVE  Paired'
<1>1. /\ call' = [call EXCEPT ![q] = c] /\ Fit(c) /\ reactions' = reactions
      /\ call \in [Calls -> CallStates]
  BY DEF Began, SameRows, RT, ReceiptsTypeOK
<1>2. CallsPersist
  BY BeganPersists
<1>3. ASSUME NEW p \in Calls \ {q} PROVE FoundNone(p)'
  BY <1>1, <1>2, FoundNoneStays DEF Paired
<1>4. FoundNone(q)'
  <2>1. call'[q] = c
    BY <1>1
  <2>2. QED
    BY <1>1, <2>1 DEF FoundNone, Fit, ReactionsOf
<1>5. QED
  BY <1>1, <1>2, <1>3, <1>4, FewerRowsPaired DEF Paired

\* q inserts a row.
LEMMA PairedInserts ==
  ASSUME RT, RT', Paired, NEW q \in Calls, NEW c, GoesOn(q, c), NEW new,
         call[q].op = "add_reaction", call[q].step = "commit", call[q].found = "none",
         reactions' = reactions \cup {new},
         new.by = q, new.user = call[q].user, new.msg \in call[q].about
  PROVE  Paired'
<1>1. /\ call' = [call EXCEPT ![q] = c] /\ call \in [Calls -> CallStates]
      /\ c.op = "add_reaction" /\ c.step \notin {"new", "loop", "commit"}
      /\ call'[q] = c
  BY DEF GoesOn, RT, ReceiptsTypeOK
<1>2. CallsPersist
  BY GoesOnPersists
<1>3. \A r \in reactions : /\ r.by \in Calls /\ r.by # q /\ call[r.by].step # "new"
                           /\ call[r.by].op = "add_reaction"
                           /\ call[r.by].step \notin {"new", "loop", "commit"}
  BY DEF RT, ReceiptsTypeOK, Paired, RowsKnown
<1>4. ASSUME NEW r \in reactions, r.user = new.user, r.msg = new.msg
      PROVE  Overlap(r.by, q)' /\ Overlap(q, r.by)'
  <2>1. Overlap(r.by, q)
    BY <1>4 DEF Paired, FoundNone
  <2>2. Overlap(q, r.by)
    BY <2>1 DEF Overlap
  <2>3. QED
    BY <1>2, <1>3, <2>1, <2>2, OverlapStays
<1>5. RowsKnown'
  <2>1. \A r \in reactions : /\ call'[r.by].op = "add_reaction"
                             /\ call'[r.by].step \notin {"new", "loop", "commit"}
    BY <1>2, <1>3 DEF CallsPersist
  <2>2. QED
    BY <1>1, <1>3, <2>1 DEF Paired, RowsKnown
<1>6. OneReaction'
  <2> SUFFICES ASSUME NEW r \in reactions', NEW s \in reactions',
                      r # s, r.msg = s.msg, r.user = s.user
               PROVE  Overlap(r.by, s.by)'
    BY DEF OneReaction
  <2>1. CASE r \in reactions /\ s \in reactions
    BY <1>2, <1>3, <2>1, OverlapStays DEF Paired, OneReaction
  <2>2. CASE r = new \/ s = new
    BY <1>4, <2>2
  <2>3. QED
    BY <2>1, <2>2
<1>7. ASSUME NEW p \in Calls PROVE FoundNone(p)'
  <2>1. CASE p = q
    BY <1>1, <2>1 DEF FoundNone
  <2>2. CASE p # q
    <3> SUFFICES ASSUME call[p].op = "add_reaction", call[p].step = "commit",
                        call[p].found = "none", NEW r \in reactions',
                        r.user = call[p].user, r.msg \in call[p].about
                 PROVE  Overlap(r.by, p)'
      BY <1>1, <2>2 DEF FoundNone
    <3>1. CASE r \in reactions
      <4>1. Overlap(r.by, p)
        BY <3>1 DEF Paired, FoundNone
      <4>2. QED
        BY <1>2, <1>3, <3>1, <4>1, OverlapStays
    <3>2. CASE r = new
      <4>1. call[p].before \subseteq EndedCalls /\ call[q].before \subseteq EndedCalls
        BY DEF RT, CallOK
      <4>2. Overlap(q, p)
        BY <2>2, <4>1 DEF Overlap, EndedCalls
      <4>3. QED
        BY <1>2, <3>2, <4>2, OverlapStays
    <3>3. QED
      BY <3>1, <3>2
  <2>3. QED
    BY <2>1, <2>2
<1>8. QED
  BY <1>5, <1>6, <1>7 DEF Paired

\* q changes the row it found.
LEMMA PairedUpdates ==
  ASSUME RT, RT', Paired, NEW q \in Calls, NEW c, GoesOn(q, c), call[q].op = "add_reaction",
         NEW f, NEW e,
         \A r \in reactions' : \E s \in reactions :
           /\ r.msg = s.msg /\ r.user = s.user /\ r.by = s.by
           /\ (s.by # f => r = s) /\ (s.by = f => r.emoji = e)
  PROVE  Paired'
<1>1. /\ call' = [call EXCEPT ![q] = c] /\ call \in [Calls -> CallStates]
      /\ call'[q] = c /\ c.step # "commit"
  BY DEF GoesOn, RT, ReceiptsTypeOK
<1>2. CallsPersist
  BY GoesOnPersists
<1>3. \A r \in reactions : r.by \in Calls /\ call[r.by].step # "new"
  BY DEF RT, ReceiptsTypeOK, Paired, RowsKnown
<1>4. ASSUME NEW r \in reactions', NEW s \in reactions', r.by = s.by PROVE r = s
  <2>1. /\ r \in [msg : Present', user : People, emoji : Emojis, by : Calls]
        /\ s \in [msg : Present', user : People, emoji : Emojis, by : Calls]
    BY DEF RT, ReceiptsTypeOK
  <2>2. r.msg = s.msg /\ r.user = s.user /\ r.emoji = s.emoji
    BY <1>4 DEF Paired, RowsKnown
  <2>3. QED
    BY <1>4, <2>1, <2>2
<1>5. \A r \in reactions' : /\ call'[r.by].op = "add_reaction"
                            /\ call'[r.by].step \notin {"new", "loop", "commit"}
  BY <1>2, <1>3 DEF Paired, RowsKnown, CallsPersist
<1>6. ASSUME NEW r \in reactions', NEW s \in reactions', r # s, r.msg = s.msg, r.user = s.user
      PROVE  Overlap(r.by, s.by)'
  <2>1. PICK r0 \in reactions : r0.msg = r.msg /\ r0.user = r.user /\ r0.by = r.by
    OBVIOUS
  <2>2. PICK s0 \in reactions : s0.msg = s.msg /\ s0.user = s.user /\ s0.by = s.by
    OBVIOUS
  <2>3. r0 # s0
    BY <1>4, <1>6, <2>1, <2>2
  <2>4. Overlap(r.by, s.by)
    BY <1>6, <2>1, <2>2, <2>3 DEF Paired, OneReaction
  <2>5. QED
    BY <1>2, <1>3, <2>1, <2>2, <2>4, OverlapStays
<1>7. ASSUME NEW p \in Calls PROVE FoundNone(p)'
  <2>1. CASE p = q
    BY <1>1, <2>1 DEF FoundNone
  <2>2. CASE p # q
    <3> SUFFICES ASSUME call[p].op = "add_reaction", call[p].step = "commit",
                        call[p].found = "none", NEW r \in reactions',
                        r.user = call[p].user, r.msg \in call[p].about
                 PROVE  Overlap(r.by, p)'
      BY <1>1, <2>2 DEF FoundNone
    <3>1. PICK r0 \in reactions : r0.msg = r.msg /\ r0.user = r.user /\ r0.by = r.by
      OBVIOUS
    <3>2. Overlap(r.by, p)
      BY <3>1 DEF Paired, FoundNone
    <3>3. QED
      BY <1>2, <1>3, <3>1, <3>2, OverlapStays
  <2>3. QED
    BY <2>1, <2>2
<1>8. QED
  BY <1>4, <1>5, <1>6, <1>7 DEF Paired, RowsKnown, OneReaction

LEMMA PairedGoesOn ==
  ASSUME RT, Paired, NEW q \in Calls, GoingOn(q)
  PROVE  Paired'
<1>1. PICK c : GoesOn(q, c)
  BY GoingOnFacts
<1>2. /\ call' = [call EXCEPT ![q] = c] /\ call'[q] = c /\ call \in [Calls -> CallStates]
  BY <1>1 DEF GoesOn, RT, ReceiptsTypeOK
<1>3. RT'
  BY GoingOnFacts
<1>4. CASE reactions' \subseteq reactions
  <2>1. CallsPersist
    BY <1>1, GoesOnPersists
  <2>2. ASSUME NEW p \in Calls \ {q} PROVE FoundNone(p)'
    BY <1>2, <1>4, <2>1, FoundNoneStays DEF Paired
  <2>3. FoundNone(q)'
    BY <1>1, <1>2 DEF FoundNone, GoesOn
  <2>4. QED
    BY <1>4, <2>1, <2>2, <2>3, FewerRowsPaired DEF Paired
<1>5. CASE CommitReaction(q)
  <2>1. call[q].step = "commit" /\ call[q].op = "add_reaction"
    BY <1>5, ReactionFacts
  <2>2. CASE /\ call[q].found = "none"
             /\ \E m \in call[q].about :
                  reactions' = reactions \cup {[msg |-> m, user |-> call[q].user,
                                                emoji |-> call[q].emoji, by |-> q]}
    <3>1. PICK m \in call[q].about :
             reactions' = reactions \cup {[msg |-> m, user |-> call[q].user,
                                           emoji |-> call[q].emoji, by |-> q]}
      BY <2>2
    <3> DEFINE new == [msg |-> m, user |-> call[q].user, emoji |-> call[q].emoji, by |-> q]
    <3>2. new.by = q /\ new.user = call[q].user /\ new.msg \in call[q].about
      OBVIOUS
    <3>3. reactions' = reactions \cup {new}
      BY <3>1
    <3> HIDE DEF new
    <3>4. QED
      BY <1>1, <1>3, <2>1, <2>2, <3>2, <3>3, PairedInserts
  <2>3. CASE \A r \in reactions' : \E s \in reactions :
               /\ r.msg = s.msg /\ r.user = s.user /\ r.by = s.by
               /\ (s.by # call[q].found => r = s)
               /\ (s.by = call[q].found => r.emoji = call[q].emoji)
    <3>1. PICK f, e : f = call[q].found /\ e = call[q].emoji
      OBVIOUS
    <3>2. QED
      BY <1>1, <1>3, <2>1, <2>3, <3>1, PairedUpdates
  <2>4. QED
    BY <1>5, <2>2, <2>3, ReactionFacts
<1>6. QED
  BY <1>4, <1>5, GoingOnFacts

LEMMA PairedStays ==
  ASSUME RT, Paired, [ReceiptsNext]_receiptVars
  PROVE  Paired'
<1>1. ASSUME call' = call, reactions' \subseteq reactions PROVE Paired'
  <2>1. CallsPersist
    BY <1>1 DEF CallsPersist
  <2>2. \A q \in Calls : FoundNone(q)'
    BY <1>1, <2>1, FoundNoneStays DEF Paired
  <2>3. QED
    BY <1>1, <2>1, <2>2, FewerRowsPaired DEF Paired
<1>2. ASSUME NEW q \in Calls, FirstStep(q) PROVE Paired'
  BY <1>2, FirstStepBegins, PairedBegins DEF RT
<1>3. CASE Surroundings
  <2>1. call' = call /\ reactions' \subseteq reactions
    BY <1>3 DEF Surroundings, ClearChat, Create, Leave, Join
  <2>2. QED
    BY <1>1, <2>1
<1>4. CASE UNCHANGED receiptVars
  BY <1>1, <1>4 DEF receiptVars
<1>5. QED
  BY <1>2, <1>3, <1>4, NextSorted, PairedGoesOn

\* Two reactions of one user to one message are always of two calls that overlapped;
\* add_reaction after add_reaction, however many there are, changes the one row.
THEOREM OneReactionUnlessOverlap ==
  ReceiptsSpec => []OneReaction
<1>1. ReceiptsInit => Paired
  BY DEF ReceiptsInit, Paired, RowsKnown, OneReaction, FoundNone
<1>2. RT /\ Paired /\ [ReceiptsNext]_receiptVars => Paired'
  BY PairedStays
<1>3. Paired => OneReaction
  BY DEF Paired
<1>4. QED
  BY <1>1, <1>2, <1>3, ReceiptsInvariant, PTL DEF ReceiptsSpec

-----------------------------------------------------------------------------
(* What is shown of a message never goes back.                             *)

\* No receipt of a message that stays is lost or turned back, and it is not shown again
\* to a user who has hidden it.
Rising ==
  /\ \A m \in Present, u \in People :
       /\ receipts[m][u] = "read" => receipts'[m][u] = "read"
       /\ receipts[m][u] = "delivered" => receipts'[m][u] \in {"delivered", "read"}
  /\ hidden \subseteq hidden'

LEMMA RisingSteps ==
  ASSUME RT, [ReceiptsNext]_receiptVars
  PROVE  Rising \/ Present' = {}
<1>1. ReceiptsTypeOK
  BY DEF RT
<1>2. ASSUME UNCHANGED <<receipts, hidden>> PROVE Rising
  BY <1>2 DEF Rising
<1>3. ASSUME NEW q \in Calls, FirstStep(q) PROVE Rising
  BY <1>1, <1>2, <1>3, FirstStepBegins DEF Began, SameRows
<1>4. ASSUME NEW q \in Calls, GoingOn(q) PROVE Rising
  <2>1. CASE CommitReceipts(q)
    <3>1. \A mark : /\ mark = "read" => Marked(call[q], mark) = "read"
                    /\ Marked(call[q], mark) \in {"delivered", "read"}
      BY DEF Marked
    <3>2. hidden' = hidden /\ Present \subseteq Messages
      BY <2>1, CommitReceiptsFacts DEF Present
    <3>3. \A m \in Messages, u \in People :
            receipts'[m][u] = IF m \in call[q].batch /\ u = call[q].user
                              THEN Marked(call[q], receipts[m][u]) ELSE receipts[m][u]
      BY <2>1, CommitReceiptsFacts
    <3>4. QED
      BY <3>1, <3>2, <3>3 DEF Rising
  <2>2. CASE receipts' = receipts
    BY <1>4, <2>2, GoingOnFacts DEF Rising
  <2>3. QED
    BY <1>4, <2>1, <2>2, GoingOnFacts
<1>5. CASE Surroundings
  <2>1. CASE ClearChat
    BY <1>1, <2>1 DEF ClearChat, Present, ReceiptsTypeOK
  <2>2. CASE \E m \in Messages : Create(m)
    BY <1>2, <2>2 DEF Create
  <2>3. CASE \E u \in People : Leave(u) \/ Join(u)
    BY <1>2, <2>3 DEF Leave, Join
  <2>4. QED
    BY <1>5, <2>1, <2>2, <2>3 DEF Surroundings
<1>6. CASE UNCHANGED receiptVars
  BY <1>2, <1>6 DEF receiptVars
<1>7. QED
  BY <1>3, <1>4, <1>5, <1>6, NextSorted

\* More receipts, of fewer others: a sender who was shown "read" still is.
LEMMA SenderRises ==
  ASSUME RT, Rising, NEW m \in Present, participants' \subseteq participants
  PROVE  /\ ShownToSender(m) = "read" => ShownToSender(m)' = "read"
         /\ ShownToSender(m) = "delivered" => ShownToSender(m)' \in {"delivered", "read"}
         /\ ShownToSender(m) \in Marks /\ ShownToSender(m)' \in Marks
<1> DEFINE others == participants \ {SenderOf[m]}
           others1 == participants' \ {SenderOf[m]}
           By(marks) == {u \in People \ {SenderOf[m]} : receipts[m][u] \in marks}
           By1(marks) == {u \in People \ {SenderOf[m]} : receipts'[m][u] \in marks}
<1>1. /\ IsFiniteSet(others) /\ IsFiniteSet(others1)
      /\ \A marks : IsFiniteSet(By(marks)) /\ IsFiniteSet(By1(marks))
  BY PeopleAssumption, FS_Subset DEF RT, ReceiptsTypeOK
<1>2. /\ Cardinality(others) \in Nat /\ Cardinality(others1) \in Nat
      /\ \A marks : Cardinality(By(marks)) \in Nat /\ Cardinality(By1(marks)) \in Nat
  BY <1>1, FS_CardinalityType
<1>3. Cardinality(others1) <= Cardinality(others)
  BY <1>1, FS_Subset
<1>4. /\ By({"read"}) \subseteq By1({"read"})
      /\ By({"delivered", "read"}) \subseteq By1({"delivered", "read"})
  BY DEF Rising
<1>5. /\ Cardinality(By({"read"})) <= Cardinality(By1({"read"}))
      /\ Cardinality(By({"delivered", "read"})) <= Cardinality(By1({"delivered", "read"}))
  BY <1>1, <1>4, FS_Subset
<1>6. ShownToSender(m) = IF Cardinality(By({"read"})) >= Cardinality(others) THEN "read"
                         ELSE IF Cardinality(By({"delivered", "read"})) >= Cardinality(others)
                         THEN "delivered" ELSE "none"
  BY DEF ShownToSender, MarkedBy
<1>7. ShownToSender(m)' = IF Cardinality(By1({"read"})) >= Cardinality(others1) THEN "read"
                          ELSE IF Cardinality(By1({"delivered", "read"})) >= Cardinality(others1)
                          THEN "delivered" ELSE "none"
  BY DEF ShownToSender, MarkedBy
<1> HIDE DEF others, others1, By, By1
<1>8. QED
  BY <1>2, <1>3, <1>5, <1>6, <1>7 DEF Marks

LEMMA Ranks ==
  /\ Rank("none") = 0 /\ Rank("delivered") = 1 /\ Rank("read") = 2 /\ Rank("hidden") = 3
BY DEF Rank

\* A tick never turns back: what a participant is shown of a message, the sender's
\* view of everybody's receipts included, only moves forward while calls overlap and
\* participants leave.
THEOREM ShownOnlyMovesForward ==
  ReceiptsSpec => ShownNeverGoesBack
<1>1. ASSUME RT, ReceiptsNext, NEW u \in participants \cap participants', NEW m \in Present,
             m \in Present', participants' \subseteq participants
      PROVE  Rank(Shown(u, m)') >= Rank(Shown(u, m))
  <2>1. Rising
    BY <1>1, RisingSteps
  <2>2. RT' /\ u \in People /\ m \in Messages
    BY <1>1, NextTypes DEF RT, ReceiptsTypeOK, Present
  <2>3. receipts[m][u] \in Marks /\ receipts'[m][u] \in Marks
    BY <1>1, <2>2 DEF RT, ReceiptsTypeOK
  <2>4. /\ ShownToSender(m) = "read" => ShownToSender(m)' = "read"
        /\ ShownToSender(m) = "delivered" => ShownToSender(m)' \in {"delivered", "read"}
        /\ ShownToSender(m) \in Marks /\ ShownToSender(m)' \in Marks
    BY <1>1, <2>1, SenderRises
  <2>5. CASE <<m, u>> \in hidden'
    <3>1. Shown(u, m)' = "hidden" /\ Shown(u, m) \in Marks \cup {"hidden"}
      BY <2>3, <2>4, <2>5 DEF Shown
    <3>2. QED
      BY <3>1, Ranks DEF Marks
  <2>6. CASE <<m, u>> \notin hidden' /\ u = SenderOf[m]
    <3>1. Shown(u, m)' = ShownToSender(m)' /\ Shown(u, m) = ShownToSender(m)
      BY <2>1, <2>6 DEF Shown, Rising
    <3>2. QED
      BY <2>4, <3>1, Ranks DEF Marks
  <2>7. CASE <<m, u>> \notin hidden' /\ u # SenderOf[m]
    <3>1. Shown(u, m)' = receipts'[m][u] /\ Shown(u, m) = receipts[m][u]
      BY <2>1, <2>7 DEF Shown, Rising
    <3>2. /\ receipts[m][u] = "read" => receipts'[m][u] = "read"
          /\ receipts[m][u] = "delivered" => receipts'[m][u] \in {"delivered", "read"}
      BY <2>1, <2>2 DEF Rising
    <3>3. QED
      BY <2>3, <3>1, <3>2, Ranks DEF Marks
  <2>8. QED
    BY <2>5, <2>6, <2>7
<1>2. RT /\ [ReceiptsNext]_receiptVars =>
        [\A u \in participants \cap participants', m \in Present :
           (m \in Present' /\ participants' \subseteq participants) =>
             Rank(Shown(u, m)') >= Rank(Shown(u, m))]_receiptVars
  BY <1>1
<1>3. QED
  BY <1>2, ReceiptsInvariant, PTL DEF ReceiptsSpec, ShownNeverGoesBack

-----------------------------------------------------------------------------
(* What was told last.  Undisturbed calls about a message and a user run   *)
(* one after the other, and each publishes what it has stored.             *)

Says(op) == IF op \in Delivering THEN "delivered" ELSE "read"

OnIt(q, m, u, ops) == call[q].user = u /\ m \in call[q].about /\ call[q].op \in ops
Active(q) == call[q].step \in {"loop", "commit", "publish"}

\* Whether q has m still to commit, or has committed and not yet published it.
Pending(q, m) ==
  m \in call[q].rest \/ (m \in call[q].batch /\ call[q].step \in {"loop", "commit"})
Publishing(q, m) == m \in call[q].batch /\ call[q].step = "publish"

\* What a call deals with, and which row a reaction is about to change.
CallShape(q) ==
  /\ call[q].step = "new" => call[q].about = {}
  /\ call[q].rest \cup call[q].batch \subseteq call[q].about
  /\ call[q].rest \cap call[q].batch = {}
  /\ ~Active(q) => call[q].rest \cup call[q].batch = {}
  /\ \A m \in call[q].about : stored[m] # "absent"
  /\ call[q].op \in Reacting =>
       /\ call[q].step # "loop" /\ \E m \in Messages : call[q].about = {m}
       /\ call[q].op = "remove_reaction" => call[q].emoji = "none"

FoundShape(q) ==
  (call[q].op \in Reacting /\ call[q].step = "commit" /\ call[q].found # "none") =>
    /\ call[call[q].found].user = call[q].user
    /\ call[call[q].found].about = call[q].about
    /\ call[call[q].found].step # "new"

RowsFit ==
  \A r \in reactions : call[r.by].user = r.user /\ call[r.by].about = {r.msg}

Untold ==
  \A m \in Messages, u \in People :
    stored[m] = "absent" => told[m][u].receipt = "none" /\ told[m][u].reaction = "none"

Shapes == (\A q \in Calls : CallShape(q) /\ FoundShape(q)) /\ RowsFit /\ Untold

ReceiptTold(m, u) ==
  (m \in Present /\ ~Disturbed(m, u, Marking)) =>
    /\ \A q \in Calls : OnIt(q, m, u, Marking) =>
         /\ Publishing(q, m) => receipts[m][u] = Says(call[q].op)
         /\ Pending(q, m) /\ call[q].op \in Delivering => receipts[m][u] = "none"
    /\ (\A q \in Calls : OnIt(q, m, u, Marking) => ~Publishing(q, m)) =>
         told[m][u].receipt = receipts[m][u]

StoredEmojis(m, u) == {r.emoji : r \in ReactionsOf(u, m)}

ReactionTold(m, u) ==
  (m \in Present /\ ~Disturbed(m, u, Reacting)) =>
    /\ \A q \in Calls : OnIt(q, m, u, Reacting) =>
         /\ call[q].step = "publish" => StoredEmojis(m, u) = {call[q].emoji} \ {"none"}
         /\ call[q].step = "commit" =>
              \A r \in ReactionsOf(u, m) : call[q].found # "none" /\ r.by = call[q].found
    /\ (\A q \in Calls : OnIt(q, m, u, Reacting) => call[q].step # "publish") =>
         StoredEmojis(m, u) = {told[m][u].reaction} \ {"none"}

\* Of a call that has begun.
Keeps ==
  \A q \in Calls : call[q].step # "new" =>
    /\ call'[q].op = call[q].op /\ call'[q].user = call[q].user
    /\ call'[q].about = call[q].about /\ call'[q].before = call[q].before
    /\ call'[q].emoji = call[q].emoji /\ call'[q].step # "new"
    /\ call[q].step = "cut" => call'[q].step = "cut"

LEMMA KeepsSteps ==
  ASSUME RT, [ReceiptsNext]_receiptVars
  PROVE  Keeps
<1>1. call \in [Calls -> CallStates] /\ ReceiptsTypeOK
  BY DEF RT, ReceiptsTypeOK
<1>2. ASSUME call' = call PROVE Keeps
  BY <1>2 DEF Keeps
<1>3. ASSUME NEW q \in Calls, NEW c, call' = [call EXCEPT ![q] = c],
             \/ call[q].step = "new"
             \/ GoesOn(q, c)
      PROVE  Keeps
  BY <1>1, <1>3 DEF Keeps, GoesOn
<1>4. ASSUME NEW q \in Calls, FirstStep(q) PROVE Keeps
  <2>1. PICK c \in CallStates : Began(q, c)
    BY <1>1, <1>4, FirstStepBegins
  <2>2. QED
    BY <1>3, <2>1 DEF Began
<1>5. ASSUME NEW q \in Calls, GoingOn(q) PROVE Keeps
  <2>1. PICK c : GoesOn(q, c)
    BY <1>5, GoingOnFacts
  <2>2. QED
    BY <1>3, <2>1 DEF GoesOn
<1>6. QED
  BY <1>2, <1>4, <1>5, NextSorted, SurroundingsTypes DEF receiptVars

LEMMA DisturbedStays ==
  ASSUME Keeps, \A q \in Calls : CallShape(q), NEW m, NEW u, NEW ops, Disturbed(m, u, ops)
  PROVE  Disturbed(m, u, ops)'
<1>1. PICK p, q \in Calls : /\ \A c \in {call[p], call[q]} : c.user = u /\ m \in c.about /\ c.op \in ops
                            /\ Overlap(p, q) \/ call[p].step = "cut"
  BY Zenon DEF Disturbed
<1>2. call[p].step # "new" /\ call[q].step # "new"
  BY <1>1 DEF CallShape
<1>3. \A c \in {call'[p], call'[q]} : c.user = u /\ m \in c.about /\ c.op \in ops
  BY <1>1, <1>2 DEF Keeps
<1>4. Overlap(p, q)' \/ call'[p].step = "cut"
  BY <1>1, <1>2 DEF Keeps, Overlap
<1>5. QED
  BY <1>3, <1>4 DEF Disturbed

\* Two calls about the same that both run have overlapped.
LEMMA OneActive ==
  ASSUME RT, NEW m, NEW u, NEW ops, ~Disturbed(m, u, ops),
         NEW p \in Calls, NEW q \in Calls, OnIt(p, m, u, ops), OnIt(q, m, u, ops),
         Active(p), Active(q)
  PROVE  p = q
<1>1. call[p].before \subseteq EndedCalls /\ call[q].before \subseteq EndedCalls
  BY DEF RT, CallOK
<1>2. p # q => Overlap(p, q)
  BY <1>1 DEF Overlap, EndedCalls, Active
<1>3. QED
  BY <1>2 DEF Disturbed, OnIt

-----------------------------------------------------------------------------
(* What each step does to the call that takes it.                          *)

Others(q) == \A p \in Calls \ {q} : call'[p] = call[p]

LEMMA LookUpCall ==
  ASSUME RT, NEW q \in Calls, LookUp(q)
  PROVE  /\ Others(q) /\ SameRows /\ call[q].step = "loop"
         /\ \E m \in call[q].rest :
              /\ call'[q].rest = call[q].rest \ {m} /\ call'[q].batch = call[q].batch \cup {m}
              /\ call'[q].step \in {"loop", "commit"}
<1>1. call \in [Calls -> CallStates] /\ call[q] \in CallStates
  BY DEF RT, ReceiptsTypeOK
<1>2. PICK m \in call[q].rest, s \in {"loop", "commit"} :
        \E I : call' = [call EXCEPT ![q] =
            [call[q] EXCEPT !.rest = call[q].rest \ {m}, !.batch = call[q].batch \cup {m},
                            !.insert = I, !.step = s]]
  BY Zenon DEF LookUp
<1>3. /\ call'[q].rest = call[q].rest \ {m} /\ call'[q].batch = call[q].batch \cup {m}
      /\ call'[q].step = s
  BY <1>1, <1>2 DEF CallStates
<1>4. Others(q)
  BY <1>1, <1>2 DEF Others
<1>5. QED
  BY <1>3, <1>4 DEF LookUp, SameRows

LEMMA CommitReceiptsCall ==
  ASSUME RT, NEW q \in Calls, CommitReceipts(q)
  PROVE  /\ Others(q) /\ call[q].step = "commit" /\ call[q].op \in Marking
         /\ call'[q].step = "publish"
         /\ call'[q].rest = call[q].rest /\ call'[q].batch = call[q].batch
         /\ UNCHANGED <<stored, reactions, told>>
<1>1. call \in [Calls -> CallStates] /\ call[q] \in CallStates
  BY DEF RT, ReceiptsTypeOK
<1>2. call' = [call EXCEPT ![q] = [call[q] EXCEPT !.step = "publish", !.insert = {}]]
  BY DEF CommitReceipts
<1>3. QED
  BY <1>1, <1>2 DEF CommitReceipts, Others, CallStates

LEMMA ReturnCall ==
  ASSUME RT, NEW q \in Calls, NEW s, Return(q, s)
  PROVE  /\ Others(q) /\ call'[q].step = s /\ call'[q].rest = {} /\ call'[q].batch = {}
<1>1. call \in [Calls -> CallStates] /\ call[q] \in CallStates
  BY DEF RT, ReceiptsTypeOK
<1>2. QED
  BY <1>1 DEF Return, Others, CallStates

LEMMA PublishReceiptCall ==
  ASSUME RT, NEW q \in Calls, PublishReceipt(q)
  PROVE  /\ Others(q) /\ call[q].step = "publish" /\ call[q].op \in Marking
         /\ UNCHANGED <<stored, receipts, reactions>>
         /\ \E m \in call[q].batch :
              /\ \A x \in Messages, v \in People :
                   /\ told'[x][v].reaction = told[x][v].reaction
                   /\ told'[x][v].receipt = IF x = m /\ v = call[q].user THEN Says(call[q].op)
                                            ELSE told[x][v].receipt
              /\ call'[q].rest = call[q].rest /\ call'[q].batch = call[q].batch \ {m}
              /\ \/ call'[q].step = "publish"
                 \/ call[q].batch = {m} /\ call'[q].step = "loop"
                 \/ call[q].batch = {m} /\ call[q].rest = {} /\ call'[q].step = "done"
<1>1. call \in [Calls -> CallStates] /\ call[q] \in CallStates
  BY DEF RT, ReceiptsTypeOK
<1>2. /\ call[q].step = "publish" /\ call[q].op \in Marking
      /\ UNCHANGED <<stored, receipts, reactions>>
  BY DEF PublishReceipt
<1>3. PICK m \in call[q].batch :
        /\ told' = [told EXCEPT ![m][call[q].user].receipt =
                      IF call[q].op \in {"mark_read", "mark_all_read"} THEN "read" ELSE "delivered"]
        /\ CASE call[q].batch # {m} -> call' = [call EXCEPT ![q].batch = @ \ {m}]
             [] call[q].batch = {m} /\ call[q].rest # {} ->
                  call' = [call EXCEPT ![q] = [@ EXCEPT !.batch = {}, !.step = "loop"]]
             [] OTHER -> End(q)
  BY Zenon DEF PublishReceipt
<1>4. \A x \in Messages, v \in People :
        /\ told'[x][v].reaction = told[x][v].reaction
        /\ told'[x][v].receipt = IF x = m /\ v = call[q].user THEN Says(call[q].op)
                                 ELSE told[x][v].receipt
  <2>1. (IF call[q].op \in {"mark_read", "mark_all_read"} THEN "read" ELSE "delivered")
          = Says(call[q].op)
    BY <1>2 DEF Says, Marking, Delivering
  <2>2. told' = [told EXCEPT ![m][call[q].user].receipt = Says(call[q].op)]
    BY <1>3, <2>1
  <2>3. told \in [Messages -> [People -> [receipt : Marks, reaction : Emojis \cup {"none"}]]]
    BY DEF RT, ReceiptsTypeOK
  <2>4. m \in Messages
    BY <1>1 DEF CallStates
  <2>5. QED
    BY <2>2, <2>3, <2>4
<1>5. CASE call[q].batch # {m}
  <2>1. call' = [call EXCEPT ![q].batch = @ \ {m}]
    BY <1>3, <1>5
  <2>2. /\ Others(q) /\ call'[q].rest = call[q].rest /\ call'[q].batch = call[q].batch \ {m}
        /\ call'[q].step = call[q].step
    BY <1>1, <2>1 DEF Others, CallStates
  <2>3. QED
    BY <1>2, <1>3, <1>4, <2>2
<1>6. CASE call[q].batch = {m} /\ call[q].rest # {}
  <2>1. call' = [call EXCEPT ![q] = [@ EXCEPT !.batch = {}, !.step = "loop"]]
    BY <1>3, <1>6
  <2>2. /\ Others(q) /\ call'[q].rest = call[q].rest /\ call'[q].batch = {}
        /\ call'[q].step = "loop"
    BY <1>1, <2>1 DEF Others, CallStates
  <2>3. QED
    BY <1>2, <1>3, <1>4, <1>6, <2>2
<1>7. CASE call[q].batch = {m} /\ call[q].rest = {}
  <2>1. Return(q, "done")
    BY <1>3, <1>7 DEF End
  <2>2. QED
    BY <1>2, <1>3, <1>4, <1>7, <2>1, ReturnCall
<1>8. QED
  BY <1>5, <1>6, <1>7

LEMMA CommitReactionCall ==
  ASSUME RT, NEW q \in Calls, CommitReaction(q) \/ CommitRemoval(q)
  PROVE  /\ Others(q) /\ call[q].step = "commit" /\ call[q].op \in Reacting
         /\ call'[q].step = "publish"
         /\ call'[q].rest = call[q].rest /\ call'[q].batch = call[q].batch
         /\ UNCHANGED <<stored, receipts, told>>
<1>1. call \in [Calls -> CallStates] /\ call[q] \in CallStates
  BY DEF RT, ReceiptsTypeOK
<1>2. call' = [call EXCEPT ![q].step = "publish"]
  BY DEF CommitReaction, CommitRemoval
<1>3. QED
  BY <1>1, <1>2 DEF CommitReaction, CommitRemoval, Others, CallStates, Reacting

LEMMA PublishReactionCall ==
  ASSUME RT, NEW q \in Calls, PublishReaction(q)
  PROVE  /\ Others(q) /\ call[q].step = "publish" /\ call[q].op \in Reacting
         /\ call'[q].step = "done" /\ call'[q].rest = {} /\ call'[q].batch = {}
         /\ UNCHANGED <<stored, receipts, reactions>>
         /\ \A x \in Messages, v \in People :
              /\ told'[x][v].receipt = told[x][v].receipt
              /\ told'[x][v].reaction = IF x \in call[q].about /\ v = call[q].user
                                        THEN call[q].emoji ELSE told[x][v].reaction
<1>1. told' = [m \in Messages |-> IF m \notin call[q].about THEN told[m] ELSE
                 [told[m] EXCEPT ![call[q].user].reaction = call[q].emoji]]
  BY DEF PublishReaction
<1>2. told \in [Messages -> [People -> [receipt : Marks, reaction : Emojis \cup {"none"}]]]
  BY DEF RT, ReceiptsTypeOK
<1>3. \A x \in Messages, v \in People :
        /\ told'[x][v].receipt = told[x][v].receipt
        /\ told'[x][v].reaction = IF x \in call[q].about /\ v = call[q].user
                                  THEN call[q].emoji ELSE told[x][v].reaction
  BY <1>1, <1>2
<1>4. QED
  BY <1>3, ReturnCall DEF PublishReaction, End, Reacting

LEMMA CommitHiddenCall ==
  ASSUME RT, NEW q \in Calls, CommitHidden(q)
  PROVE  /\ Others(q) /\ call[q].op = "delete_for_me" /\ call[q].step = "commit"
         /\ call'[q].step = "done" /\ call'[q].rest = {} /\ call'[q].batch = {}
         /\ UNCHANGED <<stored, receipts, reactions, told>>
BY ReturnCall DEF CommitHidden, End

LEMMA CutCall ==
  ASSUME RT, NEW q \in Calls, Cut(q)
  PROVE  /\ Others(q) /\ Active(q)
         /\ call'[q].step = "cut" /\ call'[q].rest = {} /\ call'[q].batch = {}
         /\ UNCHANGED <<stored, receipts, reactions, told>>
BY ReturnCall DEF Cut, Active

-----------------------------------------------------------------------------
(* Shapes.                                                                 *)

\* A call that goes on only sheds messages, and looks nothing up once it has committed
\* a reaction.
Sheds(q) ==
  /\ Others(q) /\ Active(q)
  /\ call'[q].rest \cup call'[q].batch \subseteq call[q].rest \cup call[q].batch
  /\ call[q].rest \cap call[q].batch = {} => call'[q].rest \cap call'[q].batch = {}
  /\ call'[q].step \in {"loop", "commit", "publish"} \/ call'[q].rest \cup call'[q].batch = {}
  /\ (call[q].op \in Reacting /\ call[q].step # "loop") => call'[q].step \notin {"loop", "commit"}

LEMMA GoingOnSheds ==
  ASSUME RT, NEW q \in Calls, GoingOn(q)
  PROVE  Sheds(q) /\ stored' = stored
<1>1. CASE LookUp(q)
  BY <1>1, LookUpCall DEF Sheds, SameRows, Active
<1>2. CASE CommitReceipts(q)
  BY <1>2, CommitReceiptsCall DEF Sheds, Active
<1>3. CASE PublishReceipt(q)
  <2>1. call[q].op \notin Reacting
    BY <1>3, PublishReceiptCall DEF Marking, Reacting
  <2>2. QED
    BY <1>3, <2>1, PublishReceiptCall DEF Sheds, Active
<1>4. CASE CommitReaction(q) \/ CommitRemoval(q)
  BY <1>4, CommitReactionCall DEF Sheds, Active
<1>5. CASE PublishReaction(q)
  BY <1>5, PublishReactionCall DEF Sheds, Active
<1>6. CASE CommitHidden(q)
  BY <1>6, CommitHiddenCall DEF Sheds, Active
<1>7. CASE Cut(q)
  BY <1>7, CutCall DEF Sheds, Active
<1>8. QED
  BY <1>1, <1>2, <1>3, <1>4, <1>5, <1>6, <1>7 DEF GoingOn

\* Messages do not become absent.
LEMMA CallShapeStays ==
  ASSUME RT, Shapes, Keeps, [ReceiptsNext]_receiptVars, NEW p \in Calls
  PROVE  CallShape(p)'
<1>1. call \in [Calls -> CallStates] /\ ReceiptsTypeOK /\ CallShape(p) /\ call[p].about \subseteq Messages
  BY DEF RT, ReceiptsTypeOK, Shapes, CallStates
<1>2. \A m \in Messages : stored[m] # "absent" => stored'[m] # "absent"
  BY SteadySteps DEF Steady
<1>3. CASE call'[p] = call[p]
  BY <1>1, <1>2, <1>3 DEF CallShape, Active
<1>4. ASSUME FirstStep(p) PROVE CallShape(p)'
  <2>1. PICK c \in CallStates : Began(p, c)
    BY <1>1, <1>4, FirstStepBegins
  <2>2. call'[p] = c /\ Fit(c) /\ stored' = stored
    BY <1>1, <2>1 DEF Began, SameRows
  <2>3. \A m \in Present : stored[m] # "absent"
    BY DEF Present
  <2>4. QED
    BY <2>2, <2>3 DEF Fit, Whole, CallShape, Active
<1>5. ASSUME GoingOn(p) PROVE CallShape(p)'
  <2>1. Sheds(p) /\ stored' = stored
    BY <1>5, GoingOnSheds
  <2>2. /\ call'[p].op = call[p].op /\ call'[p].about = call[p].about
        /\ call'[p].emoji = call[p].emoji /\ call'[p].step # "new"
    BY <2>1 DEF Sheds, Active, Keeps
  <2>3. QED
    BY <1>1, <2>1, <2>2 DEF CallShape, Sheds, Active
<1>6. ASSUME NEW q \in Calls, q # p, FirstStep(q) \/ GoingOn(q) PROVE call'[p] = call[p]
  <2>1. CASE FirstStep(q)
    BY <1>1, <1>6, <2>1, FirstStepBegins DEF Began
  <2>2. CASE GoingOn(q)
    BY <1>6, <2>2, GoingOnSheds DEF Sheds, Others
  <2>3. QED
    BY <1>6, <2>1, <2>2
<1>7. QED
  BY <1>3, <1>4, <1>5, <1>6, NextSorted, SurroundingsTypes DEF receiptVars

LEMMA FoundShapeStays ==
  ASSUME RT, Paired, Shapes, Keeps, [ReceiptsNext]_receiptVars, NEW p \in Calls
  PROVE  FoundShape(p)'
<1>1. call \in [Calls -> CallStates] /\ ReceiptsTypeOK /\ CallShape(p) /\ FoundShape(p)
      /\ (call[p].found # "none" => call[p].found \in Calls)
  BY DEF RT, ReceiptsTypeOK, Shapes, CallStates
<1>2. CASE call'[p] = call[p]
  BY <1>1, <1>2 DEF FoundShape, Keeps
<1>3. ASSUME FirstStep(p) PROVE FoundShape(p)'
  <2>1. PICK c \in CallStates : Began(p, c)
    BY <1>1, <1>3, FirstStepBegins
  <2>2. call'[p] = c /\ Fit(c) /\ call[p].step = "new" /\ Others(p)
    BY <1>1, <2>1 DEF Began, Others
  <2> SUFFICES ASSUME c.op \in Reacting, c.found # "none"
               PROVE  /\ call'[c.found].user = c.user /\ call'[c.found].about = c.about
                      /\ call'[c.found].step # "new"
    BY <2>2 DEF FoundShape
  <2>3. PICK m \in Messages, r \in reactions :
          c.about = {m} /\ r \in ReactionsOf(c.user, m) /\ r.by = c.found
    BY <2>2 DEF Fit, Whole, ReactionsOf
  <2>4. r \in reactions /\ r.msg = m /\ r.user = c.user /\ r.by \in Calls
    BY <1>1, <2>3 DEF ReactionsOf, ReceiptsTypeOK
  <2>5. call[r.by].user = c.user /\ call[r.by].about = {m} /\ call[r.by].step # "new"
    BY <2>4 DEF Shapes, RowsFit, Paired, RowsKnown
  <2>6. QED
    BY <2>2, <2>3, <2>4, <2>5 DEF Others
<1>4. ASSUME GoingOn(p) PROVE FoundShape(p)'
  <2>1. Sheds(p)
    BY <1>4, GoingOnSheds
  <2>2. call'[p].op = call[p].op
    BY <2>1 DEF Sheds, Active, Keeps
  <2>3. QED
    BY <1>1, <2>1, <2>2 DEF CallShape, FoundShape, Sheds
<1>5. ASSUME NEW q \in Calls, q # p, FirstStep(q) \/ GoingOn(q) PROVE call'[p] = call[p]
  <2>1. CASE FirstStep(q)
    BY <1>1, <1>5, <2>1, FirstStepBegins DEF Began
  <2>2. CASE GoingOn(q)
    BY <1>5, <2>2, GoingOnSheds DEF Sheds, Others
  <2>3. QED
    BY <1>5, <2>1, <2>2
<1>6. QED
  BY <1>2, <1>3, <1>4, <1>5, NextSorted, SurroundingsTypes DEF receiptVars

\* Which rows a commit adds, changes or deletes.
LEMMA RowsOfStep ==
  ASSUME RT, [ReceiptsNext]_receiptVars, NEW r \in reactions'
  PROVE  \/ \E s \in reactions : s.msg = r.msg /\ s.user = r.user /\ s.by = r.by
         \/ \E q \in Calls : /\ r.by = q /\ r.user = call[q].user /\ r.msg \in call[q].about
                             /\ call[q].op = "add_reaction" /\ call[q].step = "commit"
<1>1. CASE r \in reactions
  BY <1>1
<1>2. ASSUME NEW q \in Calls, CommitReaction(q)
      PROVE  \/ \E s \in reactions : s.msg = r.msg /\ s.user = r.user /\ s.by = r.by
             \/ /\ r.by = q /\ r.user = call[q].user /\ r.msg \in call[q].about
                /\ call[q].op = "add_reaction" /\ call[q].step = "commit"
  <2>1. call[q].op = "add_reaction" /\ call[q].step = "commit"
    BY <1>2 DEF CommitReaction
  <2>2. CASE \E m \in call[q].about :
               reactions' = reactions \cup {[msg |-> m, user |-> call[q].user,
                                             emoji |-> call[q].emoji, by |-> q]}
    BY <2>1, <2>2
  <2>3. CASE \A x \in reactions' : \E s \in reactions :
               x.msg = s.msg /\ x.user = s.user /\ x.by = s.by
    BY <2>3
  <2>4. QED
    BY <1>2, <2>2, <2>3, ReactionFacts
<1>3. ReceiptsTypeOK
  BY DEF RT
<1>4. CASE reactions' \subseteq reactions
  BY <1>4, <1>1
<1>5. \A q \in Calls : FirstStep(q) => reactions' = reactions
  BY <1>3, FirstStepBegins DEF Began, SameRows
<1>6. Surroundings => reactions' \subseteq reactions
  BY DEF Surroundings, ClearChat, Create, Leave, Join
<1>7. QED
  BY <1>2, <1>4, <1>5, <1>6, NextSorted, GoingOnFacts DEF receiptVars

LEMMA RowsFitStays ==
  ASSUME RT, Paired, Shapes, Keeps, [ReceiptsNext]_receiptVars
  PROVE  RowsFit'
<1> SUFFICES ASSUME NEW r \in reactions'
             PROVE  call'[r.by].user = r.user /\ call'[r.by].about = {r.msg}
  BY DEF RowsFit
<1>1. CASE \E s \in reactions : s.msg = r.msg /\ s.user = r.user /\ s.by = r.by
  <2>1. PICK s \in reactions : s.msg = r.msg /\ s.user = r.user /\ s.by = r.by
    BY <1>1
  <2>2. s.by \in Calls /\ call[s.by].step # "new"
    BY DEF RT, ReceiptsTypeOK, Paired, RowsKnown
  <2>3. QED
    BY <2>1, <2>2 DEF Keeps, Shapes, RowsFit
<1>2. CASE \E q \in Calls : /\ r.by = q /\ r.user = call[q].user /\ r.msg \in call[q].about
                            /\ call[q].op = "add_reaction" /\ call[q].step = "commit"
  <2>1. PICK q \in Calls : /\ r.by = q /\ r.user = call[q].user /\ r.msg \in call[q].about
                           /\ call[q].op = "add_reaction" /\ call[q].step = "commit"
    BY <1>2
  <2>2. \E m \in Messages : call[q].about = {m}
    BY <2>1 DEF Shapes, CallShape, Reacting
  <2>3. QED
    BY <2>1, <2>2 DEF Keeps
<1>3. QED
  BY <1>1, <1>2, RowsOfStep

LEMMA UntoldStays ==
  ASSUME RT, Shapes, [ReceiptsNext]_receiptVars
  PROVE  Untold'
<1>1. ReceiptsTypeOK
  BY DEF RT
<1> SUFFICES ASSUME NEW m \in Messages, NEW u \in People, stored'[m] = "absent"
             PROVE  told'[m][u].receipt = "none" /\ told'[m][u].reaction = "none"
  BY DEF Untold
<1>2. stored[m] = "absent"
  BY SteadySteps DEF Steady
<1>3. told[m][u].receipt = "none" /\ told[m][u].reaction = "none"
  BY <1>2 DEF Shapes, Untold
<1>4. ASSUME NEW q \in Calls, GoingOn(q)
      PROVE  told'[m][u].receipt = "none" /\ told'[m][u].reaction = "none"
  <2>1. m \notin call[q].about /\ m \notin call[q].batch
    BY <1>2 DEF Shapes, CallShape
  <2>2. CASE PublishReceipt(q)
    BY <1>3, <2>1, <2>2, PublishReceiptCall
  <2>3. CASE PublishReaction(q)
    BY <1>3, <2>1, <2>3, PublishReactionCall
  <2>4. CASE told' = told
    BY <1>3, <2>4
  <2>5. QED
    BY <1>4, <2>2, <2>3, <2>4, LookUpCall, CommitReceiptsCall, CommitReactionCall,
       CommitHiddenCall, CutCall DEF GoingOn, SameRows
<1>5. CASE told' = told
  BY <1>3, <1>5
<1>6. Surroundings => told' = told
  BY DEF Surroundings, ClearChat, Create, Leave, Join
<1>7. \A q \in Calls : FirstStep(q) => told' = told
  BY <1>1, FirstStepBegins DEF Began, SameRows
<1>8. QED
  BY <1>4, <1>5, <1>6, <1>7, NextSorted DEF receiptVars

LEMMA ShapesStay ==
  ASSUME RT, Paired, Shapes, [ReceiptsNext]_receiptVars
  PROVE  Shapes'
BY KeepsSteps, CallShapeStays, FoundShapeStays, RowsFitStays, UntoldStays DEF Shapes

-----------------------------------------------------------------------------
(* Receipts.                                                               *)

\* What a step must not do to ReceiptTold(m, u), if it changes neither the row nor
\* what was told.
ReceiptFrame(m, u) ==
  /\ receipts'[m][u] = receipts[m][u] /\ told'[m][u].receipt = told[m][u].receipt
  /\ m \in Present
  /\ \A q \in Calls : OnIt(q, m, u, Marking)' =>
       \/ /\ OnIt(q, m, u, Marking) /\ call'[q].op = call[q].op
          /\ Publishing(q, m)' => Publishing(q, m)
          /\ Pending(q, m)' => Pending(q, m)
       \/ /\ ~Publishing(q, m)'
          /\ (Pending(q, m)' /\ call'[q].op \in Delivering) => receipts[m][u] = "none"
  /\ \A q \in Calls : OnIt(q, m, u, Marking) /\ Publishing(q, m) =>
       OnIt(q, m, u, Marking)' /\ Publishing(q, m)'

LEMMA ReceiptFramed ==
  ASSUME NEW m \in Messages, NEW u \in People, ReceiptTold(m, u), ReceiptFrame(m, u),
         Disturbed(m, u, Marking) => Disturbed(m, u, Marking)'
  PROVE  ReceiptTold(m, u)'
<1> SUFFICES ASSUME ~Disturbed(m, u, Marking)'
             PROVE  /\ \A q \in Calls : OnIt(q, m, u, Marking)' =>
                         /\ Publishing(q, m)' => receipts'[m][u] = Says(call'[q].op)
                         /\ Pending(q, m)' /\ call'[q].op \in Delivering => receipts'[m][u] = "none"
                    /\ (\A q \in Calls : OnIt(q, m, u, Marking)' => ~Publishing(q, m)') =>
                         told'[m][u].receipt = receipts'[m][u]
  BY DEF ReceiptTold
<1>1. /\ \A q \in Calls : OnIt(q, m, u, Marking) =>
           /\ Publishing(q, m) => receipts[m][u] = Says(call[q].op)
           /\ Pending(q, m) /\ call[q].op \in Delivering => receipts[m][u] = "none"
      /\ (\A q \in Calls : OnIt(q, m, u, Marking) => ~Publishing(q, m)) =>
           told[m][u].receipt = receipts[m][u]
  BY DEF ReceiptTold, ReceiptFrame
<1>2. QED
  BY <1>1 DEF ReceiptFrame

\* q, which runs alone, has stored or told the receipt.
LEMMA OtherReceipts ==
  ASSUME RT, \A p \in Calls : CallShape(p), NEW q \in Calls, Others(q), Keeps, NEW m, NEW u,
         ~Disturbed(m, u, Marking), OnIt(q, m, u, Marking), Active(q),
         NEW p \in Calls, p # q, OnIt(p, m, u, Marking) \/ OnIt(p, m, u, Marking)'
  PROVE  /\ ~Publishing(p, m) /\ ~Publishing(p, m)' /\ ~Pending(p, m)'
<1>1. call'[p] = call[p]
  BY DEF Others
<1>2. OnIt(p, m, u, Marking)
  BY <1>1 DEF OnIt
<1>3. ~Active(p)
  BY <1>2, OneActive
<1>4. CallShape(p)
  OBVIOUS
<1>5. call[p].rest \cup call[p].batch = {}
  BY <1>3, <1>4 DEF CallShape
<1>6. QED
  BY <1>1, <1>5 DEF Publishing, Pending

\* The steps that neither store nor tell a receipt.
LEMMA ReceiptAside ==
  ASSUME RT, Shapes, Keeps, NEW m \in Messages, NEW u \in People, ReceiptTold(m, u),
         NEW q \in Calls, Others(q), stored' = stored, receipts'[m][u] = receipts[m][u],
         told'[m][u].receipt = told[m][u].receipt, call[q].step # "new",
         OnIt(q, m, u, Marking) =>
           /\ Publishing(q, m)' = Publishing(q, m)
           /\ Pending(q, m)' => Pending(q, m)
  PROVE  ReceiptTold(m, u)'
<1>1. Disturbed(m, u, Marking) => Disturbed(m, u, Marking)'
  BY DisturbedStays DEF Shapes
<1>2. /\ call'[q].op = call[q].op /\ (OnIt(q, m, u, Marking)' <=> OnIt(q, m, u, Marking))
  BY DEF Keeps, OnIt
<1>3. \A p \in Calls \ {q} :
        /\ call'[p].op = call[p].op /\ (OnIt(p, m, u, Marking)' <=> OnIt(p, m, u, Marking))
        /\ Publishing(p, m)' <=> Publishing(p, m)
        /\ Pending(p, m)' <=> Pending(p, m)
  BY DEF Others, OnIt, Publishing, Pending
<1>4. CASE m \in Present
  <2>1. ReceiptFrame(m, u)
    BY <1>2, <1>3, <1>4 DEF ReceiptFrame
  <2>2. QED
    BY <1>1, <2>1, ReceiptFramed
<1>5. CASE m \notin Present
  BY <1>5 DEF ReceiptTold, Present
<1>6. QED
  BY <1>4, <1>5

LEMMA ReceiptBegins ==
  ASSUME RT, Shapes, Keeps, NEW m \in Messages, NEW u \in People, ReceiptTold(m, u),
         NEW q \in Calls, FirstStep(q)
  PROVE  ReceiptTold(m, u)'
<1>1. Disturbed(m, u, Marking) => Disturbed(m, u, Marking)'
  BY DisturbedStays DEF Shapes
<1>2. PICK c \in CallStates : Began(q, c)
  BY FirstStepBegins DEF RT
<1>3. /\ call[q].step = "new" /\ call'[q] = c /\ Others(q) /\ Fit(c)
      /\ stored' = stored /\ receipts' = receipts /\ told' = told
  BY <1>2 DEF Began, SameRows, RT, ReceiptsTypeOK, Others
<1>4. \A p \in Calls \ {q} :
        /\ call'[p].op = call[p].op /\ (OnIt(p, m, u, Marking)' <=> OnIt(p, m, u, Marking))
        /\ Publishing(p, m)' <=> Publishing(p, m)
        /\ Pending(p, m)' <=> Pending(p, m)
  BY <1>3 DEF Others, OnIt, Publishing, Pending
<1>5. ~Publishing(q, m) /\ ~Publishing(q, m)'
  BY <1>3 DEF Publishing, Fit
<1>6. (OnIt(q, m, u, Marking)' /\ call'[q].op \in Delivering) => receipts[m][u] = "none"
  BY <1>3 DEF OnIt, Fit, Whole
<1>7. CASE m \in Present
  <2>1. ReceiptFrame(m, u)
    BY <1>3, <1>4, <1>5, <1>6, <1>7 DEF ReceiptFrame
  <2>2. QED
    BY <1>1, <2>1, ReceiptFramed
<1>8. CASE m \notin Present
  BY <1>3, <1>8 DEF ReceiptTold, Present
<1>9. QED
  BY <1>7, <1>8

LEMMA ReceiptCommitted ==
  ASSUME RT, Shapes, Keeps, NEW m \in Messages, NEW u \in People, ReceiptTold(m, u),
         NEW q \in Calls, CommitReceipts(q)
  PROVE  ReceiptTold(m, u)'
<1>1. /\ Others(q) /\ call[q].step = "commit" /\ call[q].op \in Marking
      /\ call'[q].step = "publish"
      /\ call'[q].rest = call[q].rest /\ call'[q].batch = call[q].batch
      /\ UNCHANGED <<stored, reactions, told>>
  BY CommitReceiptsCall
<1>2. receipts'[m][u] = IF m \in call[q].batch /\ u = call[q].user
                        THEN Marked(call[q], receipts[m][u]) ELSE receipts[m][u]
  BY CommitReceiptsFacts
<1>3. CallShape(q) /\ \A p \in Calls : CallShape(p)
  BY DEF Shapes
<1>4. CASE m \in call[q].batch /\ u = call[q].user
  <2> SUFFICES ASSUME m \in Present, ~Disturbed(m, u, Marking)'
               PROVE  /\ \A p \in Calls : OnIt(p, m, u, Marking)' =>
                           /\ Publishing(p, m)' => receipts'[m][u] = Says(call'[p].op)
                           /\ Pending(p, m)' /\ call'[p].op \in Delivering => receipts'[m][u] = "none"
                      /\ (\A p \in Calls : OnIt(p, m, u, Marking)' => ~Publishing(p, m)') =>
                           told'[m][u].receipt = receipts'[m][u]
    BY <1>1 DEF ReceiptTold, Present
  <2>1. ~Disturbed(m, u, Marking)
    BY <1>3, DisturbedStays
  <2>2. OnIt(q, m, u, Marking) /\ Active(q) /\ Pending(q, m)
    BY <1>1, <1>3, <1>4 DEF OnIt, Active, CallShape, Pending
  <2>3. call[q].op \in Delivering => receipts[m][u] = "none"
    BY <2>1, <2>2 DEF ReceiptTold
  <2>4. receipts'[m][u] = Says(call[q].op)
    BY <1>1, <1>2, <1>4, <2>3 DEF Says, Marked, Delivering, Marking
  <2>5. OnIt(q, m, u, Marking)' /\ Publishing(q, m)' /\ ~Pending(q, m)' /\ call'[q].op = call[q].op
    BY <1>1, <1>3, <1>4, <2>2 DEF OnIt, Publishing, Pending, CallShape, Keeps
  <2>6. \A p \in Calls \ {q} : OnIt(p, m, u, Marking)' => ~Publishing(p, m)' /\ ~Pending(p, m)'
    BY <1>1, <1>3, <2>1, <2>2, OtherReceipts
  <2>7. QED
    BY <2>4, <2>5, <2>6
<1>5. CASE ~(m \in call[q].batch /\ u = call[q].user)
  <2>1. OnIt(q, m, u, Marking) =>
          /\ Publishing(q, m)' = Publishing(q, m)
          /\ Pending(q, m)' => Pending(q, m)
    BY <1>1, <1>5 DEF OnIt, Publishing, Pending
  <2>2. QED
    BY <1>1, <1>2, <1>5, <2>1, ReceiptAside
<1>6. QED
  BY <1>4, <1>5

LEMMA ReceiptPublished ==
  ASSUME RT, Shapes, Keeps, NEW m \in Messages, NEW u \in People, ReceiptTold(m, u),
         NEW q \in Calls, PublishReceipt(q)
  PROVE  ReceiptTold(m, u)'
<1>1. PICK x \in call[q].batch :
        /\ told'[m][u].receipt = IF m = x /\ u = call[q].user THEN Says(call[q].op)
                                 ELSE told[m][u].receipt
        /\ call'[q].rest = call[q].rest /\ call'[q].batch = call[q].batch \ {x}
        /\ \/ call'[q].step = "publish"
           \/ call[q].batch = {x} /\ call'[q].step = "loop"
           \/ call[q].batch = {x} /\ call[q].rest = {} /\ call'[q].step = "done"
  BY PublishReceiptCall
<1>2. /\ Others(q) /\ call[q].step = "publish" /\ call[q].op \in Marking
      /\ UNCHANGED <<stored, receipts, reactions>>
  BY PublishReceiptCall
<1>3. CallShape(q) /\ \A p \in Calls : CallShape(p)
  BY DEF Shapes
<1>4. CASE m = x /\ u = call[q].user
  <2> SUFFICES ASSUME m \in Present, ~Disturbed(m, u, Marking)'
               PROVE  /\ \A p \in Calls : OnIt(p, m, u, Marking)' =>
                           /\ Publishing(p, m)' => receipts'[m][u] = Says(call'[p].op)
                           /\ Pending(p, m)' /\ call'[p].op \in Delivering => receipts'[m][u] = "none"
                      /\ (\A p \in Calls : OnIt(p, m, u, Marking)' => ~Publishing(p, m)') =>
                           told'[m][u].receipt = receipts'[m][u]
    BY <1>2 DEF ReceiptTold, Present
  <2>1. ~Disturbed(m, u, Marking)
    BY <1>3, DisturbedStays
  <2>2. OnIt(q, m, u, Marking) /\ Active(q) /\ Publishing(q, m)
    BY <1>2, <1>3, <1>4 DEF OnIt, Active, CallShape, Publishing
  <2>3. receipts[m][u] = Says(call[q].op)
    BY <2>1, <2>2 DEF ReceiptTold
  <2>4. ~Publishing(q, m)' /\ ~Pending(q, m)'
    BY <1>1, <1>2, <1>3, <1>4 DEF Publishing, Pending, CallShape
  <2>5. \A p \in Calls \ {q} : OnIt(p, m, u, Marking)' => ~Publishing(p, m)' /\ ~Pending(p, m)'
    BY <1>2, <1>3, <2>1, <2>2, OtherReceipts
  <2>6. QED
    BY <1>1, <1>2, <1>4, <2>3, <2>4, <2>5
<1>5. CASE ~(m = x /\ u = call[q].user)
  <2>1. OnIt(q, m, u, Marking) =>
          /\ Publishing(q, m)' = Publishing(q, m)
          /\ Pending(q, m)' => Pending(q, m)
    <3>1. OnIt(q, m, u, Marking) => m # x
      BY <1>5 DEF OnIt
    <3>2. m # x => /\ Publishing(q, m)' <=> Publishing(q, m)
                   /\ Pending(q, m)' => Pending(q, m)
      BY <1>1, <1>2 DEF Publishing, Pending
    <3>3. QED
      BY <3>1, <3>2 DEF Publishing
  <2>2. QED
    BY <1>1, <1>2, <1>5, <2>1, ReceiptAside
<1>6. QED
  BY <1>4, <1>5

LEMMA ReceiptSurroundings ==
  ASSUME RT, Shapes, Keeps, NEW m \in Messages, NEW u \in People, ReceiptTold(m, u), Surroundings
  PROVE  ReceiptTold(m, u)'
<1>1. call' = call
  BY SurroundingsTypes
<1>2. Disturbed(m, u, Marking) => Disturbed(m, u, Marking)'
  BY DisturbedStays DEF Shapes
<1>3. ASSUME m \in Present, receipts'[m][u] = receipts[m][u], told' = told
      PROVE  ReceiptTold(m, u)'
  BY <1>1, <1>2, <1>3, ReceiptFramed DEF ReceiptFrame, OnIt, Publishing, Pending
<1>4. CASE ClearChat
  BY <1>4 DEF ClearChat, Present, ReceiptTold, RT, ReceiptsTypeOK
<1>5. ASSUME NEW x \in Messages, Create(x) PROVE ReceiptTold(m, u)'
  <2>1. /\ stored[x] = "absent" /\ stored' = [stored EXCEPT ![x] = "present"]
        /\ receipts' = receipts /\ told' = told
        /\ stored \in [Messages -> {"absent", "present", "cleared"}]
    BY <1>5 DEF Create, RT, ReceiptsTypeOK
  <2>2. CASE m \in Present
    BY <1>3, <2>1, <2>2
  <2>3. CASE m \notin Present /\ m # x
    BY <2>1, <2>3 DEF ReceiptTold, Present
  <2>4. CASE m \notin Present /\ m = x
    <3>1. receipts[m][u] = "none" /\ told[m][u].receipt = "none"
      BY <2>1, <2>4 DEF RT, ReceiptsTypeOK, Shapes, Untold
    <3>2. \A q \in Calls : ~OnIt(q, m, u, Marking)'
      BY <1>1, <2>1, <2>4 DEF OnIt, Shapes, CallShape
    <3>3. QED
      BY <2>1, <3>1, <3>2 DEF ReceiptTold
  <2>5. QED
    BY <2>2, <2>3, <2>4
<1>6. CASE \E v \in People : Leave(v) \/ Join(v)
  <2>1. stored' = stored /\ receipts' = receipts /\ told' = told
    BY <1>6 DEF Leave, Join
  <2>2. QED
    BY <1>3, <2>1 DEF ReceiptTold, Present
<1>7. QED
  BY <1>4, <1>5, <1>6 DEF Surroundings

LEMMA ReceiptToldStays ==
  ASSUME RT, Shapes, [ReceiptsNext]_receiptVars, NEW m \in Messages, NEW u \in People,
         ReceiptTold(m, u)
  PROVE  ReceiptTold(m, u)'
<1>1. Keeps
  BY KeepsSteps
<1>2. ASSUME NEW q \in Calls, GoingOn(q) PROVE ReceiptTold(m, u)'
  <2>1. call[q].step # "new" /\ Others(q) /\ stored' = stored
    BY <1>2, GoingOnSheds DEF Sheds, Active
  <2>2. CASE LookUp(q)
    <3>1. /\ Publishing(q, m)' = Publishing(q, m)
          /\ Pending(q, m)' => Pending(q, m)
      BY <2>2, LookUpCall DEF Publishing, Pending
    <3>2. QED
      BY <1>1, <2>1, <2>2, <3>1, LookUpCall, ReceiptAside DEF SameRows
  <2>3. CASE CommitReaction(q) \/ CommitRemoval(q)
    <3>1. call[q].op \notin Marking
      BY <2>3, CommitReactionCall DEF Reacting, Marking
    <3>2. QED
      BY <1>1, <2>1, <2>3, <3>1, CommitReactionCall, ReceiptAside DEF OnIt
  <2>4. CASE PublishReaction(q)
    <3>1. call[q].op \notin Marking
      BY <2>4, PublishReactionCall DEF Reacting, Marking
    <3>2. QED
      BY <1>1, <2>1, <2>4, <3>1, PublishReactionCall, ReceiptAside DEF OnIt
  <2>5. CASE CommitHidden(q)
    <3>1. call[q].op \notin Marking
      BY <2>5, CommitHiddenCall DEF Marking
    <3>2. QED
      BY <1>1, <2>1, <2>5, <3>1, CommitHiddenCall, ReceiptAside DEF OnIt
  <2>6. CASE Cut(q)
    <3>1. CASE OnIt(q, m, u, Marking)
      <4>1. OnIt(q, m, u, Marking)' /\ call'[q].step = "cut"
        BY <1>1, <2>1, <2>6, <3>1, CutCall DEF OnIt, Keeps
      <4>2. Disturbed(m, u, Marking)'
        BY <4>1 DEF Disturbed, OnIt
      <4>3. QED
        BY <4>2 DEF ReceiptTold
    <3>2. CASE ~OnIt(q, m, u, Marking)
      BY <1>1, <2>1, <2>6, <3>2, CutCall, ReceiptAside
    <3>3. QED
      BY <3>1, <3>2
  <2>7. QED
    BY <1>1, <1>2, <2>2, <2>3, <2>4, <2>5, <2>6, ReceiptCommitted, ReceiptPublished DEF GoingOn
<1>3. CASE UNCHANGED receiptVars
  BY <1>3 DEF receiptVars, ReceiptTold, Present, Disturbed, Overlap, OnIt, Publishing, Pending
<1>4. QED
  BY <1>1, <1>2, <1>3, NextSorted, ReceiptBegins, ReceiptSurroundings

-----------------------------------------------------------------------------
(* Reactions.                                                              *)

FoundIs(q, m, u) ==
  \A r \in ReactionsOf(u, m) : call[q].found # "none" /\ r.by = call[q].found

ReactionFrame(m, u) ==
  /\ ReactionsOf(u, m)' = ReactionsOf(u, m)
  /\ told'[m][u].reaction = told[m][u].reaction
  /\ m \in Present
  /\ \A q \in Calls : OnIt(q, m, u, Reacting)' =>
       \/ /\ OnIt(q, m, u, Reacting) /\ call'[q].emoji = call[q].emoji
          /\ call'[q].step = "publish" => call[q].step = "publish"
          /\ call'[q].step = "commit" => call[q].step = "commit" /\ call'[q].found = call[q].found
       \/ /\ call'[q].step # "publish"
          /\ call'[q].step = "commit" => FoundIs(q, m, u)'
  /\ \A q \in Calls : OnIt(q, m, u, Reacting) /\ call[q].step = "publish" =>
       OnIt(q, m, u, Reacting)' /\ call'[q].step = "publish"

LEMMA ReactionFramed ==
  ASSUME NEW m \in Messages, NEW u \in People, ReactionTold(m, u), ReactionFrame(m, u),
         ~Disturbed(m, u, Reacting)
  PROVE  ReactionTold(m, u)'
<1>1. /\ \A q \in Calls : OnIt(q, m, u, Reacting) =>
           /\ call[q].step = "publish" => StoredEmojis(m, u) = {call[q].emoji} \ {"none"}
           /\ call[q].step = "commit" => FoundIs(q, m, u)
      /\ (\A q \in Calls : OnIt(q, m, u, Reacting) => call[q].step # "publish") =>
           StoredEmojis(m, u) = {told[m][u].reaction} \ {"none"}
  BY DEF ReactionTold, ReactionFrame, FoundIs
<1>2. StoredEmojis(m, u)' = StoredEmojis(m, u) /\ told'[m][u].reaction = told[m][u].reaction
  BY DEF StoredEmojis, ReactionFrame
<1>3. ASSUME NEW q \in Calls, OnIt(q, m, u, Reacting)'
      PROVE  /\ call'[q].step = "publish" => StoredEmojis(m, u)' = {call'[q].emoji} \ {"none"}
             /\ call'[q].step = "commit" => FoundIs(q, m, u)'
  <2>1. CASE /\ OnIt(q, m, u, Reacting) /\ call'[q].emoji = call[q].emoji
             /\ call'[q].step = "publish" => call[q].step = "publish"
             /\ call'[q].step = "commit" => call[q].step = "commit" /\ call'[q].found = call[q].found
    <3>1. call'[q].step = "publish" => StoredEmojis(m, u)' = {call'[q].emoji} \ {"none"}
      BY <1>1, <1>2, <2>1
    <3>2. call'[q].step = "commit" => FoundIs(q, m, u)'
      BY <1>1, <2>1 DEF FoundIs, ReactionFrame
    <3>3. QED
      BY <3>1, <3>2
  <2>2. CASE /\ call'[q].step # "publish"
             /\ call'[q].step = "commit" => FoundIs(q, m, u)'
    BY <2>2
  <2>3. QED
    BY <1>3, <2>1, <2>2 DEF ReactionFrame
<1>4. (\A q \in Calls : OnIt(q, m, u, Reacting)' => call'[q].step # "publish") =>
        StoredEmojis(m, u)' = {told'[m][u].reaction} \ {"none"}
  BY <1>1, <1>2 DEF ReactionFrame
<1>5. QED
  BY <1>3, <1>4 DEF ReactionTold, FoundIs

\* The steps that neither store nor tell a reaction.
LEMMA ReactionAside ==
  ASSUME RT, Shapes, Keeps, NEW m \in Messages, NEW u \in People, ReactionTold(m, u),
         NEW q \in Calls, Others(q), stored' = stored, ReactionsOf(u, m)' = ReactionsOf(u, m),
         told'[m][u].reaction = told[m][u].reaction, call[q].step # "new",
         ~OnIt(q, m, u, Reacting)
  PROVE  ReactionTold(m, u)'
<1>1. Disturbed(m, u, Reacting) => Disturbed(m, u, Reacting)'
  BY DisturbedStays DEF Shapes
<1>2. ~OnIt(q, m, u, Reacting)'
  BY DEF Keeps, OnIt
<1>3. \A p \in Calls \ {q} :
        call'[p] = call[p] /\ (OnIt(p, m, u, Reacting)' <=> OnIt(p, m, u, Reacting))
  BY DEF Others, OnIt
<1>4. CASE m \in Present /\ ~Disturbed(m, u, Reacting)
  <2>1. ReactionFrame(m, u)
    BY <1>2, <1>3, <1>4 DEF ReactionFrame
  <2>2. QED
    BY <1>4, <2>1, ReactionFramed
<1>5. CASE m \notin Present \/ Disturbed(m, u, Reacting)
  BY <1>1, <1>5 DEF ReactionTold, Present
<1>6. QED
  BY <1>4, <1>5

\* Undisturbed, there is at most one row.
LEMMA OneRow ==
  ASSUME RT, Paired, Shapes, NEW m, NEW u, ~Disturbed(m, u, Reacting),
         NEW r \in ReactionsOf(u, m), NEW s \in ReactionsOf(u, m)
  PROVE  r = s
<1>1. /\ r \in reactions /\ s \in reactions /\ r.msg = m /\ s.msg = m /\ r.user = u /\ s.user = u
      /\ r.by \in Calls /\ s.by \in Calls
  BY DEF ReactionsOf, RT, ReceiptsTypeOK
<1>2. OnIt(r.by, m, u, Reacting) /\ OnIt(s.by, m, u, Reacting)
  BY <1>1 DEF OnIt, Reacting, Shapes, RowsFit, Paired, RowsKnown
<1>3. r # s => Overlap(r.by, s.by)
  BY <1>1 DEF Paired, OneReaction
<1>4. QED
  BY <1>1, <1>2, <1>3 DEF Disturbed, OnIt

LEMMA ReactionBegins ==
  ASSUME RT, Paired, Shapes, Keeps, NEW m \in Messages, NEW u \in People, ReactionTold(m, u),
         NEW q \in Calls, FirstStep(q)
  PROVE  ReactionTold(m, u)'
<1>1. Disturbed(m, u, Reacting) => Disturbed(m, u, Reacting)'
  BY DisturbedStays DEF Shapes
<1>2. PICK c \in CallStates : Began(q, c)
  BY FirstStepBegins DEF RT
<1>3. /\ call[q].step = "new" /\ call'[q] = c /\ Others(q) /\ Fit(c) /\ stored' = stored
      /\ reactions' = reactions /\ told' = told /\ ReactionsOf(u, m)' = ReactionsOf(u, m)
  BY <1>2 DEF Began, SameRows, RT, ReceiptsTypeOK, Others, ReactionsOf
<1>4. \A p \in Calls \ {q} :
        call'[p] = call[p] /\ (OnIt(p, m, u, Reacting)' <=> OnIt(p, m, u, Reacting))
  BY <1>3 DEF Others, OnIt
<1>5. CASE m \in Present /\ ~Disturbed(m, u, Reacting)
  <2>1. OnIt(q, m, u, Reacting)' => FoundIs(q, m, u)'
    <3> SUFFICES ASSUME c.user = u, m \in c.about, c.op \in Reacting, NEW r \in ReactionsOf(u, m)
                 PROVE  c.found # "none" /\ r.by = c.found
      BY <1>3 DEF OnIt, FoundIs
    <3>1. PICK x \in Messages :
            /\ c.about = {x}
            /\ IF c.found = "none" THEN ReactionsOf(c.user, x) = {}
               ELSE \E s \in ReactionsOf(c.user, x) : s.by = c.found
      BY <1>3 DEF Fit, Whole
    <3>2. c.found # "none" /\ \E s \in ReactionsOf(u, m) : s.by = c.found
      BY <3>1
    <3>3. QED
      BY <1>5, <3>2, OneRow
  <2>2. call'[q].step # "publish"
    BY <1>3 DEF Fit
  <2>3. ReactionFrame(m, u)
    BY <1>3, <1>4, <1>5, <2>1, <2>2 DEF ReactionFrame
  <2>4. QED
    BY <1>5, <2>3, ReactionFramed
<1>6. CASE m \notin Present \/ Disturbed(m, u, Reacting)
  BY <1>1, <1>3, <1>6 DEF ReactionTold, Present
<1>7. QED
  BY <1>5, <1>6

\* The row that a call found is one of its own user and message.
LEMMA FoundRowFits ==
  ASSUME RT, Shapes, NEW q \in Calls, call[q].op \in Reacting, call[q].step = "commit",
         NEW r \in FoundRow(call[q])
  PROVE  r \in reactions /\ r.by = call[q].found /\ call[q].found # "none"
         /\ r.user = call[q].user /\ call[q].about = {r.msg}
<1>1. r \in reactions /\ r.by = call[q].found /\ r.by \in Calls
  BY DEF FoundRow, RT, ReceiptsTypeOK
<1>2. call[q].found # "none"
  BY <1>1, CallsAssumption
<1>3. call[r.by].user = call[q].user /\ call[r.by].about = call[q].about
  BY <1>1, <1>2 DEF Shapes, FoundShape
<1>4. QED
  BY <1>1, <1>2, <1>3 DEF Shapes, RowsFit

\* q, which runs alone, has stored or told the reaction.
LEMMA OtherReactions ==
  ASSUME RT, \A p \in Calls : CallShape(p), NEW q \in Calls, Others(q), NEW m, NEW u,
         ~Disturbed(m, u, Reacting), OnIt(q, m, u, Reacting), Active(q),
         NEW p \in Calls, p # q, OnIt(p, m, u, Reacting)'
  PROVE  call'[p].step \notin {"commit", "publish"}
<1>1. call'[p] = call[p]
  BY DEF Others
<1>2. OnIt(p, m, u, Reacting)
  BY <1>1 DEF OnIt
<1>3. ~Active(p)
  BY <1>2, OneActive
<1>4. QED
  BY <1>1, <1>3 DEF Active

\* What a commit makes of the rows of its user and message, when all of them are the
\* one it found, and that it leaves the others alone.
LEMMA CommitsRow ==
  ASSUME RT, Shapes, NEW q \in Calls, CommitReaction(q) \/ CommitRemoval(q),
         NEW m \in Messages, NEW u \in People
  PROVE  /\ ~OnIt(q, m, u, Reacting) => ReactionsOf(u, m)' = ReactionsOf(u, m)
         /\ (OnIt(q, m, u, Reacting) /\ FoundIs(q, m, u)) =>
              StoredEmojis(m, u)' = {call[q].emoji} \ {"none"}
<1>1. PICK x \in Messages : call[q].about = {x}
  BY CommitReactionCall DEF Shapes, CallShape
<1>2. /\ call[q].step = "commit" /\ call[q].op \in Reacting
      /\ OnIt(q, m, u, Reacting) <=> (u = call[q].user /\ m = x)
  BY <1>1, CommitReactionCall DEF OnIt
<1>3. \A r \in FoundRow(call[q]) : r \in ReactionsOf(call[q].user, x) /\ r.by = call[q].found
                                   /\ r.user = call[q].user /\ r.msg = x
  BY <1>1, <1>2, FoundRowFits DEF ReactionsOf
<1>4. FoundIs(q, x, call[q].user) => FoundRow(call[q]) = ReactionsOf(call[q].user, x)
  BY <1>3 DEF FoundIs, ReactionsOf, FoundRow
<1>5. CASE CommitRemoval(q)
  <2>1. reactions' = reactions \ FoundRow(call[q]) /\ call[q].op = "remove_reaction"
    BY <1>5 DEF CommitRemoval
  <2>2. call[q].emoji = "none"
    BY <2>1 DEF Shapes, CallShape, Reacting
  <2>3. ReactionsOf(u, m)' = ReactionsOf(u, m) \ FoundRow(call[q])
    BY <2>1 DEF ReactionsOf
  <2>4. QED
    BY <1>2, <1>3, <1>4, <2>2, <2>3 DEF StoredEmojis, ReactionsOf
<1>6. CASE CommitReaction(q) /\ call[q].found = "none"
  <2>1. reactions' = reactions \cup
          {[msg |-> x, user |-> call[q].user, emoji |-> call[q].emoji, by |-> q]}
    BY <1>1, <1>6 DEF CommitReaction
  <2>2. call[q].emoji # "none"
    BY <1>6, EmojisAssumption DEF CommitReaction, RT, CallOK
  <2> DEFINE new == [msg |-> x, user |-> call[q].user, emoji |-> call[q].emoji, by |-> q]
  <2>3. new.msg = x /\ new.user = call[q].user /\ new.emoji = call[q].emoji
    OBVIOUS
  <2>4. reactions' = reactions \cup {new}
    BY <2>1
  <2> HIDE DEF new
  <2>5. ~(u = call[q].user /\ m = x) => ReactionsOf(u, m)' = ReactionsOf(u, m)
    BY <2>3, <2>4 DEF ReactionsOf
  <2>6. (u = call[q].user /\ m = x /\ FoundIs(q, m, u)) => ReactionsOf(u, m)' = {new}
    BY <1>6, <2>3, <2>4 DEF ReactionsOf, FoundIs
  <2>7. QED
    BY <1>2, <2>2, <2>3, <2>5, <2>6 DEF StoredEmojis
<1>7. CASE CommitReaction(q) /\ call[q].found # "none"
  <2>1. /\ FoundRow(call[q]) # {}
        /\ reactions' = (reactions \ FoundRow(call[q])) \cup
             {[r EXCEPT !.emoji = call[q].emoji] : r \in FoundRow(call[q])}
    BY <1>1, <1>7 DEF CommitReaction
  <2>2. call[q].emoji # "none"
    BY <1>7, EmojisAssumption DEF CommitReaction, RT, CallOK
  <2>3. PICK e, F : e = call[q].emoji /\ F = FoundRow(call[q])
    OBVIOUS
  <2>4. \A r \in F : /\ [r EXCEPT !.emoji = e].msg = x
                     /\ [r EXCEPT !.emoji = e].user = call[q].user
                     /\ [r EXCEPT !.emoji = e].emoji = e
    <3>1. \A r \in F : r \in [msg : Present, user : People, emoji : Emojis, by : Calls]
      BY <2>3 DEF FoundRow, RT, ReceiptsTypeOK
    <3>2. QED
      BY <1>3, <2>3, <3>1
  <2> DEFINE N == {[r EXCEPT !.emoji = e] : r \in F}
  <2>5. N # {} /\ \A r \in N : r.msg = x /\ r.user = call[q].user /\ r.emoji = e
    BY <2>1, <2>3, <2>4
  <2>6. reactions' = (reactions \ F) \cup N
    BY <2>1, <2>3
  <2> HIDE DEF N
  <2>7. ~(u = call[q].user /\ m = x) => ReactionsOf(u, m)' = ReactionsOf(u, m)
    BY <1>3, <2>3, <2>5, <2>6 DEF ReactionsOf
  <2>8. (u = call[q].user /\ m = x /\ FoundIs(q, m, u)) => ReactionsOf(u, m)' = N
    BY <1>4, <2>3, <2>5, <2>6 DEF ReactionsOf
  <2>9. {r.emoji : r \in N} = {e}
    BY <2>5
  <2>10. QED
    BY <1>2, <2>2, <2>3, <2>7, <2>8, <2>9 DEF StoredEmojis
<1>8. QED
  BY <1>5, <1>6, <1>7

LEMMA ReactionCommitted ==
  ASSUME RT, Shapes, Keeps, NEW m \in Messages, NEW u \in People, ReactionTold(m, u),
         NEW q \in Calls, CommitReaction(q) \/ CommitRemoval(q)
  PROVE  ReactionTold(m, u)'
<1>1. /\ Others(q) /\ call[q].step = "commit" /\ call[q].op \in Reacting
      /\ call'[q].step = "publish" /\ UNCHANGED <<stored, receipts, told>>
  BY CommitReactionCall
<1>2. CASE OnIt(q, m, u, Reacting)
  <2> SUFFICES ASSUME m \in Present, ~Disturbed(m, u, Reacting)'
               PROVE  \A p \in Calls : OnIt(p, m, u, Reacting)' =>
                        /\ call'[p].step = "publish" =>
                             StoredEmojis(m, u)' = {call'[p].emoji} \ {"none"}
                        /\ call'[p].step # "commit"
                        /\ \E x \in Calls : OnIt(x, m, u, Reacting)' /\ call'[x].step = "publish"
    <3>1. OnIt(q, m, u, Reacting)'
      BY <1>1, <1>2 DEF OnIt, Keeps
    <3>2. QED
      BY <1>1, <3>1 DEF ReactionTold, Present
  <2>1. ~Disturbed(m, u, Reacting)
    BY DisturbedStays DEF Shapes
  <2>2. FoundIs(q, m, u)
    BY <1>1, <1>2, <2>1 DEF ReactionTold, FoundIs
  <2>3. StoredEmojis(m, u)' = {call'[q].emoji} \ {"none"} /\ OnIt(q, m, u, Reacting)'
    BY <1>1, <1>2, <2>2, CommitsRow DEF Keeps, OnIt
  <2>4. \A p \in Calls \ {q} : OnIt(p, m, u, Reacting)' => call'[p].step \notin {"commit", "publish"}
    BY <1>1, <1>2, <2>1, OtherReactions DEF Shapes, Active
  <2>5. QED
    BY <1>1, <2>3, <2>4
<1>3. CASE ~OnIt(q, m, u, Reacting)
  BY <1>1, <1>3, CommitsRow, ReactionAside
<1>4. QED
  BY <1>2, <1>3

LEMMA ReactionPublished ==
  ASSUME RT, Shapes, Keeps, NEW m \in Messages, NEW u \in People, ReactionTold(m, u),
         NEW q \in Calls, PublishReaction(q)
  PROVE  ReactionTold(m, u)'
<1>1. /\ Others(q) /\ call[q].step = "publish" /\ call[q].op \in Reacting
      /\ call'[q].step = "done" /\ UNCHANGED <<stored, receipts, reactions>>
      /\ told'[m][u].reaction = IF m \in call[q].about /\ u = call[q].user
                                THEN call[q].emoji ELSE told[m][u].reaction
  BY PublishReactionCall
<1>2. ReactionsOf(u, m)' = ReactionsOf(u, m)
  BY <1>1 DEF ReactionsOf
<1>3. CASE OnIt(q, m, u, Reacting)
  <2> SUFFICES ASSUME m \in Present, ~Disturbed(m, u, Reacting)'
               PROVE  /\ \A p \in Calls : OnIt(p, m, u, Reacting)' =>
                           call'[p].step \notin {"commit", "publish"}
                      /\ StoredEmojis(m, u)' = {told'[m][u].reaction} \ {"none"}
    BY <1>1 DEF ReactionTold, Present
  <2>1. ~Disturbed(m, u, Reacting)
    BY DisturbedStays DEF Shapes
  <2>2. StoredEmojis(m, u) = {call[q].emoji} \ {"none"}
    BY <1>1, <1>3, <2>1 DEF ReactionTold
  <2>3. \A p \in Calls \ {q} : OnIt(p, m, u, Reacting)' => call'[p].step \notin {"commit", "publish"}
    BY <1>1, <1>3, <2>1, OtherReactions DEF Shapes, Active
  <2>4. StoredEmojis(m, u)' = StoredEmojis(m, u)
    BY <1>2 DEF StoredEmojis
  <2>5. QED
    BY <1>1, <1>3, <2>2, <2>3, <2>4 DEF OnIt
<1>4. CASE ~OnIt(q, m, u, Reacting)
  BY <1>1, <1>2, <1>4, ReactionAside DEF OnIt
<1>5. QED
  BY <1>3, <1>4

LEMMA ReactionSurroundings ==
  ASSUME RT, Shapes, Keeps, NEW m \in Messages, NEW u \in People, ReactionTold(m, u), Surroundings
  PROVE  ReactionTold(m, u)'
<1>1. call' = call
  BY SurroundingsTypes
<1>2. Disturbed(m, u, Reacting) => Disturbed(m, u, Reacting)'
  BY DisturbedStays DEF Shapes
<1>3. ASSUME m \in Present, reactions' = reactions, told' = told
      PROVE  ReactionTold(m, u)'
  <2>1. CASE ~Disturbed(m, u, Reacting)
    BY <1>1, <1>3, <2>1, ReactionFramed DEF ReactionFrame, OnIt, ReactionsOf
  <2>2. CASE Disturbed(m, u, Reacting)
    BY <1>2, <2>2 DEF ReactionTold
  <2>3. QED
    BY <2>1, <2>2
<1>4. CASE ClearChat
  BY <1>4 DEF ClearChat, Present, ReactionTold, RT, ReceiptsTypeOK
<1>5. ASSUME NEW x \in Messages, Create(x) PROVE ReactionTold(m, u)'
  <2>1. /\ stored[x] = "absent" /\ stored' = [stored EXCEPT ![x] = "present"]
        /\ reactions' = reactions /\ told' = told
        /\ stored \in [Messages -> {"absent", "present", "cleared"}]
    BY <1>5 DEF Create, RT, ReceiptsTypeOK
  <2>2. CASE m \in Present
    BY <1>3, <2>1, <2>2
  <2>3. CASE m \notin Present /\ m # x
    BY <2>1, <2>3 DEF ReactionTold, Present
  <2>4. CASE m \notin Present /\ m = x
    <3>1. ReactionsOf(u, m)' = {} /\ told'[m][u].reaction = "none"
      BY <2>1, <2>4 DEF RT, ReceiptsTypeOK, Shapes, Untold, ReactionsOf
    <3>2. \A q \in Calls : ~OnIt(q, m, u, Reacting)'
      BY <1>1, <2>1, <2>4 DEF OnIt, Shapes, CallShape
    <3>3. StoredEmojis(m, u)' = {told'[m][u].reaction} \ {"none"}
      BY <3>1 DEF StoredEmojis
    <3>4. QED
      BY <3>2, <3>3 DEF ReactionTold
  <2>5. QED
    BY <2>2, <2>3, <2>4
<1>6. CASE \E v \in People : Leave(v) \/ Join(v)
  <2>1. stored' = stored /\ reactions' = reactions /\ told' = told
    BY <1>6 DEF Leave, Join
  <2>2. QED
    BY <1>3, <2>1 DEF ReactionTold, Present
<1>7. QED
  BY <1>4, <1>5, <1>6 DEF Surroundings

LEMMA ReactionToldStays ==
  ASSUME RT, Paired, Shapes, [ReceiptsNext]_receiptVars, NEW m \in Messages, NEW u \in People,
         ReactionTold(m, u)
  PROVE  ReactionTold(m, u)'
<1>1. Keeps
  BY KeepsSteps
<1>2. ASSUME NEW q \in Calls, Others(q), call[q].step # "new", stored' = stored,
             reactions' = reactions, told'[m][u].reaction = told[m][u].reaction,
             call[q].op \notin Reacting
      PROVE  ReactionTold(m, u)'
  BY <1>1, <1>2, ReactionAside DEF OnIt, ReactionsOf
<1>3. ASSUME NEW q \in Calls, GoingOn(q) PROVE ReactionTold(m, u)'
  <2>1. call[q].step # "new" /\ Others(q) /\ stored' = stored
    BY <1>3, GoingOnSheds DEF Sheds, Active
  <2>2. CASE LookUp(q)
    <3>1. call[q].op \notin Reacting
      BY <2>2, LookUpCall DEF Shapes, CallShape
    <3>2. QED
      BY <1>2, <2>1, <2>2, <3>1, LookUpCall DEF SameRows
  <2>3. CASE CommitReceipts(q)
    BY <1>2, <2>1, <2>3, CommitReceiptsCall DEF Marking, Reacting
  <2>4. CASE PublishReceipt(q)
    BY <1>2, <2>1, <2>4, PublishReceiptCall DEF Marking, Reacting
  <2>5. CASE CommitHidden(q)
    BY <1>2, <2>1, <2>5, CommitHiddenCall DEF Reacting
  <2>6. CASE Cut(q)
    <3>1. CASE OnIt(q, m, u, Reacting)
      <4>1. OnIt(q, m, u, Reacting)' /\ call'[q].step = "cut"
        BY <1>1, <2>1, <2>6, <3>1, CutCall DEF OnIt, Keeps
      <4>2. Disturbed(m, u, Reacting)'
        BY <4>1 DEF Disturbed, OnIt
      <4>3. QED
        BY <4>2 DEF ReactionTold
    <3>2. CASE ~OnIt(q, m, u, Reacting)
      BY <1>1, <2>1, <2>6, <3>2, CutCall, ReactionAside DEF ReactionsOf
    <3>3. QED
      BY <3>1, <3>2
  <2>7. QED
    BY <1>1, <1>3, <2>2, <2>3, <2>4, <2>5, <2>6, ReactionCommitted, ReactionPublished DEF GoingOn
<1>4. CASE UNCHANGED receiptVars
  BY <1>4 DEF receiptVars, ReactionTold, Present, Disturbed, Overlap, OnIt, StoredEmojis, ReactionsOf
<1>5. QED
  BY <1>1, <1>3, <1>4, NextSorted, ReactionBegins, ReactionSurroundings

Told == Shapes /\ \A m \in Messages, u \in People : ReceiptTold(m, u) /\ ReactionTold(m, u)

\* When no call runs, the event last published about a receipt or a reaction says what
\* the database says, unless two calls about it overlapped or one was cut: calls that
\* come one after the other publish in the order of their commits.
THEOREM ToldIsStored ==
  ReceiptsSpec => []LastToldIsStored
<1>1. ReceiptsInit => Paired /\ Told
  <2>1. ReceiptsInit => Paired
    BY DEF ReceiptsInit, Paired, RowsKnown, OneReaction, FoundNone
  <2>2. ReceiptsInit => Told
    BY DEF ReceiptsInit, NewCall, Told, Shapes, CallShape, FoundShape, RowsFit, Untold, Active,
           ReceiptTold, ReactionTold, Present, Reacting
  <2>3. QED
    BY <2>1, <2>2
<1>2. RT /\ Paired /\ Told /\ [ReceiptsNext]_receiptVars => Paired' /\ Told'
  BY PairedStays, ShapesStay, ReceiptToldStays, ReactionToldStays DEF Told
<1>3. Told => LastToldIsStored
  <2> SUFFICES ASSUME Told, Quiet, NEW m \in Present, NEW u \in People
               PROVE  /\ told[m][u].receipt = receipts[m][u] \/ Disturbed(m, u, Marking)
                      /\ \/ StoredEmojis(m, u) = {told[m][u].reaction} \ {"none"}
                         \/ Disturbed(m, u, Reacting)
    BY DEF LastToldIsStored, StoredEmojis, Reacting
  <2>1. m \in Messages /\ \A q \in Calls : call[q].step # "publish" /\ ~Publishing(q, m)
    BY DEF Quiet, Publishing, Present
  <2>2. QED
    BY <2>1 DEF Told, ReceiptTold, ReactionTold
<1>4. QED
  BY <1>1, <1>2, <1>3, ReceiptsInvariant, PTL DEF ReceiptsSpec
==============================================================================

------------------- MODULE NotificationsMediaStore_proofs --------------------
(***************************************************************************)
(* Theorems about Notifications, for any recipients, messages, endpoints   *)
(* and registrations; and about MediaStore, for any objects, rows and      *)
(* requests.  The two share nothing.                                       *)
(***************************************************************************)
EXTENDS Notifications, MediaStore, TLAPS

-----------------------------------------------------------------------------
(* Types.  They say a little more than NotifyTypeOK: a send at work has a  *)
(* recipient, a registration at work a user and an endpoint.               *)

NT ==
  /\ NotifyTypeOK
  /\ \A s \in Sends : /\ send[s].step \in {"publish", "check"} => send[s].to \in Recipients
                      /\ send[s].step \in {"new", "next"} => send[s].to = "none"
  /\ \A g \in Registrations : reg[g].step # "new" =>
       reg[g].user \in Recipients /\ reg[g].endpoint \in Endpoints

\* The steps of a sender, of a push, of a registration, of the users.
Sending(s) ==
  \/ StartNotifying(s) \/ PassOver(s) \/ Store(s) \/ PublishNote(s) \/ CheckOnline(s)
  \/ NotifyEnds(s) \/ NotifyFails(s)

Pushing(s, u) == ReadSubscriptions(s, u) \/ PushOne(s, u) \/ DeleteDead(s, u)

Registering(g) ==
  Save(g) \/ SaveKeys(g) \/ \E u \in Recipients, e \in Endpoints : Subscribe(g, u, e)

Using(u) == OpenSocket(u) \/ SetMark(u) \/ CloseSocket(u) \/ LoseMark(u)

Arriving(s, u) == DeliverNote(s, u) \/ LoseNote(s, u)

LEMMA NextSorted ==
  ASSUME NotifyNext
  PROVE  \/ \E s \in Sends : Sending(s) \/ \E u \in Recipients : Pushing(s, u)
         \/ \E g \in Registrations : Registering(g)
         \/ \E s \in Sends, u \in Recipients : Arriving(s, u)
         \/ \E u \in Recipients : Using(u) \/ \E S \in SUBSET Sends : ReadNotes(u, S)
         \/ \E e \in Endpoints : Unsubscribe(e)
BY DEF NotifyNext, Sending, Pushing, Registering, Using, Arriving

\* What a sender does to its own record, and to the rest.
LEMMA SendingFacts ==
  ASSUME NT, NEW s \in Sends, Sending(s)
  PROVE  /\ \E c \in SendStates :
              /\ send' = [send EXCEPT ![s] = c]
              /\ c.step \in {"publish", "check"} => c.to \in Recipients
              /\ c.step \in {"new", "next"} => c.to = "none"
              /\ c.step = "check" => PublishNote(s)
              /\ c.to = send[s].to \/ CheckOnline(s) \/ send[s].step \in {"new", "next"}
              /\ \/ PublishNote(s) /\ c.to = send[s].to /\ send[s].step = "publish"
                 \/ UNCHANGED <<flying, mayMiss>>
         /\ UNCHANGED <<presenceVars, owner, gone, reg, live>>
         /\ flying \subseteq flying' /\ flying' \subseteq Sends \X Recipients
         /\ mayMiss \subseteq mayMiss' /\ mayMiss' \subseteq Sends \X Recipients
<1> DEFINE k == send[s]
<1>1. k \in SendStates /\ send \in [Sends -> SendStates]
  BY DEF NT, NotifyTypeOK
<1>2. /\ k.step \in {"publish", "check"} => k.to \in Recipients
      /\ k.step \in {"new", "next"} => k.to = "none"
  BY DEF NT
<1> HIDE DEF k
<1>3. CASE StartNotifying(s)
  <2> DEFINE c == [step |-> "next", to |-> "none", rest |-> Recipients]
  <2>1. /\ send' = [send EXCEPT ![s] = c] /\ c \in SendStates /\ c.step = "next"
        /\ c.to = "none" /\ send[s].step = "new"
    BY <1>3 DEF StartNotifying, SendStates
  <2> HIDE DEF c
  <2>2. QED
    BY <1>3, <2>1 DEF StartNotifying, NT, NotifyTypeOK, wireVars
<1>4. CASE PassOver(s)
  <2>1. PICK u \in k.rest : send' = [send EXCEPT ![s].rest = @ \ {u}]
    BY <1>4 DEF PassOver, k
  <2> DEFINE c == [k EXCEPT !.rest = @ \ {u}]
  <2>2. send' = [send EXCEPT ![s] = c] /\ c \in SendStates /\ c.step = k.step /\ c.to = k.to
    BY <1>1, <2>1 DEF SendStates, k
  <2>3. k.step = "next"
    BY <1>4 DEF PassOver, k
  <2> HIDE DEF c
  <2>4. QED
    BY <1>2, <1>4, <2>2, <2>3 DEF PassOver, NT, NotifyTypeOK, wireVars, k
<1>5. CASE Store(s)
  <2>1. PICK u \in k.rest :
          send' = [send EXCEPT ![s] = [step |-> "publish", to |-> u, rest |-> @.rest \ {u}]]
    BY <1>5 DEF Store, k
  <2> DEFINE c == [step |-> "publish", to |-> u, rest |-> k.rest \ {u}]
  <2>2. /\ send' = [send EXCEPT ![s] = c] /\ c \in SendStates /\ c.to \in Recipients
        /\ c.step = "publish" /\ send[s].step = "next"
    BY <1>1, <1>5, <2>1 DEF SendStates, Store, k
  <2> HIDE DEF c
  <2>3. QED
    BY <1>5, <2>2 DEF Store, NT, NotifyTypeOK, wireVars
<1>6. CASE PublishNote(s)
  <2> DEFINE c == [k EXCEPT !.step = "check"]
  <2>1. /\ send' = [send EXCEPT ![s] = c] /\ c \in SendStates /\ c.to = k.to
        /\ k.step = "publish" /\ c.step = "check"
    BY <1>1, <1>6 DEF SendStates, PublishNote, k
  <2> HIDE DEF c
  <2>2. <<s, k.to>> \in Sends \X Recipients /\ flying \cup mayMiss \subseteq Sends \X Recipients
    BY <1>2, <2>1 DEF NT, NotifyTypeOK
  <2>3. /\ flying' = flying \cup {<<s, k.to>>}
        /\ mayMiss' = mayMiss \/ mayMiss' = mayMiss \cup {<<s, k.to>>}
        /\ UNCHANGED <<presenceVars, owner, gone, reg, live>>
    BY <1>6 DEF PublishNote, k
  <2>4. /\ flying \subseteq flying' /\ flying' \subseteq Sends \X Recipients
        /\ mayMiss \subseteq mayMiss' /\ mayMiss' \subseteq Sends \X Recipients
    BY <2>2, <2>3
  <2>5. QED
    BY <1>2, <1>6, <2>1, <2>3, <2>4 DEF k
<1>7. CASE CheckOnline(s)
  <2> DEFINE c == [k EXCEPT !.step = "next", !.to = "none"]
  <2>1. /\ send' = [send EXCEPT ![s] = c] /\ c \in SendStates /\ c.step = "next"
        /\ c.to = "none"
    BY <1>1, <1>7 DEF SendStates, CheckOnline, k
  <2> HIDE DEF c
  <2>2. QED
    BY <1>7, <2>1 DEF CheckOnline, NT, NotifyTypeOK, wireVars
<1>8. CASE NotifyEnds(s) \/ NotifyFails(s)
  <2> DEFINE c == [k EXCEPT !.step = "done"]
  <2>1. send' = [send EXCEPT ![s] = c] /\ c \in SendStates /\ c.step = "done" /\ c.to = k.to
    BY <1>1, <1>8 DEF SendStates, NotifyEnds, NotifyFails, k
  <2> HIDE DEF c
  <2>2. QED
    BY <1>8, <2>1 DEF NotifyEnds, NotifyFails, NT, NotifyTypeOK, wireVars, k
<1>9. QED
  BY <1>3, <1>4, <1>5, <1>6, <1>7, <1>8 DEF Sending

\* Rows are stored by Store, pushes started by CheckOnline.
LEMMA SendingRows ==
  ASSUME NT, NEW s \in Sends, Sending(s)
  PROVE  /\ note' \in [Sends -> [Recipients -> {"none", "unread", "read"}]]
         /\ push' \in [Sends -> [Recipients -> PushStates]]
         /\ \A t \in Sends, u \in Recipients :
              /\ note'[t][u] # "none" => note[t][u] # "none" \/ (t = s /\ send'[s].to = u)
              /\ push[t][u].step # "none" => push'[t][u].step # "none"
              /\ push'[t][u].dead = push[t][u].dead
<1>1. /\ note \in [Sends -> [Recipients -> {"none", "unread", "read"}]]
      /\ push \in [Sends -> [Recipients -> PushStates]]
      /\ send \in [Sends -> SendStates]
  BY DEF NT, NotifyTypeOK
<1>2. CASE note' = note /\ push' = push
  BY <1>1, <1>2
<1>3. CASE Store(s)
  <2>1. PICK u \in send[s].rest :
          /\ note' = [note EXCEPT ![s][u] = "unread"] /\ push' = push
          /\ send' = [send EXCEPT ![s] = [step |-> "publish", to |-> u, rest |-> @.rest \ {u}]]
    BY <1>3 DEF Store
  <2>2. u \in Recipients
    BY <1>1, <2>1 DEF SendStates
  <2>3. note' \in [Sends -> [Recipients -> {"none", "unread", "read"}]]
    BY <1>1, <2>1, <2>2
  <2>4. send'[s].to = u
    BY <1>1, <2>1
  <2>5. QED
    BY <1>1, <2>1, <2>3, <2>4
<1>4. CASE CheckOnline(s)
  <2>1. PICK u \in Recipients : u = send[s].to
    BY <1>4 DEF CheckOnline, NT
  <2>2. note' = note /\ push' = IF NeedsPush(u) THEN [push EXCEPT ![s][u].step = "started"] ELSE push
    BY <1>4, <2>1 DEF CheckOnline
  <2>3. CASE NeedsPush(u)
    <3>1. PICK k \in PushStates : k = push[s][u]
      BY <1>1
    <3> DEFINE c == [k EXCEPT !.step = "started"]
    <3>2. c \in PushStates /\ c.step = "started" /\ c.dead = k.dead
      BY DEF PushStates
    <3>3. push' = [push EXCEPT ![s] = [push[s] EXCEPT ![u] = c]]
      BY <2>2, <2>3, <3>1
    <3> HIDE DEF c
    <3>4. push' \in [Sends -> [Recipients -> PushStates]]
      BY <1>1, <3>2, <3>3
    <3>5. \A t \in Sends, v \in Recipients :
            push'[t][v] = IF t = s /\ v = u THEN c ELSE push[t][v]
      BY <1>1, <3>3
    <3>6. QED
      BY <1>1, <2>2, <3>1, <3>2, <3>4, <3>5
  <2>4. QED
    BY <1>2, <2>2, <2>3
<1>5. QED
  BY <1>2, <1>3, <1>4 DEF Sending, StartNotifying, PassOver, PublishNote, NotifyEnds, NotifyFails

\* A push, once started, is never as before; it takes endpoints for dead only if they
\* are gone, and deletes no other row.
LEMMA PushingFacts ==
  ASSUME NT, NEW s \in Sends, NEW u \in Recipients, Pushing(s, u)
  PROVE  /\ push' \in [Sends -> [Recipients -> PushStates]]
         /\ \A t \in Sends, v \in Recipients :
              /\ push[t][v].step # "none" => push'[t][v].step # "none"
              /\ push'[t][v].dead \subseteq push[t][v].dead \cup gone
         /\ UNCHANGED <<presenceVars, note, gone, send, reg, wireVars>>
         /\ \A e \in Endpoints :
              owner'[e] = owner[e] \/ (owner'[e] = "none" /\ e \in push[s][u].dead)
         /\ owner' \in [Endpoints -> Recipients \cup {"none"}]
<1>1. /\ push \in [Sends -> [Recipients -> PushStates]]
      /\ owner \in [Endpoints -> Recipients \cup {"none"}]
  BY DEF NT, NotifyTypeOK
<1>2. PICK k \in PushStates : k = push[s][u]
  BY <1>1
<1>3. UNCHANGED <<presenceVars, note, gone, send, reg, wireVars>>
  BY DEF Pushing, ReadSubscriptions, PushOne, DeleteDead
<1>4. owner' = owner \/ owner' = [e \in Endpoints |-> IF e \in k.dead THEN "none" ELSE owner[e]]
  BY <1>2 DEF Pushing, ReadSubscriptions, PushOne, DeleteDead
<1>5. \E c \in PushStates : /\ push' = [push EXCEPT ![s] = [push[s] EXCEPT ![u] = c]]
                            /\ c.step # "none" /\ c.dead \subseteq k.dead \cup gone
  <2>1. CASE ReadSubscriptions(s, u)
    <3> DEFINE L == {e \in Endpoints : owner[e] = u}
               c == [k EXCEPT !.step = "pushing", !.list = L]
    <3>1. push' = [push EXCEPT ![s] = [push[s] EXCEPT ![u] = c]]
      BY <1>1, <1>2, <2>1 DEF ReadSubscriptions
    <3>2. L \in SUBSET Endpoints
      OBVIOUS
    <3> HIDE DEF L
    <3>3. c \in PushStates /\ c.step = "pushing" /\ c.dead = k.dead
      BY <3>2 DEF PushStates
    <3> HIDE DEF c
    <3>4. QED
      BY <3>1, <3>3
  <2>2. CASE PushOne(s, u)
    <3>1. k.step = "pushing"
      BY <1>2, <2>2 DEF PushOne
    <3>2. PICK e \in k.list :
            push' = [push EXCEPT ![s][u].list = @ \ {e},
                                 ![s][u].dead = IF e \in gone THEN @ \cup {e} ELSE @]
      BY <1>2, <2>2 DEF PushOne
    <3> DEFINE D == IF e \in gone THEN k.dead \cup {e} ELSE k.dead
               c == [k EXCEPT !.list = k.list \ {e}, !.dead = D]
    <3>3. push' = [push EXCEPT ![s] = [push[s] EXCEPT ![u] = c]]
      BY <1>1, <1>2, <3>2
    <3>4. D \in SUBSET Endpoints /\ D \subseteq k.dead \cup gone /\ k.list \ {e} \in SUBSET Endpoints
      BY DEF PushStates
    <3> HIDE DEF D
    <3>5. c \in PushStates /\ c.step = "pushing" /\ c.dead = D
      BY <3>1, <3>4 DEF PushStates
    <3> HIDE DEF c
    <3>6. QED
      BY <3>3, <3>4, <3>5
  <2>3. CASE DeleteDead(s, u)
    <3> DEFINE c == [k EXCEPT !.step = "done", !.dead = {}]
    <3>1. push' = [push EXCEPT ![s] = [push[s] EXCEPT ![u] = c]]
      BY <1>1, <1>2, <2>3 DEF DeleteDead
    <3>2. c \in PushStates /\ c.step = "done" /\ c.dead = {}
      BY DEF PushStates
    <3> HIDE DEF c
    <3>3. QED
      BY <3>1, <3>2
  <2>4. QED
    BY <2>1, <2>2, <2>3 DEF Pushing
<1>6. PICK c \in PushStates : /\ push' = [push EXCEPT ![s] = [push[s] EXCEPT ![u] = c]]
                              /\ c.step # "none" /\ c.dead \subseteq k.dead \cup gone
  BY <1>5
<1>7. push' \in [Sends -> [Recipients -> PushStates]]
  BY <1>1, <1>6
<1>8. \A t \in Sends, v \in Recipients : push'[t][v] = IF t = s /\ v = u THEN c ELSE push[t][v]
  BY <1>1, <1>6
<1>9. \A e \in Endpoints : owner'[e] = owner[e] \/ (owner'[e] = "none" /\ e \in push[s][u].dead)
  BY <1>2, <1>4
<1>10. owner' \in [Endpoints -> Recipients \cup {"none"}]
  BY <1>1, <1>4
<1>11. \A t \in Sends, v \in Recipients :
         /\ push[t][v].step # "none" => push'[t][v].step # "none"
         /\ push'[t][v].dead \subseteq push[t][v].dead \cup gone
  BY <1>2, <1>6, <1>8
<1>12. QED
  BY <1>3, <1>7, <1>9, <1>10, <1>11

\* A registration begins with the owner it reads; it writes a new one; or it leaves
\* the row as it is, having found one or finding one now.
LEMMA RegisteringFacts ==
  ASSUME NT, NEW g \in Registrations, Registering(g)
  PROVE  \E k \in RegStates :
           /\ reg' = [reg EXCEPT ![g] = k]
           /\ k.user \in Recipients /\ k.endpoint \in Endpoints
           /\ UNCHANGED <<presenceVars, note, gone, send, push, wireVars>>
           /\ \/ /\ reg[g].step = "new" /\ k.step = "commit" /\ owner' = owner
                 /\ k.found = owner[k.endpoint]
              \/ /\ reg[g].step = "commit" /\ k.step \in {"saved", "failed"}
                 /\ k.endpoint = reg[g].endpoint
                 /\ owner' = [owner EXCEPT ![k.endpoint] = k.user]
              \/ /\ reg[g].step = "commit" /\ k.step \in {"saved", "failed"} /\ owner' = owner
                 /\ k.endpoint = reg[g].endpoint
                 /\ k.step = "saved" => reg[g].found # "none"
<1>1. PICK r \in RegStates : r = reg[g]
  BY DEF NT, NotifyTypeOK
<1>2. r.step # "new" => r.user \in Recipients /\ r.endpoint \in Endpoints
  BY <1>1 DEF NT
<1>3. CASE \E u \in Recipients, e \in Endpoints : Subscribe(g, u, e)
  <2>1. PICK u \in Recipients, e \in Endpoints : Subscribe(g, u, e)
    BY <1>3
  <2> DEFINE k == [step |-> "commit", user |-> u, endpoint |-> e, found |-> owner[e]]
  <2>2. owner[e] \in Recipients \cup {"none"}
    BY DEF NT, NotifyTypeOK
  <2>3. /\ k \in RegStates /\ k.step = "commit" /\ k.user = u /\ k.endpoint = e
        /\ k.found = owner[e]
    BY <2>2 DEF RegStates
  <2>4. reg' = [reg EXCEPT ![g] = k] /\ reg[g].step = "new"
        /\ UNCHANGED <<presenceVars, note, gone, send, push, wireVars, owner>>
    BY <2>1 DEF Subscribe
  <2> HIDE DEF k
  <2>5. QED
    BY <2>3, <2>4
<1>4. CASE Save(g)
  <2>1. PICK answer \in {"saved", "failed"}, written \in BOOLEAN :
          /\ answer = "saved" => written
          /\ owner' = IF written THEN [owner EXCEPT ![r.endpoint] = r.user] ELSE owner
          /\ reg' = [reg EXCEPT ![g].step = answer]
    BY <1>1, <1>4 DEF Save
  <2> DEFINE k == [r EXCEPT !.step = answer]
  <2>2. reg' = [reg EXCEPT ![g] = k]
    BY <1>1, <2>1
  <2>3. r.step = "commit" /\ UNCHANGED <<presenceVars, note, gone, send, push, wireVars>>
    BY <1>1, <1>4 DEF Save
  <2>4. k \in RegStates /\ k.step = answer /\ k.user = r.user /\ k.endpoint = r.endpoint
    BY DEF RegStates
  <2> HIDE DEF k
  <2>5. QED
    BY <1>1, <1>2, <2>1, <2>2, <2>3, <2>4
<1>5. CASE SaveKeys(g)
  <2>1. PICK answer \in {"saved", "failed"} : reg' = [reg EXCEPT ![g].step = answer]
    BY <1>5 DEF SaveKeys
  <2>2. /\ r.step = "commit" /\ r.found = r.user /\ owner' = owner
        /\ UNCHANGED <<presenceVars, note, gone, send, push, wireVars>>
    BY <1>1, <1>5 DEF SaveKeys
  <2> DEFINE k == [r EXCEPT !.step = answer]
  <2>3. reg' = [reg EXCEPT ![g] = k]
    BY <1>1, <2>1
  <2>4. k \in RegStates /\ k.step = answer /\ k.user = r.user /\ k.endpoint = r.endpoint
    BY DEF RegStates
  <2> HIDE DEF k
  <2>5. r.found # "none"
    BY <1>2, <2>2, RecipientsAssumption
  <2>6. QED
    BY <1>1, <1>2, <2>2, <2>3, <2>4, <2>5
<1>6. QED
  BY <1>3, <1>4, <1>5 DEF Registering

\* Rows are read, and the rest stays.
LEMMA ReadingFacts ==
  ASSUME NT, NEW u \in Recipients, NEW S \in SUBSET Sends, ReadNotes(u, S)
  PROVE  /\ UNCHANGED <<presenceVars, owner, gone, send, push, reg, wireVars>>
         /\ note' \in [Sends -> [Recipients -> {"none", "unread", "read"}]]
         /\ \A t \in Sends, v \in Recipients : note'[t][v] # "none" => note[t][v] # "none"
<1>1. note \in [Sends -> [Recipients -> {"none", "unread", "read"}]]
  BY DEF NT, NotifyTypeOK
<1>2. note' \in [Sends -> [Recipients -> {"none", "unread", "read"}]]
  BY <1>1 DEF ReadNotes
<1>3. ASSUME NEW t \in Sends, NEW v \in Recipients, note'[t][v] # "none"
      PROVE  note[t][v] # "none"
  BY <1>1, <1>3 DEF ReadNotes
<1>4. QED
  BY <1>2, <1>3 DEF ReadNotes

\* Sockets and marks come and go, and the history grows.
LEMMA UsingFacts ==
  ASSUME NT, NEW u \in Recipients, Using(u)
  PROVE  /\ UNCHANGED <<note, owner, gone, send, push, reg, flying, live>>
         /\ mayMiss \subseteq mayMiss' /\ mayMiss' \subseteq Sends \X Recipients
         /\ sockets' \cup marked' \subseteq Recipients
         /\ \A s \in Sends, v \in Recipients :
              /\ (v \in sockets \ sockets' /\ <<s, v>> \in flying) => <<s, v>> \in mayMiss'
              /\ v \in marked' \ marked =>
                   /\ v \in sockets'
                   /\ (send[s].step = "check" /\ send[s].to = v /\ <<s, v>> \notin flying) =>
                        <<s, v>> \in mayMiss'
<1>1. mayMiss \cup flying \subseteq Sends \X Recipients /\ sockets \cup marked \subseteq Recipients
  BY DEF NT, NotifyTypeOK
<1>2. CASE OpenSocket(u)
  BY <1>1, <1>2 DEF OpenSocket, wireVars
<1>3. CASE SetMark(u)
  <2> DEFINE W == {x \in Sends : send[x].step = "check" /\ send[x].to = u /\ <<x, u>> \notin flying}
             P == {<<s, u>> : s \in W}
  <2>1. /\ mayMiss' = mayMiss \cup P /\ marked' = marked \cup {u} /\ u \in sockets
        /\ UNCHANGED <<sockets, note, owner, gone, send, push, reg, flying, live>>
    BY <1>3 DEF SetMark
  <2>2. P \subseteq Sends \X Recipients
    <3>1. W \subseteq Sends
      OBVIOUS
    <3> HIDE DEF W
    <3>2. \A p \in P : \E s \in Sends : p = <<s, u>>
      BY <3>1
    <3>3. QED
      BY <3>2
  <2>3. ASSUME NEW s \in Sends, send[s].step = "check", send[s].to = u, <<s, u>> \notin flying
        PROVE  <<s, u>> \in P
    <3>1. s \in W
      BY <2>3
    <3> HIDE DEF W
    <3>2. QED
      BY <3>1
  <2> HIDE DEF P, W
  <2>4. QED
    BY <1>1, <2>1, <2>2, <2>3
<1>4. CASE CloseSocket(u)
  BY <1>1, <1>4 DEF CloseSocket
<1>5. CASE LoseMark(u)
  BY <1>1, <1>5 DEF LoseMark, wireVars
<1>6. QED
  BY <1>2, <1>3, <1>4, <1>5 DEF Using

\* A publication is handed on if there is a socket; or it is lost.
LEMMA ArrivingFacts ==
  ASSUME NT, NEW s \in Sends, NEW u \in Recipients, Arriving(s, u)
  PROVE  /\ UNCHANGED <<presenceVars, note, owner, gone, send, push, reg>>
         /\ <<s, u>> \in flying /\ flying' = flying \ {<<s, u>>}
         /\ live \subseteq live' /\ live' \subseteq Sends \X Recipients
         /\ mayMiss \subseteq mayMiss' /\ mayMiss' \subseteq Sends \X Recipients
         /\ u \in sockets => <<s, u>> \in live' \cup mayMiss'
BY DEF Arriving, DeliverNote, LoseNote, NT, NotifyTypeOK

LEMMA NextTypes ==
  ASSUME NT, [NotifyNext]_notifyVars
  PROVE  NT'
<1>1. ASSUME NEW s \in Sends, Sending(s) PROVE NT'
  <2>1. PICK c \in SendStates :
          /\ send' = [send EXCEPT ![s] = c]
          /\ c.step \in {"publish", "check"} => c.to \in Recipients
          /\ c.step \in {"new", "next"} => c.to = "none"
    BY <1>1, SendingFacts
  <2>2. NotifyTypeOK'
    BY <1>1, <2>1, SendingFacts, SendingRows DEF NT, NotifyTypeOK, presenceVars
  <2>3. \A t \in Sends : /\ send'[t].step \in {"publish", "check"} => send'[t].to \in Recipients
                         /\ send'[t].step \in {"new", "next"} => send'[t].to = "none"
    BY <2>1 DEF NT, NotifyTypeOK
  <2>4. reg' = reg
    BY <1>1, SendingFacts
  <2>5. QED
    BY <2>2, <2>3, <2>4 DEF NT
<1>2. ASSUME NEW s \in Sends, NEW u \in Recipients, Pushing(s, u) PROVE NT'
  BY <1>2, PushingFacts DEF NT, NotifyTypeOK, presenceVars, wireVars
<1>3. ASSUME NEW g \in Registrations, Registering(g) PROVE NT'
  <2>1. PICK k \in RegStates :
          /\ reg' = [reg EXCEPT ![g] = k]
          /\ k.user \in Recipients /\ k.endpoint \in Endpoints
          /\ UNCHANGED <<presenceVars, note, gone, send, push, wireVars>>
          /\ owner' = owner \/ owner' = [owner EXCEPT ![k.endpoint] = k.user]
    BY <1>3, RegisteringFacts
  <2>2. NotifyTypeOK'
    BY <2>1 DEF NT, NotifyTypeOK, presenceVars, wireVars
  <2>3. \A h \in Registrations : reg'[h].step # "new" =>
          reg'[h].user \in Recipients /\ reg'[h].endpoint \in Endpoints
    BY <2>1 DEF NT, NotifyTypeOK
  <2>4. QED
    BY <2>1, <2>2, <2>3 DEF NT
<1>4. ASSUME NEW u \in Recipients, Using(u) PROVE NT'
  BY <1>4, UsingFacts DEF NT, NotifyTypeOK
<1>5. ASSUME NEW u \in Recipients, NEW S \in SUBSET Sends, ReadNotes(u, S) PROVE NT'
  BY <1>5, ReadingFacts DEF NT, NotifyTypeOK, presenceVars, wireVars
<1>6. ASSUME NEW s \in Sends, NEW u \in Recipients, Arriving(s, u) PROVE NT'
  <2>1. flying' \subseteq Sends \X Recipients
    BY <1>6, ArrivingFacts DEF NT, NotifyTypeOK
  <2>2. QED
    BY <1>6, <2>1, ArrivingFacts DEF NT, NotifyTypeOK, presenceVars
<1>7. ASSUME NEW e \in Endpoints, Unsubscribe(e) PROVE NT'
  BY <1>7 DEF Unsubscribe, NT, NotifyTypeOK, presenceVars, wireVars
<1>8. CASE UNCHANGED notifyVars
  BY <1>8 DEF notifyVars, NT, NotifyTypeOK
<1>9. QED
  BY <1>1, <1>2, <1>3, <1>4, <1>5, <1>6, <1>7, <1>8, NextSorted

LEMMA InitTypes ==
  ASSUME NotifyInit
  PROVE  NT
BY DEF NotifyInit, NT, NotifyTypeOK, SendStates, PushStates, RegStates

\* The types of the state, and who is named by a send or a registration at work.
THEOREM NotificationsInvariant ==
  NotifySpec => []NT
<1>1. NotifyInit => NT
  BY InitTypes
<1>2. NT /\ [NotifyNext]_notifyVars => NT'
  BY NextTypes
<1>3. QED
  BY <1>1, <1>2, PTL DEF NotifySpec

-----------------------------------------------------------------------------
(* Nobody is missed.  While a publication is on its way, a recipient who   *)
(* has the mark has a socket too, and so will be told; one whom it did not *)
(* reach has no mark, and so will be pushed to.                            *)

Told(s) ==
  /\ \A u \in Recipients : note[s][u] # "none" =>
       <<s, u>> \in flying \cup live \cup mayMiss \/ push[s][u].step # "none" \/ send[s].to = u
  /\ \A u \in Recipients : (send[s].step = "check" /\ send[s].to = u) =>
       \/ <<s, u>> \in live \cup mayMiss
       \/ <<s, u>> \in flying /\ (u \in marked => u \in sockets)
       \/ <<s, u>> \notin flying /\ u \notin marked
  /\ \A u \in Recipients : (<<s, u>> \in flying /\ send[s].to # u) =>
       <<s, u>> \in live \cup mayMiss \/ push[s][u].step # "none" \/ u \in sockets

AllTold == \A s \in Sends : Told(s)

LEMMA ToldSends ==
  ASSUME NT, AllTold, NEW s \in Sends, Sending(s)
  PROVE  AllTold'
<1>1. PICK c \in SendStates :
        /\ send' = [send EXCEPT ![s] = c]
        /\ c.step \in {"publish", "check"} => c.to \in Recipients
        /\ c.step = "check" => PublishNote(s)
        /\ c.to = send[s].to \/ CheckOnline(s) \/ send[s].step \in {"new", "next"}
        /\ \/ PublishNote(s) /\ c.to = send[s].to /\ send[s].step = "publish"
           \/ UNCHANGED <<flying, mayMiss>>
  BY SendingFacts
<1>2. /\ UNCHANGED <<sockets, marked, live>>
      /\ flying \subseteq flying' /\ mayMiss \subseteq mayMiss'
      /\ send \in [Sends -> SendStates] /\ send'[s] = c
      /\ push \in [Sends -> [Recipients -> PushStates]]
  BY <1>1, SendingFacts DEF NT, NotifyTypeOK, presenceVars
<1>3. \A t \in Sends, u \in Recipients :
        /\ note'[t][u] # "none" => note[t][u] # "none" \/ (t = s /\ c.to = u)
        /\ push[t][u].step # "none" => push'[t][u].step # "none"
  BY <1>2, SendingRows
<1>4. \A t \in Sends, u \in Recipients : <<t, u>> \in flying' =>
        \/ <<t, u>> \in flying
        \/ t = s /\ u = c.to /\ PublishNote(s)
  <2>1. CASE PublishNote(s) /\ c.to = send[s].to
    BY <2>1 DEF PublishNote
  <2>2. QED
    BY <1>1, <2>1
<1>5. ASSUME NEW t \in Sends \ {s} PROVE Told(t)'
  <2>1. send'[t] = send[t] /\ Told(t)
    BY <1>1, <1>2 DEF AllTold
  <2>2. \A u \in Recipients : <<t, u>> \in flying' => <<t, u>> \in flying
    BY <1>4
  <2>3. QED
    BY <1>2, <1>3, <2>1, <2>2 DEF Told
<1>6. Told(s)'
  <2>1. ASSUME NEW u \in Recipients, c.step = "check", c.to = u
        PROVE  \/ <<s, u>> \in live' \cup mayMiss'
               \/ <<s, u>> \in flying' /\ (u \in marked' => u \in sockets')
    <3>1. /\ PublishNote(s) /\ send'[s] = [send[s] EXCEPT !.step = "check"]
      BY <1>1, <1>2, <2>1 DEF PublishNote
    <3>2. send[s].to = u
      BY <1>2, <2>1, <3>1 DEF SendStates
    <3>3. QED
      BY <1>2, <3>1, <3>2 DEF PublishNote
  <2>2. ASSUME NEW u \in Recipients, send[s].to = u, c.to # u
        PROVE  /\ flying' = flying
               /\ \/ <<s, u>> \in live' \cup mayMiss'
                  \/ push'[s][u].step # "none"
                  \/ <<s, u>> \in flying' /\ u \in sockets'
    <3>1. flying' = flying
      BY <1>1, <2>2
    <3>2. CASE CheckOnline(s)
      <4>1. send[s].step = "check"
            /\ push' = IF u \notin marked THEN [push EXCEPT ![s][u].step = "started"] ELSE push
        BY <2>2, <3>2 DEF CheckOnline, NeedsPush
      <4>2. CASE u \in marked
        <5>1. <<s, u>> \in live \cup mayMiss \/ (<<s, u>> \in flying /\ u \in sockets)
          BY <2>2, <4>1, <4>2 DEF AllTold, Told
        <5>2. QED
          BY <1>2, <3>1, <5>1
      <4>3. CASE u \notin marked
        <5>1. PICK k \in PushStates : k = push[s][u]
          BY <1>2
        <5>2. push' = [push EXCEPT ![s] = [push[s] EXCEPT ![u] = [k EXCEPT !.step = "started"]]]
          BY <4>1, <4>3, <5>1
        <5>3. push'[s][u] = [k EXCEPT !.step = "started"]
          BY <1>2, <5>2
        <5>4. QED
          BY <3>1, <5>3 DEF PushStates
      <4>4. QED
        BY <3>1, <4>2, <4>3
    <3>3. CASE send[s].step \in {"new", "next"}
      <4>1. u = "none"
        BY <2>2, <3>3 DEF NT
      <4>2. QED
        BY <4>1, RecipientsAssumption
    <3>4. QED
      BY <1>1, <2>2, <3>2, <3>3
  <2>3. ASSUME NEW u \in Recipients, note'[s][u] # "none"
        PROVE  <<s, u>> \in flying' \cup live' \cup mayMiss' \/ push'[s][u].step # "none" \/ c.to = u
    BY <1>2, <1>3, <2>2, <2>3 DEF AllTold, Told
  <2>4. ASSUME NEW u \in Recipients, <<s, u>> \in flying', c.to # u
        PROVE  <<s, u>> \in live' \cup mayMiss' \/ push'[s][u].step # "none" \/ u \in sockets'
    BY <1>2, <1>3, <1>4, <2>2, <2>4 DEF AllTold, Told
  <2>5. QED
    BY <1>2, <2>1, <2>3, <2>4 DEF Told
<1>7. QED
  BY <1>5, <1>6 DEF AllTold

LEMMA ToldArrives ==
  ASSUME NT, AllTold, NEW s \in Sends, NEW u \in Recipients, Arriving(s, u)
  PROVE  AllTold'
<1>1. /\ UNCHANGED <<sockets, marked, note, send, push>>
      /\ <<s, u>> \in flying /\ flying' = flying \ {<<s, u>>}
      /\ live \subseteq live' /\ mayMiss \subseteq mayMiss'
      /\ u \in sockets => <<s, u>> \in live' \cup mayMiss'
  BY ArrivingFacts DEF presenceVars
<1>2. ASSUME NEW t \in Sends, NEW v \in Recipients, t # s \/ v # u
      PROVE  <<t, v>> \in flying' <=> <<t, v>> \in flying
  BY <1>1, <1>2
<1>3. <<s, u>> \notin flying'
  BY <1>1
<1>4. ASSUME NEW t \in Sends PROVE Told(t)'
  <2>1. Told(t)
    BY DEF AllTold
  <2>2. ASSUME NEW v \in Recipients, note[t][v] # "none"
        PROVE  \/ <<t, v>> \in flying' \cup live' \cup mayMiss'
               \/ push[t][v].step # "none" \/ send[t].to = v
    BY <1>1, <1>2, <2>1, <2>2 DEF Told
  <2>3. ASSUME NEW v \in Recipients, send[t].step = "check", send[t].to = v
        PROVE  \/ <<t, v>> \in live' \cup mayMiss'
               \/ <<t, v>> \in flying' /\ (v \in marked => v \in sockets)
               \/ <<t, v>> \notin flying' /\ v \notin marked
    BY <1>1, <1>2, <1>3, <2>1, <2>3 DEF Told
  <2>4. ASSUME NEW v \in Recipients, <<t, v>> \in flying', send[t].to # v
        PROVE  <<t, v>> \in live' \cup mayMiss' \/ push[t][v].step # "none" \/ v \in sockets
    BY <1>1, <2>1, <2>4 DEF Told
  <2>5. QED
    BY <1>1, <2>2, <2>3, <2>4 DEF Told
<1>5. QED
  BY <1>4 DEF AllTold

LEMMA ToldUses ==
  ASSUME NT, AllTold, NEW u \in Recipients, Using(u)
  PROVE  AllTold'
<1>1. /\ UNCHANGED <<note, send, push, flying, live>> /\ mayMiss \subseteq mayMiss'
      /\ \A s \in Sends, v \in Recipients :
           /\ (v \in sockets \ sockets' /\ <<s, v>> \in flying) => <<s, v>> \in mayMiss'
           /\ v \in marked' \ marked =>
                /\ v \in sockets'
                /\ (send[s].step = "check" /\ send[s].to = v /\ <<s, v>> \notin flying) =>
                     <<s, v>> \in mayMiss'
  BY UsingFacts
<1>2. ASSUME NEW s \in Sends PROVE Told(s)'
  <2>1. Told(s)
    BY DEF AllTold
  <2>2. ASSUME NEW v \in Recipients, send[s].step = "check", send[s].to = v
        PROVE  \/ <<s, v>> \in live \cup mayMiss'
               \/ <<s, v>> \in flying /\ (v \in marked' => v \in sockets')
               \/ <<s, v>> \notin flying /\ v \notin marked'
    BY <1>1, <2>1, <2>2 DEF Told
  <2>3. ASSUME NEW v \in Recipients, <<s, v>> \in flying, send[s].to # v
        PROVE  <<s, v>> \in live \cup mayMiss' \/ push[s][v].step # "none" \/ v \in sockets'
    BY <1>1, <2>1, <2>3 DEF Told
  <2>4. QED
    BY <1>1, <2>1, <2>2, <2>3 DEF Told
<1>3. QED
  BY <1>2 DEF AllTold

LEMMA ToldStays ==
  ASSUME NT, AllTold, [NotifyNext]_notifyVars
  PROVE  AllTold'
<1>1. ASSUME UNCHANGED <<presenceVars, send, wireVars>>,
             \A t \in Sends, v \in Recipients :
               /\ note'[t][v] # "none" => note[t][v] # "none"
               /\ push[t][v].step # "none" => push'[t][v].step # "none"
      PROVE  AllTold'
  BY <1>1 DEF AllTold, Told, presenceVars, wireVars
<1>2. ASSUME NEW s \in Sends, Sending(s) PROVE AllTold'
  BY <1>2, ToldSends
<1>3. ASSUME NEW s \in Sends, NEW u \in Recipients, Pushing(s, u) PROVE AllTold'
  BY <1>1, <1>3, PushingFacts
<1>4. ASSUME NEW g \in Registrations, Registering(g) PROVE AllTold'
  <2>1. UNCHANGED <<presenceVars, note, send, push, wireVars>>
    BY <1>4, RegisteringFacts
  <2>2. QED
    BY <1>1, <2>1
<1>5. ASSUME NEW s \in Sends, NEW u \in Recipients, Arriving(s, u) PROVE AllTold'
  BY <1>5, ToldArrives
<1>6. ASSUME NEW u \in Recipients, Using(u) PROVE AllTold'
  BY <1>6, ToldUses
<1>7. ASSUME NEW u \in Recipients, NEW S \in SUBSET Sends, ReadNotes(u, S) PROVE AllTold'
  BY <1>1, <1>7, ReadingFacts
<1>8. ASSUME NEW e \in Endpoints, Unsubscribe(e) PROVE AllTold'
  BY <1>1, <1>8 DEF Unsubscribe
<1>9. CASE UNCHANGED notifyVars
  BY <1>1, <1>9 DEF notifyVars, presenceVars, wireVars
<1>10. QED
  BY <1>2, <1>3, <1>4, <1>5, <1>6, <1>7, <1>8, <1>9, NextSorted

\* Whoever has a stored notification has been told live or pushed to, or will be told, or
\* is the one at hand; or his mark and his socket did not agree, as mayMiss says.
THEOREM EverybodyIsTold ==
  NotifySpec => []NobodyIsMissed
<1>1. NotifyInit => AllTold
  BY DEF NotifyInit, AllTold, Told
<1>2. NT /\ AllTold /\ [NotifyNext]_notifyVars => AllTold'
  BY ToldStays
<1>3. AllTold => NobodyIsMissed
  BY DEF AllTold, Told, NobodyIsMissed
<1>4. QED
  BY <1>1, <1>2, <1>3, NotificationsInvariant, PTL DEF NotifySpec

-----------------------------------------------------------------------------
(* Subscriptions.  A row is deleted only for an endpoint that is gone, so  *)
(* the row of one that is not is there from its first insertion on.        *)

\* A registration answered with success, or one that has found a row.
HasRow(g) ==
  \/ reg[g].step = "saved"
  \/ reg[g].step = "commit" /\ reg[g].found # "none"

SavedFor(e) ==
  \E h \in Registrations : /\ reg[h].endpoint = e /\ reg[h].step \in {"saved", "failed"}
                           /\ owner[e] = reg[h].user

Kept ==
  /\ \A s \in Sends, u \in Recipients : push[s][u].dead \subseteq gone
  /\ \A e \in Endpoints : owner[e] # "none" => SavedFor(e)
  /\ \A g \in Registrations : HasRow(g) =>
       reg[g].endpoint \in gone \/ owner[reg[g].endpoint] # "none"

LEMMA KeptPushes ==
  ASSUME NT, Kept, NEW s \in Sends, NEW u \in Recipients, Pushing(s, u)
  PROVE  Kept'
<1>1. /\ UNCHANGED <<gone, reg>>
      /\ \A t \in Sends, v \in Recipients : push'[t][v].dead \subseteq push[t][v].dead \cup gone
      /\ \A e \in Endpoints :
           owner'[e] = owner[e] \/ (owner'[e] = "none" /\ e \in push[s][u].dead)
  BY PushingFacts
<1>2. \A t \in Sends, v \in Recipients : push'[t][v].dead \subseteq gone
  BY <1>1 DEF Kept
<1>3. \A e \in Endpoints : owner'[e] = owner[e] \/ (owner'[e] = "none" /\ e \in gone)
  BY <1>1 DEF Kept
<1>4. \A e \in Endpoints : owner'[e] # "none" => SavedFor(e)'
  BY <1>1, <1>3 DEF Kept, SavedFor
<1>5. ASSUME NEW g \in Registrations, HasRow(g)'
      PROVE  reg[g].endpoint \in gone \/ owner'[reg[g].endpoint] # "none"
  <2>1. HasRow(g) /\ reg[g].endpoint \in Endpoints
    BY <1>1, <1>5 DEF HasRow, NT
  <2>2. QED
    BY <1>3, <2>1 DEF Kept
<1>6. QED
  BY <1>1, <1>2, <1>4, <1>5 DEF Kept

LEMMA KeptRegisters ==
  ASSUME NT, Kept, NEW g \in Registrations, Registering(g)
  PROVE  Kept'
<1>1. PICK k \in RegStates :
        /\ reg' = [reg EXCEPT ![g] = k]
        /\ k.user \in Recipients /\ k.endpoint \in Endpoints
        /\ UNCHANGED <<gone, push>>
        /\ \/ /\ reg[g].step = "new" /\ k.step = "commit" /\ owner' = owner
              /\ k.found = owner[k.endpoint]
           \/ /\ reg[g].step = "commit" /\ k.step \in {"saved", "failed"}
              /\ k.endpoint = reg[g].endpoint
              /\ owner' = [owner EXCEPT ![k.endpoint] = k.user]
           \/ /\ reg[g].step = "commit" /\ k.step \in {"saved", "failed"} /\ owner' = owner
              /\ k.endpoint = reg[g].endpoint
              /\ k.step = "saved" => reg[g].found # "none"
  BY RegisteringFacts
<1>2. /\ reg \in [Registrations -> RegStates] /\ owner \in [Endpoints -> Recipients \cup {"none"}]
      /\ reg'[g] = k /\ \A h \in Registrations \ {g} : reg'[h] = reg[h]
  BY <1>1 DEF NT, NotifyTypeOK
<1>3. \A e \in Endpoints :
        owner'[e] = owner[e] \/ (e = k.endpoint /\ k.step \in {"saved", "failed"} /\ owner'[e] = k.user)
  BY <1>1, <1>2
<1>4. ASSUME NEW e \in Endpoints, owner'[e] # "none" PROVE SavedFor(e)'
  <2>1. CASE e = k.endpoint /\ k.step \in {"saved", "failed"} /\ owner'[e] = k.user
    BY <1>2, <2>1 DEF SavedFor
  <2>2. CASE owner'[e] = owner[e]
    <3>1. PICK h \in Registrations : /\ reg[h].endpoint = e
                                     /\ reg[h].step \in {"saved", "failed"}
                                     /\ owner[e] = reg[h].user
      BY <1>4, <2>2 DEF Kept, SavedFor
    <3>2. h # g
      BY <1>1, <3>1
    <3>3. QED
      BY <1>2, <2>2, <3>1, <3>2 DEF SavedFor
  <2>3. QED
    BY <1>3, <2>1, <2>2
<1>5. \A e \in Endpoints : owner[e] # "none" => owner'[e] # "none"
  BY <1>1, <1>3, RecipientsAssumption
<1>6. ASSUME NEW h \in Registrations, HasRow(h)'
      PROVE  reg'[h].endpoint \in gone \/ owner'[reg'[h].endpoint] # "none"
  <2>1. CASE h # g
    <3>1. HasRow(h) /\ reg'[h] = reg[h] /\ reg[h].endpoint \in Endpoints
      BY <1>2, <1>6, <2>1 DEF HasRow, NT
    <3>2. QED
      BY <1>5, <3>1 DEF Kept
  <2>2. CASE h = g /\ k.step = "commit"
    BY <1>1, <1>2, <1>6, <2>2 DEF HasRow
  <2>3. CASE h = g /\ owner' = [owner EXCEPT ![k.endpoint] = k.user]
    BY <1>1, <1>2, <2>3, RecipientsAssumption
  <2>4. CASE /\ h = g /\ reg[g].step = "commit" /\ owner' = owner
             /\ k.endpoint = reg[g].endpoint /\ k.step \in {"saved", "failed"}
             /\ k.step = "saved" => reg[g].found # "none"
    BY <1>2, <1>6, <2>4 DEF HasRow, Kept
  <2>5. QED
    BY <1>1, <2>1, <2>2, <2>3, <2>4
<1>7. QED
  BY <1>1, <1>4, <1>6 DEF Kept

LEMMA KeptStays ==
  ASSUME NT, Kept, [NotifyNext]_notifyVars
  PROVE  Kept'
<1>1. ASSUME owner' = owner, reg' = reg, gone \subseteq gone',
             \A t \in Sends, v \in Recipients : push'[t][v].dead = push[t][v].dead
      PROVE  Kept'
  BY <1>1 DEF Kept, HasRow, SavedFor
<1>2. ASSUME NEW s \in Sends, Sending(s) PROVE Kept'
  BY <1>1, <1>2, SendingFacts, SendingRows
<1>3. ASSUME NEW s \in Sends, NEW u \in Recipients, Pushing(s, u) PROVE Kept'
  BY <1>3, KeptPushes
<1>4. ASSUME NEW g \in Registrations, Registering(g) PROVE Kept'
  BY <1>4, KeptRegisters
<1>5. ASSUME NEW u \in Recipients, Using(u) PROVE Kept'
  BY <1>1, <1>5, UsingFacts
<1>6. ASSUME NEW s \in Sends, NEW u \in Recipients, Arriving(s, u) PROVE Kept'
  BY <1>1, <1>6, ArrivingFacts
<1>7. ASSUME NEW u \in Recipients, NEW S \in SUBSET Sends, ReadNotes(u, S) PROVE Kept'
  BY <1>1, <1>7, ReadingFacts
<1>8. ASSUME NEW e \in Endpoints, Unsubscribe(e) PROVE Kept'
  BY <1>1, <1>8 DEF Unsubscribe
<1>9. CASE UNCHANGED notifyVars
  BY <1>1, <1>9 DEF notifyVars
<1>10. QED
  BY <1>2, <1>3, <1>4, <1>5, <1>6, <1>7, <1>8, <1>9, NextSorted

\* A browser whose registration was answered has its row, owned by a user for whom it
\* was subscribed, until it gives the subscription up; pushes on their way, and other
\* users of the browser, do not take it away.
THEOREM SubscriptionsAreKept ==
  NotifySpec => []SubscribedIsReachable
<1>1. NotifyInit => Kept
  BY DEF NotifyInit, Kept, HasRow
<1>2. NT /\ Kept /\ [NotifyNext]_notifyVars => Kept'
  BY KeptStays
<1>3. NT /\ Kept => SubscribedIsReachable
  <2> SUFFICES ASSUME NT, Kept, NEW g \in Registrations, reg[g].step = "saved",
                      reg[g].endpoint \notin gone
               PROVE  SavedFor(reg[g].endpoint)
    BY DEF SubscribedIsReachable, SavedFor
  <2>1. reg[g].endpoint \in Endpoints
    BY DEF NT
  <2>2. QED
    BY <2>1 DEF Kept, HasRow
<1>4. QED
  BY <1>1, <1>2, <1>3, NotificationsInvariant, PTL DEF NotifySpec

-----------------------------------------------------------------------------
(* The media store.                                                        *)

Holders == Letters \cup Avatars

\* An object two rows refer to has been reused, and only live messages refer.
RowsInv ==
  /\ \A h \in Holders : media[h] # "none" => media[h] \in used
  /\ \A h, k \in Holders : h # k /\ media[h] = media[k] /\ media[h] # "none" => media[h] \in reused
  /\ \A m \in Letters : media[m] # "none" => letter[m] = "live"
  /\ uploaded \ bucket \subseteq used

\* The rows a request is about to turn away from what it has read.
Own(j) ==
  IF job[j].op = "clear" THEN Letters
  ELSE IF job[j].step = "cleanup" THEN {} ELSE job[j].rows

\* What a request erases, any other row refers to by a reuse only; and what it has
\* erased is gone for good, or the storage failed.
JobInv(j) ==
  /\ job[j].list \cup job[j].erased \subseteq used
  /\ \A o \in job[j].list \cup job[j].erased, h \in Holders \ Own(j) : media[h] = o => o \in reused
  /\ job[j].erased \cap bucket \subseteq leaked
  /\ job[j].new \in uploaded \cup {"none"}

\* The shape of a request in each of its steps.
JobShape(j) ==
  /\ job[j].step \in {"new", "done"} => job[j].list = {} /\ job[j].erased = {}
  /\ job[j].step = "erase" => job[j].op \in {"delete", "clear"}
  /\ job[j].op = "delete" => job[j].rows \subseteq Letters
  /\ job[j].step \in {"commit", "refresh", "cleanup"} =>
       /\ job[j].op = "avatar" /\ job[j].erased = {}
       /\ \E a \in Avatars : job[j].rows = {a}
       /\ \A o, p \in job[j].list : o = p

RefersToThere(h) ==
  \/ media[h] \in bucket \cup {"none"}
  \/ media[h] \in reused \cup undone
  \/ \E j \in Jobs : media[h] \in job[j].erased

\* Only a request that has already replaced the avatar answers for the old one.
Answers(j) == job[j].step \in {"refresh", "cleanup"}

NothingForgotten ==
  \A o \in (used \cap bucket) \ MediaOf(Holders) :
    o \in leaked \/ \E j \in Jobs : o \in job[j].list /\ Answers(j)

MediaInv ==
  /\ MediaTypeOK
  /\ RowsInv
  /\ \A j \in Jobs : JobInv(j) /\ JobShape(j)
  /\ \A h \in Holders : RefersToThere(h)
  /\ NothingForgotten

-----------------------------------------------------------------------------

LEMMA InitMedia == MediaInit => MediaInv
<1> SUFFICES ASSUME MediaInit PROVE MediaInv
  OBVIOUS
<1> USE DEF MediaInit
<1>1. NewJob \in JobStates
  BY DEF NewJob, JobStates
<1>2. MediaTypeOK
  BY <1>1 DEF MediaTypeOK
<1>3. RowsInv
  BY DEF RowsInv, Holders
<1>4. \A j \in Jobs : JobInv(j) /\ JobShape(j)
  BY DEF JobInv, JobShape, NewJob
<1>5. (\A h \in Holders : RefersToThere(h)) /\ NothingForgotten
  BY DEF RefersToThere, NothingForgotten, Holders
<1>6. QED
  BY <1>2, <1>3, <1>4, <1>5 DEF MediaInv

\* Types, in the form in which the proofs need them.
LEMMA Typed ==
  ASSUME MediaInv
  PROVE  /\ "none" \notin Objects /\ Letters \cap Avatars = {}
         /\ media \in [Holders -> Objects \cup {"none"}] /\ job \in [Jobs -> JobStates]
         /\ letter \in [Letters -> {"absent", "live", "deleted", "cleared"}]
         /\ bucket \subseteq uploaded /\ used \subseteq uploaded /\ uploaded \subseteq Objects
         /\ reused \subseteq used /\ undone \subseteq used /\ leaked \subseteq used
BY MediaAssumption DEF MediaInv, MediaTypeOK, Holders

\* What every step does to the rows and the bucket: what a row newly refers to is
\* either new or has been reused, and what comes into the bucket is new.
Moves ==
  /\ used \subseteq used' /\ reused \subseteq reused' /\ uploaded \subseteq uploaded'
  /\ undone \subseteq undone' /\ leaked \subseteq leaked'
  /\ (bucket' \ bucket) \cap used = {}
  /\ \A h \in Holders : media'[h] \in {media[h], "none"} \/ media'[h] \notin used
                          \/ media'[h] \in reused'

LEMMA OthersKeep ==
  ASSUME MediaInv, Moves, NEW j \in Jobs, job'[j] = job[j]
  PROVE  JobInv(j)' /\ JobShape(j)'
<1>1. /\ JobInv(j) /\ JobShape(j) /\ "none" \notin used
  BY Typed DEF MediaInv
<1>2. JobShape(j)'
  BY <1>1 DEF JobShape
<1>3. Own(j)' = Own(j)
  BY DEF Own
<1>4. \A o \in job[j].list \cup job[j].erased, h \in Holders \ Own(j) :
        media'[h] = o => o \in reused'
  BY <1>1 DEF JobInv, Moves
<1>5. JobInv(j)'
  BY <1>1, <1>3, <1>4 DEF JobInv, Moves
<1>6. QED
  BY <1>2, <1>5

LEMMA ConcludeKeeps ==
  ASSUME MediaInv, NEW j \in Jobs, Conclude(j)
  PROVE  /\ job' \in [Jobs -> JobStates]
         /\ job'[j].erased = {} /\ ~Answers(j)' /\ \A k \in Jobs \ {j} : job'[k] = job[k]
         /\ JobInv(j)' /\ JobShape(j)'
<1>1. job \in [Jobs -> JobStates] /\ [NewJob EXCEPT !.step = "done"] \in JobStates
  BY Typed DEF NewJob, JobStates
<1>2. job'[j] = [NewJob EXCEPT !.step = "done"]
  BY <1>1 DEF Conclude
<1>3. job'[j].step = "done" /\ job'[j].list = {} /\ job'[j].erased = {} /\ job'[j].op = "none"
      /\ job'[j].new = "none"
  BY <1>2 DEF NewJob
<1>4. JobInv(j)' /\ JobShape(j)' /\ ~Answers(j)'
  BY <1>3 DEF JobInv, JobShape, Answers
<1>5. QED
  BY <1>1, <1>3, <1>4 DEF Conclude

\* A step of request j keeps the invariant if it keeps the rest of it.
LEMMA OfOneJob ==
  ASSUME MediaInv, MediaTypeOK', RowsInv', Moves, NEW j \in Jobs,
         \A k \in Jobs \ {j} : job'[k] = job[k],
         JobInv(j)', JobShape(j)',
         \A h \in Holders : RefersToThere(h)', NothingForgotten'
  PROVE  MediaInv'
BY OthersKeep DEF MediaInv

-----------------------------------------------------------------------------
(* Reading: the rows stay as they are.                                     *)

StoreVars == <<bucket, media, letter, uploaded, used, reused, undone, leaked>>

LEMMA SameStore ==
  ASSUME MediaInv, UNCHANGED StoreVars, job' \in [Jobs -> JobStates]
  PROVE  MediaTypeOK' /\ RowsInv' /\ Moves
BY DEF StoreVars, MediaInv, MediaTypeOK, RowsInv, Moves, Holders

LEMMA Reading ==
  ASSUME MediaInv, UNCHANGED StoreVars, NEW j \in Jobs, job[j].step = "new",
         job' = [job EXCEPT ![j] = job'[j]], job'[j] \in JobStates,
         JobInv(j)', JobShape(j)'
  PROVE  MediaInv'
<1>1. job \in [Jobs -> JobStates] /\ job' \in [Jobs -> JobStates]
      /\ \A k \in Jobs \ {j} : job'[k] = job[k]
  BY Typed
<1>2. job[j].erased = {} /\ ~Answers(j)
  BY DEF MediaInv, JobShape, Answers
<1>3. ASSUME NEW h \in Holders PROVE RefersToThere(h)'
  <2>1. RefersToThere(h)
    BY DEF MediaInv
  <2>2. QED
    BY <1>1, <1>2, <2>1 DEF RefersToThere, StoreVars
<1>4. NothingForgotten'
  BY <1>1, <1>2 DEF MediaInv, NothingForgotten, StoreVars, MediaOf, Answers
<1>5. QED
  BY <1>1, <1>3, <1>4, SameStore, OfOneJob

\* What two rows refer to has been reused.
LEMMA ReadOwn ==
  ASSUME MediaInv, NEW R \in SUBSET Holders, NEW h \in Holders \ R, media[h] \in MediaOf(R)
  PROVE  media[h] \in reused
BY DEF MediaInv, RowsInv, MediaOf

LEMMA ReadUsed ==
  ASSUME MediaInv, NEW R \in SUBSET Holders
  PROVE  MediaOf(R) \subseteq used /\ MediaOf(R) \subseteq Objects
BY Typed DEF MediaInv, RowsInv, MediaOf

LEMMA ReadDeleteKeeps ==
  ASSUME MediaInv, NEW j \in Jobs, NEW M, ReadDelete(j, M)
  PROVE  MediaInv'
<1> DEFINE new == [NewJob EXCEPT !.op = "delete", !.step = "erase", !.rows = M, !.list = MediaOf(M)]
<1>1. /\ job[j].step = "new" /\ job' = [job EXCEPT ![j] = new] /\ UNCHANGED StoreVars
      /\ M \subseteq Letters /\ M \subseteq Holders
  BY DEF ReadDelete, StoreVars, Live, Holders
<1>2. MediaOf(M) \subseteq used /\ MediaOf(M) \subseteq Objects
  BY <1>1, ReadUsed
<1>3. new \in JobStates
  BY <1>1, <1>2 DEF NewJob, JobStates, Holders
<1>4. job'[j] = new
  BY <1>1, Typed
<1>5. /\ job'[j].op = "delete" /\ job'[j].step = "erase" /\ job'[j].rows = M
      /\ job'[j].list = MediaOf(M) /\ job'[j].erased = {} /\ job'[j].new = "none"
  BY <1>4 DEF NewJob
<1>6. JobShape(j)'
  BY <1>1, <1>5 DEF JobShape
<1>7. JobInv(j)'
  BY <1>1, <1>2, <1>5, ReadOwn DEF JobInv, Own, StoreVars
<1>8. QED
  BY <1>1, <1>3, <1>4, <1>6, <1>7, Reading

LEMMA ReadClearKeeps ==
  ASSUME MediaInv, NEW j \in Jobs, ReadClear(j)
  PROVE  MediaInv'
<1> DEFINE new == [NewJob EXCEPT !.op = "clear", !.step = "erase", !.list = MediaOf(Letters)]
<1>1. /\ job[j].step = "new" /\ job' = [job EXCEPT ![j] = new] /\ UNCHANGED StoreVars
      /\ Letters \subseteq Holders
  BY DEF ReadClear, StoreVars, Holders
<1>2. MediaOf(Letters) \subseteq used /\ MediaOf(Letters) \subseteq Objects
  BY <1>1, ReadUsed
<1>3. new \in JobStates
  BY <1>2 DEF NewJob, JobStates
<1>4. job'[j] = new
  BY <1>1, Typed
<1>5. /\ job'[j].op = "clear" /\ job'[j].step = "erase"
      /\ job'[j].list = MediaOf(Letters) /\ job'[j].erased = {} /\ job'[j].new = "none"
  BY <1>4 DEF NewJob
<1>6. JobShape(j)'
  BY <1>5 DEF JobShape
<1>7. JobInv(j)'
  BY <1>1, <1>2, <1>5, ReadOwn DEF JobInv, Own, StoreVars
<1>8. QED
  BY <1>1, <1>3, <1>4, <1>6, <1>7, Reading

LEMMA ReadAvatarKeeps ==
  ASSUME MediaInv, NEW j \in Jobs, NEW a \in Avatars, NEW o \in Objects \cup {"none"},
         ReadAvatar(j, a, o)
  PROVE  MediaInv'
<1> DEFINE new == [NewJob EXCEPT !.op = "avatar", !.step = "commit", !.rows = {a},
                                 !.list = MediaOf({a}), !.new = o]
<1>1. /\ job[j].step = "new" /\ job' = [job EXCEPT ![j] = new] /\ UNCHANGED StoreVars
      /\ {a} \subseteq Holders /\ o \in uploaded \cup {"none"}
  BY DEF ReadAvatar, StoreVars, Holders
<1>2. MediaOf({a}) \subseteq used /\ MediaOf({a}) \subseteq Objects
  BY <1>1, ReadUsed
<1>3. new \in JobStates
  BY <1>1, <1>2 DEF NewJob, JobStates, Holders
<1>4. job'[j] = new
  BY <1>1, Typed
<1>5. /\ job'[j].op = "avatar" /\ job'[j].step = "commit" /\ job'[j].rows = {a}
      /\ job'[j].list = MediaOf({a}) /\ job'[j].erased = {} /\ job'[j].new = o
  BY <1>4 DEF NewJob
<1>6. JobShape(j)'
  BY <1>5 DEF JobShape, MediaOf
<1>7. JobInv(j)'
  BY <1>1, <1>2, <1>5, ReadOwn DEF JobInv, Own, StoreVars
<1>8. QED
  BY <1>1, <1>3, <1>4, <1>6, <1>7, Reading

-----------------------------------------------------------------------------
(* Uploads and posts: no request moves.                                    *)

LEMMA OfNoJob ==
  ASSUME MediaInv, MediaTypeOK', RowsInv', Moves, job' = job,
         \A h \in Holders : RefersToThere(h)', NothingForgotten'
  PROVE  MediaInv'
BY OthersKeep DEF MediaInv

LEMMA UploadKeeps ==
  ASSUME MediaInv, NEW o \in Objects, Upload(o)
  PROVE  MediaInv'
<1>1. /\ o \notin uploaded /\ bucket' = bucket \cup {o} /\ uploaded' = uploaded \cup {o}
      /\ UNCHANGED <<media, letter, job, used, reused, undone, leaked>>
  BY DEF Upload
<1>2. MediaTypeOK' /\ RowsInv' /\ Moves
  BY <1>1, Typed DEF MediaInv, MediaTypeOK, RowsInv, Moves
<1>3. \A h \in Holders : RefersToThere(h)'
  BY <1>1 DEF MediaInv, RefersToThere
<1>4. NothingForgotten'
  BY <1>1, Typed DEF MediaInv, NothingForgotten, MediaOf, Answers
<1>5. QED
  BY <1>1, <1>2, <1>3, <1>4, OfNoJob

LEMMA PostKeeps ==
  ASSUME MediaInv, NEW m \in Letters, NEW o \in Objects, Post(m, o)
  PROVE  MediaInv'
<1>1. /\ letter[m] = "absent" /\ o \in uploaded
      /\ letter' = [letter EXCEPT ![m] = "live"] /\ media' = [media EXCEPT ![m] = o]
      /\ used' = used \cup {o} /\ reused' = reused \cup ({o} \cap used)
      /\ UNCHANGED <<bucket, job, uploaded, undone, leaked>>
  BY DEF Post, Use
<1>2. m \in Holders /\ media'[m] = o /\ letter'[m] = "live"
      /\ (\A h \in Holders \ {m} : media'[h] = media[h])
      /\ (\A n \in Letters \ {m} : letter'[n] = letter[n])
  BY <1>1, Typed DEF Holders
<1>3. MediaTypeOK'
  BY <1>1, <1>2, Typed DEF MediaInv, MediaTypeOK
<1>4. RowsInv'
  <2>1. \A h, k \in Holders :
          h # k /\ media'[h] = media'[k] /\ media'[h] # "none" => media'[h] \in reused'
    BY <1>1, <1>2 DEF MediaInv, RowsInv
  <2>2. QED
    BY <1>1, <1>2, <2>1 DEF MediaInv, RowsInv, Holders
<1>5. Moves
  BY <1>1, <1>2 DEF Moves
<1>6. ASSUME NEW h \in Holders PROVE RefersToThere(h)'
  <2>1. CASE h = m
    BY <1>1, <1>2, <2>1 DEF MediaInv, RowsInv, RefersToThere
  <2>2. CASE h # m
    BY <1>1, <1>2, <2>2 DEF MediaInv, RefersToThere
  <2>3. QED
    BY <2>1, <2>2
<1>7. NothingForgotten'
  <2>1. media[m] = "none"
    BY <1>1 DEF MediaInv, RowsInv
  <2>2. MediaOf(Holders)' = MediaOf(Holders) \cup {o}
    BY <1>1, <1>2, <2>1, Typed DEF MediaOf
  <2>3. QED
    BY <1>1, <2>2 DEF MediaInv, NothingForgotten, Answers
<1>8. QED
  BY <1>1, <1>3, <1>4, <1>5, <1>6, <1>7, OfNoJob

-----------------------------------------------------------------------------
(* Deletions.                                                              *)

LEMMA EraseKeeps ==
  ASSUME MediaInv, NEW j \in Jobs, Erase(j)
  PROVE  MediaInv'
<1>1. PICK o \in job[j].list :
        /\ \/ bucket' = bucket \ {o} /\ UNCHANGED leaked
           \/ o \in bucket /\ leaked' = leaked \cup {o} /\ UNCHANGED bucket
        /\ job' = [job EXCEPT ![j].list = @ \ {o}, ![j].erased = @ \cup {o}]
  BY DEF Erase
<1>2. /\ job[j].step = "erase"
      /\ UNCHANGED <<media, letter, uploaded, used, reused, undone>>
  BY DEF Erase
<1>3. /\ JobInv(j) /\ JobShape(j) /\ o \in used /\ o \in Objects
      /\ job[j] \in JobStates
  BY <1>1, Typed DEF MediaInv, JobInv
<1>4. /\ job'[j] = [job[j] EXCEPT !.list = @ \ {o}, !.erased = @ \cup {o}]
      /\ \A k \in Jobs \ {j} : job'[k] = job[k]
  BY <1>1, Typed
<1>5. /\ job'[j].list = job[j].list \ {o} /\ job'[j].erased = job[j].erased \cup {o}
      /\ job'[j].step = "erase" /\ job'[j].op = job[j].op /\ job'[j].rows = job[j].rows
      /\ job'[j] \in JobStates /\ job'[j].new = job[j].new
  <2>1. PICK c \in JobStates : c = job[j]
    BY <1>3
  <2>2. job'[j] = [c EXCEPT !.list = @ \ {o}, !.erased = @ \cup {o}]
    BY <1>4, <2>1
  <2>3. c.list \ {o} \in SUBSET Objects /\ c.erased \cup {o} \in SUBSET Objects
    BY <1>3 DEF JobStates
  <2>4. QED
    BY <1>2, <2>1, <2>2, <2>3 DEF JobStates
<1>6. job' \in [Jobs -> JobStates]
  BY <1>1, <1>5, Typed
<1>7. MediaTypeOK' /\ RowsInv' /\ Moves
  BY <1>1, <1>2, <1>3, <1>6, Typed DEF MediaInv, MediaTypeOK, RowsInv, Moves
<1>8. JobShape(j)'
  BY <1>2, <1>3, <1>5 DEF JobShape
<1>9. JobInv(j)'
  <2>1. Own(j)' = Own(j)
    BY <1>2, <1>5 DEF Own
  <2>2. QED
    BY <1>1, <1>2, <1>3, <1>5, <2>1 DEF JobInv
<1>10. ASSUME NEW h \in Holders PROVE RefersToThere(h)'
  <2>1. RefersToThere(h)
    BY DEF MediaInv
  <2>2. \A k \in Jobs : job[k].erased \subseteq job'[k].erased
    BY <1>4, <1>5
  <2>3. bucket \subseteq bucket' \cup {o} /\ o \in job'[j].erased
    BY <1>1, <1>5
  <2>4. QED
    BY <1>2, <2>1, <2>2, <2>3 DEF RefersToThere
<1>11. NothingForgotten'
  <2>1. \A k \in Jobs : Answers(k) => job'[k] = job[k]
    BY <1>2, <1>4 DEF Answers
  <2>2. QED
    BY <1>1, <1>2, <2>1 DEF MediaInv, NothingForgotten, MediaOf, Answers
<1>12. QED
  BY <1>4, <1>7, <1>8, <1>9, <1>10, <1>11, OfOneJob

\* What an ended request answered for, or had erased, is seen to.
LEMMA UndoKeeps ==
  ASSUME MediaInv, NEW j \in Jobs, UndoDeletion(j)
  PROVE  MediaInv'
<1>1. /\ job[j].step = "erase" /\ undone' = undone \cup job[j].erased /\ Conclude(j)
      /\ UNCHANGED <<bucket, media, letter, uploaded, used, reused, leaked>>
  BY DEF UndoDeletion
<1>2. /\ job' \in [Jobs -> JobStates] /\ JobInv(j)' /\ JobShape(j)'
      /\ \A k \in Jobs \ {j} : job'[k] = job[k]
  BY <1>1, ConcludeKeeps
<1>3. JobInv(j)
  BY DEF MediaInv
<1>4. MediaTypeOK' /\ RowsInv' /\ Moves
  BY <1>1, <1>2, <1>3, Typed DEF MediaInv, MediaTypeOK, RowsInv, Moves, JobInv
<1>5. ASSUME NEW h \in Holders PROVE RefersToThere(h)'
  <2>1. RefersToThere(h)
    BY DEF MediaInv
  <2>2. QED
    BY <1>1, <1>2, <2>1 DEF RefersToThere
<1>6. NothingForgotten'
  BY <1>1, <1>2 DEF MediaInv, NothingForgotten, MediaOf, Answers
<1>7. QED
  BY <1>2, <1>4, <1>5, <1>6, OfOneJob

LEMMA CommitDeletionKeeps ==
  ASSUME MediaInv, NEW j \in Jobs, CommitDeletion(j)
  PROVE  MediaInv'
<1> DEFINE there == {m \in Letters : letter[m] \in {"live", "deleted"}}
           rows == IF job[j].op = "delete" THEN job[j].rows ELSE there
           status == IF job[j].op = "delete" THEN "deleted" ELSE "cleared"
<1>1. /\ job[j].step = "erase" /\ job[j].list = {} /\ rows \subseteq there
      /\ letter' = [m \in Letters |-> IF m \notin rows THEN letter[m] ELSE status]
      /\ media' = [h \in DOMAIN media |-> IF h \in rows THEN "none" ELSE media[h]]
      /\ leaked' = leaked \cup (MediaOf(rows) \ job[j].erased)
      /\ Conclude(j)
      /\ UNCHANGED <<bucket, uploaded, used, reused, undone>>
  BY DEF CommitDeletion
<1>2. /\ job' \in [Jobs -> JobStates] /\ JobInv(j)' /\ JobShape(j)'
      /\ \A k \in Jobs \ {j} : job'[k] = job[k]
  BY <1>1, ConcludeKeeps
<1>3. JobInv(j) /\ JobShape(j) /\ job[j].op \in {"delete", "clear"}
  BY <1>1 DEF MediaInv, JobShape
<1>4. rows \subseteq Letters /\ rows \subseteq Holders /\ status \in {"deleted", "cleared"}
  BY <1>1 DEF Holders
<1>5. \A h \in Holders : media'[h] = IF h \in rows THEN "none" ELSE media[h]
  BY <1>1, Typed
<1>6. \A m \in Letters : letter'[m] = IF m \notin rows THEN letter[m] ELSE status
  BY <1>1
\* Whatever still refers to an erased object is not one of the rows it was read from.
<1>7. ASSUME NEW h \in Holders, media'[h] \in job[j].erased, media'[h] # "none"
      PROVE  media'[h] \in reused
  <2>1. h \notin rows /\ media'[h] = media[h]
    BY <1>5, <1>7
  <2>2. CASE job[j].op = "delete"
    BY <1>1, <1>3, <1>7, <2>1, <2>2 DEF JobInv, Own
  <2>3. CASE job[j].op = "clear"
    <3>1. h \notin Letters
      BY <1>7, <2>1, <2>3 DEF MediaInv, RowsInv
    <3>2. QED
      BY <1>3, <1>7, <2>1, <2>3, <3>1 DEF JobInv, Own
  <2>4. QED
    BY <1>3, <2>2, <2>3
<1>8. MediaOf(rows) \subseteq used
  BY <1>4, ReadUsed
<1> HIDE DEF there, rows, status
<1>9. MediaTypeOK'
  BY <1>1, <1>2, <1>4, <1>8, Typed DEF MediaInv, MediaTypeOK, Holders
<1>10. RowsInv'
  BY <1>1, <1>4, <1>5, <1>6, Typed DEF MediaInv, RowsInv, Holders
<1>11. Moves
  BY <1>1, <1>5 DEF Moves
<1>12. ASSUME NEW h \in Holders PROVE RefersToThere(h)'
  <2>1. CASE media'[h] = "none"
    BY <2>1 DEF RefersToThere
  <2>2. CASE media'[h] # "none"
    <3>1. media'[h] = media[h] /\ RefersToThere(h)
      BY <1>5, <2>2 DEF MediaInv
    <3>2. QED
      BY <1>1, <1>2, <1>7, <2>2, <3>1 DEF RefersToThere
  <2>3. QED
    BY <2>1, <2>2
<1>13. NothingForgotten'
  <2>1. SUFFICES ASSUME NEW o \in used \cap bucket, o \notin MediaOf(Holders)', o \notin leaked'
                 PROVE  \E k \in Jobs : o \in job'[k].list /\ Answers(k)'
    BY <1>1 DEF NothingForgotten
  <2>2. o \notin MediaOf(Holders)
    <3>1. SUFFICES ASSUME NEW h \in Holders, o = media[h], o # "none" PROVE FALSE
      BY DEF MediaOf
    <3>2. media'[h] # o
      BY <2>1, <3>1 DEF MediaOf
    <3>3. h \in rows
      BY <1>5, <3>1, <3>2
    <3>4. o \in job[j].erased
      BY <1>1, <2>1, <3>1, <3>3 DEF MediaOf
    <3>5. QED
      BY <1>1, <1>3, <2>1, <3>4 DEF JobInv
  <2>3. PICK k \in Jobs : o \in job[k].list /\ Answers(k)
    BY <1>1, <2>1, <2>2 DEF MediaInv, NothingForgotten
  <2>4. k # j
    BY <1>1, <2>3
  <2>5. QED
    BY <1>2, <2>3, <2>4 DEF Answers
<1>14. QED
  BY <1>2, <1>9, <1>10, <1>11, <1>12, <1>13, OfOneJob

LEMMA DeleteDirectKeeps ==
  ASSUME MediaInv, DeleteDirect
  PROVE  MediaInv'
<1>1. /\ letter' = [m \in Letters |-> "cleared"] /\ leaked' = leaked \cup MediaOf(Letters)
      /\ UNCHANGED <<bucket, job, uploaded, used, reused, undone>>
  BY DEF DeleteDirect
<1>2. /\ Letters \subseteq Holders
      /\ \A h \in Holders : media'[h] = IF h \in Letters THEN "none" ELSE media[h]
      /\ media' \in [Holders -> Objects \cup {"none"}]
  BY Typed DEF DeleteDirect, Holders
<1>3. MediaOf(Letters) \subseteq used
  BY <1>2, ReadUsed
<1>4. MediaTypeOK'
  BY <1>1, <1>2, <1>3, Typed DEF MediaInv, MediaTypeOK, Holders
<1>5. RowsInv'
  BY <1>1, <1>2 DEF MediaInv, RowsInv, Holders
<1>6. Moves
  BY <1>1, <1>2 DEF Moves
<1>7. ASSUME NEW h \in Holders PROVE RefersToThere(h)'
  <2>1. RefersToThere(h)
    BY DEF MediaInv
  <2>2. QED
    BY <1>1, <1>2, <2>1 DEF RefersToThere
<1>8. NothingForgotten'
  <2>1. SUFFICES ASSUME NEW o \in used \cap bucket, o \notin MediaOf(Holders)', o \notin leaked'
                 PROVE  \E k \in Jobs : o \in job[k].list /\ Answers(k)
    BY <1>1 DEF NothingForgotten, Answers
  <2>2. o \notin MediaOf(Holders)
    BY <1>1, <1>2, <2>1 DEF MediaOf
  <2>3. QED
    BY <1>1, <2>1, <2>2 DEF MediaInv, NothingForgotten
<1>9. QED
  BY <1>1, <1>4, <1>5, <1>6, <1>7, <1>8, OfNoJob

-----------------------------------------------------------------------------
(* Avatars.                                                                *)

\* A request of an avatar that goes on.
LEMMA BecomeFacts ==
  ASSUME MediaInv, NEW j \in Jobs, NEW step \in {"refresh", "cleanup"}, Become(j, step),
         job[j].step \in {"commit", "refresh"}
  PROVE  /\ job' \in [Jobs -> JobStates]
         /\ \A k \in Jobs \ {j} : job'[k] = job[k]
         /\ job'[j].step = step /\ job'[j].op = "avatar" /\ job'[j].list = job[j].list
         /\ job'[j].erased = {} /\ job'[j].rows = job[j].rows /\ job'[j].new = job[j].new
         /\ Answers(j)' /\ JobShape(j)'
<1>1. job[j] \in JobStates /\ job \in [Jobs -> JobStates] /\ JobShape(j)
  BY Typed DEF MediaInv
<1>2. /\ job'[j] = [job[j] EXCEPT !.step = step]
      /\ \A k \in Jobs \ {j} : job'[k] = job[k]
  BY <1>1 DEF Become
<1>3. /\ job'[j] \in JobStates /\ job'[j].step = step /\ job'[j].op = job[j].op
      /\ job'[j].list = job[j].list /\ job'[j].erased = job[j].erased
      /\ job'[j].rows = job[j].rows /\ job'[j].new = job[j].new
  BY <1>1, <1>2 DEF JobStates
<1>4. job' \in [Jobs -> JobStates]
  BY <1>1, <1>3 DEF Become
<1>5. job[j].op = "avatar" /\ job[j].erased = {}
  BY <1>1 DEF JobShape
<1>6. JobShape(j)' /\ Answers(j)'
  BY <1>1, <1>3, <1>5 DEF JobShape, Answers
<1>7. QED
  BY <1>2, <1>3, <1>4, <1>5, <1>6

LEMMA CommitAvatarKeeps ==
  ASSUME MediaInv, NEW j \in Jobs, CommitAvatar(j)
  PROVE  MediaInv'
<1> DEFINE o == job[j].new
<1>1. /\ job[j].step = "commit" /\ Become(j, "refresh")
      /\ UNCHANGED <<bucket, letter, uploaded, undone>>
  BY DEF CommitAvatar
<1>2. /\ job' \in [Jobs -> JobStates]
      /\ \A k \in Jobs \ {j} : job'[k] = job[k]
      /\ job'[j].step = "refresh" /\ job'[j].op = "avatar" /\ job'[j].list = job[j].list
      /\ job'[j].erased = {} /\ job'[j].rows = job[j].rows /\ job'[j].new = o
      /\ Answers(j)' /\ JobShape(j)'
  BY <1>1, BecomeFacts
<1>3. /\ JobInv(j) /\ JobShape(j) /\ job[j].op = "avatar" /\ job[j].erased = {}
      /\ o \in uploaded \cup {"none"} /\ o \in Objects \cup {"none"}
  BY <1>1, Typed DEF MediaInv, JobShape, JobInv
<1>4. PICK a \in Avatars : job[j].rows = {a}
  BY <1>1, <1>3 DEF JobShape
<1>5. a \in Holders /\ a \notin Letters
  BY <1>4, Typed DEF Holders
<1>6. CASE UNCHANGED <<media, used, reused, leaked>>
  <2>1. UNCHANGED StoreVars
    BY <1>1, <1>6 DEF StoreVars
  <2>2. MediaTypeOK' /\ RowsInv' /\ Moves
    BY <1>2, <2>1, SameStore
  <2>3. JobInv(j)'
    BY <1>1, <1>2, <1>3, <2>1 DEF JobInv, Own, StoreVars
  <2>4. ASSUME NEW h \in Holders PROVE RefersToThere(h)'
    <3>1. RefersToThere(h)
      BY DEF MediaInv
    <3>2. QED
      BY <1>2, <1>3, <2>1, <3>1 DEF RefersToThere, StoreVars
  <2>5. NothingForgotten'
    BY <1>2, <2>1 DEF MediaInv, NothingForgotten, MediaOf, Answers, StoreVars
  <2>6. QED
    BY <1>2, <2>2, <2>3, <2>4, <2>5, OfOneJob
<1>7. ASSUME media' = [h \in DOMAIN media |-> IF h \in job[j].rows THEN o ELSE media[h]],
             Use({o} \ {"none"}),
             leaked' = leaked \cup (MediaOf(job[j].rows) \ job[j].list)
      PROVE  MediaInv'
  <2>1. /\ media'[a] = o /\ (\A h \in Holders \ {a} : media'[h] = media[h])
        /\ media' \in [Holders -> Objects \cup {"none"}]
        /\ used' = used \cup ({o} \ {"none"}) /\ reused' = reused \cup (({o} \ {"none"}) \cap used)
        /\ leaked' = leaked \cup ({media[a]} \ ({"none"} \cup job[j].list))
    <3>1. MediaOf(job[j].rows) = {media[a]} \ {"none"}
      BY <1>4 DEF MediaOf
    <3>2. media'[a] = o /\ (\A h \in Holders \ {a} : media'[h] = media[h])
          /\ media' \in [Holders -> Objects \cup {"none"}]
      BY <1>3, <1>4, <1>5, <1>7, Typed
    <3>3. QED
      BY <1>7, <3>1, <3>2 DEF Use
  <2>2. MediaTypeOK'
    BY <1>1, <1>2, <1>3, <2>1, Typed DEF MediaInv, MediaTypeOK, Holders, RowsInv
  <2>3. RowsInv'
    <3>1. \A h, k \in Holders :
            h # k /\ media'[h] = media'[k] /\ media'[h] # "none" => media'[h] \in reused'
      BY <2>1 DEF MediaInv, RowsInv
    <3>2. QED
      BY <1>1, <1>5, <2>1, <3>1 DEF MediaInv, RowsInv, Holders
  <2>4. Moves
    BY <1>1, <2>1 DEF Moves
  <2>5. JobInv(j)'
    BY <1>1, <1>2, <1>3, <1>4, <2>1 DEF JobInv, Own
  <2>6. ASSUME NEW h \in Holders PROVE RefersToThere(h)'
    <3>1. CASE h = a
      BY <1>1, <1>3, <2>1, <3>1 DEF MediaInv, RowsInv, RefersToThere
    <3>2. CASE h # a
      <4>1. RefersToThere(h) /\ media'[h] = media[h]
        BY <2>1, <3>2 DEF MediaInv
      <4>2. QED
        BY <1>1, <1>2, <1>3, <2>1, <4>1 DEF RefersToThere
    <3>3. QED
      BY <3>1, <3>2
  <2>7. NothingForgotten'
    <3>1. SUFFICES ASSUME NEW p \in used' \cap bucket, p \notin MediaOf(Holders)', p \notin leaked'
                   PROVE  \E k \in Jobs : p \in job'[k].list /\ Answers(k)'
      BY <1>1 DEF NothingForgotten
    <3>2. p # o
      BY <1>5, <2>1, <3>1, Typed DEF MediaOf
    <3>3. p \in used \cap bucket /\ p \notin leaked
      BY <2>1, <3>1, <3>2
    <3>4. CASE p = media[a]
      BY <1>2, <2>1, <3>1, <3>3, <3>4, Typed
    <3>5. CASE p # media[a]
      <4>1. p \notin MediaOf(Holders)
        BY <2>1, <3>1, <3>5 DEF MediaOf
      <4>2. PICK k \in Jobs : p \in job[k].list /\ Answers(k)
        BY <3>3, <4>1 DEF MediaInv, NothingForgotten
      <4>3. k # j
        BY <1>1, <4>2 DEF Answers
      <4>4. QED
        BY <1>2, <4>2, <4>3 DEF Answers
    <3>6. QED
      BY <3>4, <3>5
  <2>8. QED
    BY <1>2, <2>2, <2>3, <2>4, <2>5, <2>6, <2>7, OfOneJob
<1>8. QED
  BY <1>6, <1>7 DEF CommitAvatar

\* A request that ends keeps the rest of the invariant if no row moves and what it
\* answered for is still referred to, or has leaked.
LEMMA EndAvatar ==
  ASSUME MediaInv, NEW j \in Jobs, job[j].step \in {"commit", "refresh", "cleanup"}, Conclude(j),
         UNCHANGED <<media, letter, uploaded, used, reused, undone>>,
         bucket' \subseteq bucket, leaked \subseteq leaked', leaked' \subseteq used,
         bucket \ bucket' \subseteq job[j].list,
         bucket # bucket' => job[j].step = "cleanup",
         Answers(j) => job[j].list \cap bucket' \subseteq leaked' \cup MediaOf(Holders)
  PROVE  MediaInv'
<1>1. /\ job' \in [Jobs -> JobStates] /\ JobInv(j)' /\ JobShape(j)'
      /\ \A k \in Jobs \ {j} : job'[k] = job[k]
  BY ConcludeKeeps
<1>2. JobInv(j) /\ JobShape(j) /\ job[j].erased = {}
  BY DEF MediaInv, JobShape
<1>3. bucket \ bucket' \subseteq used
  BY <1>2 DEF JobInv
<1>4. MediaTypeOK' /\ RowsInv' /\ Moves
  BY <1>1, <1>3, Typed DEF MediaInv, MediaTypeOK, RowsInv, Moves
<1>5. ASSUME NEW h \in Holders PROVE RefersToThere(h)'
  <2>1. RefersToThere(h)
    BY DEF MediaInv
  <2>2. CASE media[h] \in bucket \ bucket'
    <3>1. job[j].step = "cleanup" /\ media[h] \in job[j].list /\ job[j].op = "avatar"
      BY <1>2, <2>2 DEF JobShape
    <3>2. Own(j) = {}
      BY <3>1 DEF Own
    <3>3. QED
      BY <1>2, <3>1, <3>2 DEF JobInv, RefersToThere
  <2>3. CASE media[h] \notin bucket \ bucket'
    BY <1>1, <1>2, <2>1, <2>3 DEF RefersToThere
  <2>4. QED
    BY <2>2, <2>3
<1>6. NothingForgotten'
  <2>1. SUFFICES ASSUME NEW p \in used \cap bucket', p \notin MediaOf(Holders), p \notin leaked'
                 PROVE  \E k \in Jobs : p \in job'[k].list /\ Answers(k)'
    BY DEF NothingForgotten, MediaOf
  <2>2. PICK k \in Jobs : p \in job[k].list /\ Answers(k)
    BY <2>1 DEF MediaInv, NothingForgotten
  <2>3. k # j
    BY <2>1, <2>2
  <2>4. QED
    BY <1>1, <2>2, <2>3 DEF Answers
<1>7. QED
  BY <1>1, <1>4, <1>5, <1>6, OfOneJob

LEMMA RefreshKeeps ==
  ASSUME MediaInv, NEW j \in Jobs, Refresh(j)
  PROVE  MediaInv'
<1>1. /\ job[j].step = "refresh" /\ UNCHANGED StoreVars
      /\ IF job[j].list \subseteq MediaOf(job[j].rows) THEN Conclude(j) ELSE Become(j, "cleanup")
  BY DEF Refresh, StoreVars
<1>2. JobInv(j) /\ JobShape(j) /\ job[j].op = "avatar" /\ job[j].erased = {}
  BY <1>1 DEF MediaInv, JobShape
<1>3. PICK a \in Avatars : job[j].rows = {a}
  BY <1>1, <1>2 DEF JobShape
<1>4. CASE job[j].list \subseteq MediaOf(job[j].rows)
  <2>1. MediaOf(job[j].rows) \subseteq MediaOf(Holders)
    BY <1>3 DEF MediaOf, Holders
  <2>2. QED
    BY <1>1, <1>4, <2>1, EndAvatar, Typed DEF StoreVars
<1>5. CASE ~(job[j].list \subseteq MediaOf(job[j].rows))
  <2>1. /\ job' \in [Jobs -> JobStates]
        /\ \A k \in Jobs \ {j} : job'[k] = job[k]
        /\ job'[j].step = "cleanup" /\ job'[j].op = "avatar" /\ job'[j].list = job[j].list
        /\ job'[j].erased = {} /\ job'[j].rows = job[j].rows /\ job'[j].new = job[j].new
        /\ Answers(j)' /\ JobShape(j)'
    BY <1>1, <1>5, BecomeFacts
  <2>2. MediaTypeOK' /\ RowsInv' /\ Moves
    BY <1>1, <2>1, SameStore
  \* The list has one object at most, and the row read again refers to another.
  <2>3. media[a] \notin job[j].list
    <3>1. "none" \notin job[j].list
      BY <1>2, Typed DEF JobInv
    <3>2. \A o, p \in job[j].list : o = p
      BY <1>1, <1>2 DEF JobShape
    <3>3. QED
      BY <1>3, <1>5, <3>1, <3>2 DEF MediaOf
  <2>4. JobInv(j)'
    <3>1. \A o \in job[j].list, h \in Holders : media[h] = o => o \in reused
      BY <1>1, <1>2, <1>3, <2>3 DEF JobInv, Own
    <3>2. QED
      BY <1>1, <1>2, <2>1, <3>1 DEF JobInv, StoreVars
  <2>5. ASSUME NEW h \in Holders PROVE RefersToThere(h)'
    <3>1. RefersToThere(h)
      BY DEF MediaInv
    <3>2. QED
      BY <1>1, <1>2, <2>1, <3>1 DEF RefersToThere, StoreVars
  <2>6. NothingForgotten'
    BY <1>1, <2>1 DEF MediaInv, NothingForgotten, MediaOf, Answers, StoreVars
  <2>7. QED
    BY <2>1, <2>2, <2>4, <2>5, <2>6, OfOneJob
<1>6. QED
  BY <1>4, <1>5

LEMMA CleanupKeeps ==
  ASSUME MediaInv, NEW j \in Jobs, Cleanup(j)
  PROVE  MediaInv'
<1>1. /\ job[j].step = "cleanup" /\ Conclude(j)
      /\ UNCHANGED <<media, letter, uploaded, used, reused, undone>>
      /\ \/ bucket' = bucket \ job[j].list /\ UNCHANGED leaked
         \/ leaked' = leaked \cup job[j].list /\ UNCHANGED bucket
  BY DEF Cleanup
<1>2. job[j].list \subseteq used
  BY DEF MediaInv, JobInv
<1>3. QED
  BY <1>1, <1>2, EndAvatar, Typed

LEMMA LoseAvatarKeeps ==
  ASSUME MediaInv, NEW j \in Jobs, LoseAvatar(j)
  PROVE  MediaInv'
<1>1. /\ job[j].step \in {"commit", "refresh", "cleanup"} /\ Conclude(j)
      /\ leaked' = IF job[j].step = "commit" THEN leaked ELSE leaked \cup job[j].list
      /\ UNCHANGED <<bucket, media, letter, uploaded, used, reused, undone>>
  BY DEF LoseAvatar
<1>2. job[j].list \subseteq used
  BY DEF MediaInv, JobInv
<1>3. QED
  BY <1>1, <1>2, EndAvatar, Typed DEF Answers

-----------------------------------------------------------------------------

LEMMA NextMedia == MediaInv /\ [MediaNext]_mediaVars => MediaInv'
<1> SUFFICES ASSUME MediaInv, [MediaNext]_mediaVars PROVE MediaInv'
  OBVIOUS
<1>1. CASE \E o \in Objects : Upload(o) \/ \E m \in Letters : Post(m, o)
  BY <1>1, UploadKeeps, PostKeeps
<1>2. ASSUME NEW j \in Jobs,
             \/ \E M \in SUBSET Letters : ReadDelete(j, M)
             \/ \E a \in Avatars, o \in Objects \cup {"none"} : ReadAvatar(j, a, o)
             \/ ReadClear(j)
      PROVE  MediaInv'
  BY <1>2, ReadDeleteKeeps, ReadAvatarKeeps, ReadClearKeeps
<1>3. ASSUME NEW j \in Jobs, Erase(j) \/ CommitDeletion(j) \/ UndoDeletion(j)
      PROVE  MediaInv'
  BY <1>3, EraseKeeps, CommitDeletionKeeps, UndoKeeps
<1>4. ASSUME NEW j \in Jobs, CommitAvatar(j) \/ Refresh(j) \/ Cleanup(j) \/ LoseAvatar(j)
      PROVE  MediaInv'
  BY <1>4, CommitAvatarKeeps, RefreshKeeps, CleanupKeeps, LoseAvatarKeeps
<1>5. CASE DeleteDirect
  BY <1>5, DeleteDirectKeeps
<1>6. CASE UNCHANGED mediaVars
  <2>1. UNCHANGED StoreVars /\ job' = job /\ MediaTypeOK' /\ RowsInv' /\ Moves
    BY <1>6, SameStore, Typed DEF mediaVars, StoreVars
  <2>2. (\A h \in Holders : RefersToThere(h)') /\ NothingForgotten'
    BY <2>1 DEF MediaInv, RefersToThere, NothingForgotten, MediaOf, Answers, StoreVars
  <2>3. QED
    BY <2>1, <2>2, OfNoJob
<1>7. QED
  BY <1>1, <1>2, <1>3, <1>4, <1>5, <1>6 DEF MediaNext

LEMMA MediaInvariant == MediaSpec => []MediaInv
BY InitMedia, NextMedia, PTL DEF MediaSpec

\* The variables of the store hold values of their types, and the histories nest:
\* what was reused, undone or leaked was used, and what was used was uploaded.
THEOREM MediaTypesCorrect == MediaSpec => []MediaTypeOK
<1>1. MediaInv => MediaTypeOK
  BY DEF MediaInv
<1>2. QED
  BY <1>1, MediaInvariant, PTL

\* Whatever uploads, posts, deletions and new avatars overlap, of any number of
\* requests (services/storage_service.py and its callers): no row refers to an
\* erased object but by a reuse or by a deletion that is not committed, and no
\* object is forgotten but by what MediaMatchesRows names: failures, cut requests, rows
\* changed behind a request's back, and delete_dm.
THEOREM BucketMatchesRows == MediaSpec => []MediaMatchesRows
<1>1. MediaInv => MediaMatchesRows
  BY DEF MediaInv, MediaMatchesRows, RefersToThere, NothingForgotten, Holders
<1>2. QED
  BY <1>1, MediaInvariant, PTL
==============================================================================

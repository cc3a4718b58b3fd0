---------------------------- MODULE Notifications -----------------------------
(***************************************************************************)
(* Notifications and web push (services/notification_service.py, router/   *)
(* notification.py, and the end of create_message).  A sender notifies the *)
(* other members one after the other: the row is committed, then published *)
(* over pub/sub, and a task that pushes to the member's browsers is started*)
(* if the member has no mark in Redis by then.  The published notification *)
(* reaches whatever sockets the member has when it arrives.  Sockets, marks*)
(* and publications, the tasks, and the registrations of browsers, run on  *)
(* their own.                                                              *)
(***************************************************************************)
EXTENDS FiniteSets

CONSTANTS
  Recipients,
  Sends,         \* messages about which the recipients are notified
  Endpoints,     \* of the push service, one per browser subscription
  Registrations  \* calls of subscribe

ASSUME RecipientsAssumption == "none" \notin Recipients

VARIABLES
  sockets,  \* recipients with a socket (manager.users)
  marked,   \* recipients with the mark in Redis (online_users)
  note,     \* Sends -> Recipients -> the row: "none", "unread" or "read"
  owner,    \* Endpoints -> the recipient in its row, or "none" without a row
  gone,     \* the endpoints the push service answers 404 or 410 for
  send,     \* Sends -> [step, to, rest]
  push,     \* Sends -> Recipients -> [step, list, dead]
  reg,      \* Registrations -> [step, user, endpoint, found: the owner read]
  flying,   \* the pairs <<send, recipient>> published and not yet handed on
  live,     \* the pairs handed on to a socket
  mayMiss   \* history: the pairs for which mark and socket did not agree (see below)

notifyVars == <<sockets, marked, note, owner, gone, send, push, reg, flying, live, mayMiss>>
presenceVars == <<sockets, marked>>
wireVars == <<flying, live, mayMiss>>

SendStates == [step : {"new", "next", "publish", "check", "done"},
               to : Recipients \cup {"none"}, rest : SUBSET Recipients]
PushStates == [step : {"none", "started", "pushing", "done"},
               list : SUBSET Endpoints, dead : SUBSET Endpoints]
RegStates == [step : {"new", "commit", "saved", "failed"}, user : Recipients \cup {"none"},
              endpoint : Endpoints \cup {"none"}, found : Recipients \cup {"none"}]

NotifyInit ==
  /\ sockets = {} /\ marked = {}
  /\ note = [s \in Sends |-> [u \in Recipients |-> "none"]]
  /\ owner = [e \in Endpoints |-> "none"]
  /\ gone = {}
  /\ send = [s \in Sends |-> [step |-> "new", to |-> "none", rest |-> {}]]
  /\ push = [s \in Sends |-> [u \in Recipients |-> [step |-> "none", list |-> {}, dead |-> {}]]]
  /\ reg = [g \in Registrations |->
              [step |-> "new", user |-> "none", endpoint |-> "none", found |-> "none"]]
  /\ flying = {} /\ live = {} /\ mayMiss = {}

-----------------------------------------------------------------------------
(* The end of create_message, and send_notification for each member.       *)

StartNotifying(s) ==
  /\ send[s].step = "new"
  /\ send' = [send EXCEPT ![s] = [step |-> "next", to |-> "none", rest |-> Recipients]]
  /\ UNCHANGED <<presenceVars, note, owner, gone, push, reg, wireVars>>

\* A member who views the conversation, or whose settings forbid it, as of now
\* (_check_user_permission), is passed over.
PassOver(s) ==
  /\ send[s].step = "next"
  /\ \E u \in send[s].rest : send' = [send EXCEPT ![s].rest = @ \ {u}]
  /\ UNCHANGED <<presenceVars, note, owner, gone, push, reg, wireVars>>

Store(s) ==
  /\ send[s].step = "next"
  /\ \E u \in send[s].rest :
       /\ note' = [note EXCEPT ![s][u] = "unread"]
       /\ send' = [send EXCEPT ![s] = [step |-> "publish", to |-> u, rest |-> @.rest \ {u}]]
  /\ UNCHANGED <<presenceVars, owner, gone, push, reg, wireVars>>

PublishNote(s) ==
  /\ send[s].step = "publish"
  /\ flying' = flying \cup {<<s, send[s].to>>}
  /\ mayMiss' = IF send[s].to \in marked \ sockets THEN mayMiss \cup {<<s, send[s].to>>}
                ELSE mayMiss
  /\ send' = [send EXCEPT ![s].step = "check"]
  /\ UNCHANGED <<presenceVars, note, owner, gone, push, reg, live>>

\* MUTANT of NeedsPush: only those who are there are pushed to.
NeedsPushOnline(u) == u \in marked

NeedsPush(u) == u \notin marked

CheckOnline(s) ==
  LET u == send[s].to
  IN /\ send[s].step = "check"
     /\ push' = IF NeedsPush(u) THEN [push EXCEPT ![s][u].step = "started"] ELSE push
     /\ send' = [send EXCEPT ![s].step = "next", ![s].to = "none"]
     /\ UNCHANGED <<presenceVars, note, owner, gone, reg, wireVars>>

NotifyEnds(s) ==
  /\ send[s].step = "next" /\ send[s].rest = {}
  /\ send' = [send EXCEPT ![s].step = "done"]
  /\ UNCHANGED <<presenceVars, note, owner, gone, push, reg, wireVars>>

\* An error, caught around the whole loop: the members behind are not notified.
NotifyFails(s) ==
  /\ send[s].step \in {"next", "publish", "check"}
  /\ send' = [send EXCEPT ![s].step = "done"]
  /\ UNCHANGED <<presenceVars, note, owner, gone, push, reg, wireVars>>

\* mark_as_read: one notification, or all of them.
ReadNotes(u, S) ==
  /\ \E s \in S : note[s][u] = "unread"
  /\ note' = [s \in Sends |-> IF s \in S /\ note[s][u] = "unread"
                              THEN [note[s] EXCEPT ![u] = "read"] ELSE note[s]]
  /\ UNCHANGED <<presenceVars, owner, gone, send, push, reg, wireVars>>

-----------------------------------------------------------------------------
(* _trigger_web_push, a task of its own.                                   *)

ReadSubscriptions(s, u) ==
  /\ push[s][u].step = "started"
  /\ push' = [push EXCEPT ![s][u].step = "pushing",
                          ![s][u].list = {e \in Endpoints : owner[e] = u}]
  /\ UNCHANGED <<presenceVars, note, owner, gone, send, reg, wireVars>>

\* MUTANT of PushOne: every failure counts as the end of the subscription.
PushOneFailing(s, u) ==
  /\ push[s][u].step = "pushing"
  /\ \E e \in push[s][u].list :
       push' = [push EXCEPT ![s][u].list = @ \ {e}, ![s][u].dead = @ \cup {e}]
  /\ UNCHANGED <<presenceVars, note, owner, gone, send, reg, wireVars>>

\* An endpoint that is gone is noted down; other failures are ignored.
PushOne(s, u) ==
  /\ push[s][u].step = "pushing"
  /\ \E e \in push[s][u].list :
       push' = [push EXCEPT ![s][u].list = @ \ {e},
                            ![s][u].dead = IF e \in gone THEN @ \cup {e} ELSE @]
  /\ UNCHANGED <<presenceVars, note, owner, gone, send, reg, wireVars>>

DeleteDead(s, u) ==
  /\ push[s][u].step = "pushing" /\ push[s][u].list = {}
  /\ owner' = [e \in Endpoints |-> IF e \in push[s][u].dead THEN "none" ELSE owner[e]]
  /\ push' = [push EXCEPT ![s][u].step = "done", ![s][u].dead = {}]
  /\ UNCHANGED <<presenceVars, note, gone, send, reg, wireVars>>

-----------------------------------------------------------------------------
(* save_push_subscription.                                                 *)

Subscribe(g, u, e) ==
  /\ reg[g].step = "new"
  /\ e \notin gone
  /\ reg' = [reg EXCEPT ![g] = [step |-> "commit", user |-> u, endpoint |-> e,
                                found |-> owner[e]]]
  /\ UNCHANGED <<presenceVars, note, owner, gone, send, push, wireVars>>

\* The row found is updated, or a new one inserted.  If the row has gone, or one
\* has appeared, nothing is written and the answer is false; so it is after any other
\* error of the commit, whatever the database has made of it.
Save(g) ==
  LET e == reg[g].endpoint
      match == (reg[g].found = "none") <=> (owner[e] = "none")
  IN /\ reg[g].step = "commit"
     /\ reg[g].found # reg[g].user
     /\ \E answer \in {"saved", "failed"}, written \in BOOLEAN :
          /\ written => match
          /\ answer = "saved" => written
          /\ owner' = IF written THEN [owner EXCEPT ![e] = reg[g].user] ELSE owner
          /\ reg' = [reg EXCEPT ![g].step = answer]
     /\ UNCHANGED <<presenceVars, note, gone, send, push, wireVars>>

\* Of a row that was the user's already, at most the keys are written: if it has
\* another owner by now he stays, and without new keys a row that has gone is not missed.
SaveKeys(g) ==
  /\ reg[g].step = "commit"
  /\ reg[g].found = reg[g].user
  /\ \E answer \in {"saved", "failed"} : reg' = [reg EXCEPT ![g].step = answer]
  /\ UNCHANGED <<presenceVars, note, owner, gone, send, push, wireVars>>

-----------------------------------------------------------------------------
(* The users, and the publications on their way to them.                   *)

\* connect: the socket is there, then the mark.  Where the publication found no socket,
\* the mark may still come in front of the check, and keep the push from starting.
OpenSocket(u) ==
  /\ u \notin sockets
  /\ sockets' = sockets \cup {u}
  /\ UNCHANGED <<marked, note, owner, gone, send, push, reg, wireVars>>

SetMark(u) ==
  /\ u \in sockets \ marked
  /\ marked' = marked \cup {u}
  /\ mayMiss' = mayMiss \cup {<<s, u>> : s \in
                   {x \in Sends : send[x].step = "check" /\ send[x].to = u /\ <<x, u>> \notin flying}}
  /\ UNCHANGED <<sockets, note, owner, gone, send, push, reg, flying, live>>

\* disconnect, or a crash: the socket is gone, and the mark stays until disconnect is
\* at its end, or until the next start clears all marks.
CloseSocket(u) ==
  /\ u \in sockets
  /\ sockets' = sockets \ {u}
  /\ mayMiss' = mayMiss \cup (flying \cap (Sends \X {u}))
  /\ UNCHANGED <<marked, note, owner, gone, send, push, reg, flying, live>>

\* set_offline, the start of a process, or a Redis that restarts.
LoseMark(u) ==
  /\ u \in marked
  /\ marked' = marked \ {u}
  /\ UNCHANGED <<sockets, note, owner, gone, send, push, reg, wireVars>>

\* notification_handler: the sockets that are there when the publication arrives.
DeliverNote(s, u) ==
  /\ <<s, u>> \in flying
  /\ flying' = flying \ {<<s, u>>}
  /\ live' = IF u \in sockets THEN live \cup {<<s, u>>} ELSE live
  /\ UNCHANGED <<presenceVars, note, owner, gone, send, push, reg, mayMiss>>

\* A subscriber that is away does not get it, and a socket may fail to take it.
LoseNote(s, u) ==
  /\ <<s, u>> \in flying
  /\ flying' = flying \ {<<s, u>>}
  /\ mayMiss' = mayMiss \cup {<<s, u>>}
  /\ UNCHANGED <<presenceVars, note, owner, gone, send, push, reg, live>>

\* The browser gives its subscription up.
Unsubscribe(e) ==
  /\ e \notin gone
  /\ gone' = gone \cup {e}
  /\ UNCHANGED <<presenceVars, note, owner, send, push, reg, wireVars>>

NotifyNext ==
  \/ \E s \in Sends :
       \/ StartNotifying(s) \/ PassOver(s) \/ Store(s) \/ PublishNote(s) \/ CheckOnline(s)
       \/ NotifyEnds(s) \/ NotifyFails(s)
       \/ \E u \in Recipients : \/ ReadSubscriptions(s, u) \/ PushOne(s, u) \/ DeleteDead(s, u)
                               \/ DeliverNote(s, u) \/ LoseNote(s, u)
  \/ \E u \in Recipients : \/ OpenSocket(u) \/ SetMark(u) \/ CloseSocket(u) \/ LoseMark(u)
                           \/ \E S \in SUBSET Sends : ReadNotes(u, S)
  \/ \E g \in Registrations :
       \/ Save(g) \/ SaveKeys(g)
       \/ \E u \in Recipients, e \in Endpoints : Subscribe(g, u, e)
  \/ \E e \in Endpoints : Unsubscribe(e)

NotifySpec == NotifyInit /\ [][NotifyNext]_notifyVars

-----------------------------------------------------------------------------

\* Every variable holds a value of its type.
NotifyTypeOK ==
  /\ sockets \cup marked \subseteq Recipients
  /\ note \in [Sends -> [Recipients -> {"none", "unread", "read"}]]
  /\ owner \in [Endpoints -> Recipients \cup {"none"}]
  /\ gone \subseteq Endpoints
  /\ send \in [Sends -> SendStates]
  /\ push \in [Sends -> [Recipients -> PushStates]]
  /\ reg \in [Registrations -> RegStates]
  /\ flying \cup live \cup mayMiss \subseteq Sends \X Recipients

\* Of a stored notification that was sent to its end, the recipient is told at once or a
\* push is started, even if the publication finds no socket, the mark comes or goes, or
\* somebody comes online meanwhile; with the exceptions mayMiss lists.  Those are what
\* the code leaves open: the recipient was marked without a socket at the publication (a
\* disconnect not yet at set_offline, or a crash before the next start), was marked
\* between the arrival of the publication and the check, lost the last socket while the
\* publication was on its way, or the publication or its socket failed.
NobodyIsMissed ==
  \A s \in Sends, u \in Recipients :
    (note[s][u] # "none" /\ <<s, u>> \notin live /\ push[s][u].step = "none") =>
      \/ send[s].to = u
      \/ <<s, u>> \in flying
      \/ <<s, u>> \in mayMiss

\* A browser that was subscribed keeps its subscription until it gives it up,
\* whatever pushes were on the way and whoever subscribed it at the same time;
\* and it belongs to a user for whom it was subscribed, perhaps by a registration that was
\* answered with an error.
SubscribedIsReachable ==
  \A g \in Registrations : reg[g].step = "saved" =>
    LET e == reg[g].endpoint
    IN e \notin gone =>
         \E h \in Registrations : /\ reg[h].endpoint = e /\ reg[h].step \in {"saved", "failed"}
                                  /\ owner[e] = reg[h].user
===============================================================================

-------------------------- MODULE ConnectionManager --------------------------
(***************************************************************************)
(* The WebSocket connections of the instances (ws/manager.py and the loop  *)
(* of ws/sockets.py), and what they keep in Redis for all of them: the     *)
(* connection ids of a user, the online users, and who is viewing which    *)
(* conversation (a viewer gets no notification of a new message).          *)
(*                                                                         *)
(* Every connection is a task.  What a task does between two awaits is one *)
(* step; each Redis call is a step of its own, executed while the tasks of *)
(* this and of other instances go on.                                      *)
(***************************************************************************)
EXTENDS Naturals, FiniteSets

CONSTANTS
  Instances,
  Users,
  Conversations,  \* all users are members of all of them
  Conns,          \* connections ever opened (a tab that reconnects is a new one)
  UserOf,         \* the user of a connection
  InstanceOf,     \* the instance that accepted it
  None            \* no conversation

ASSUME ConnsFinite == IsFiniteSet(Conns)
ASSUME UserOfAssumption == UserOf \in [Conns -> Users]
ASSUME InstanceOfAssumption == InstanceOf \in [Conns -> Instances]
ASSUME NoneAssumption == None \notin Conversations

VARIABLES
  \* in the memory of the instances
  pc,        \* Conns -> the next step of the connection's task
  users,     \* connections in manager.users
  local,     \* Instances -> <<user, conversation>> in local_conversations
  joined,    \* Conns -> joined_conversation
  active,    \* Conns -> active_conv_id
  next,      \* Conns -> the conversation a conversation.joined event is about
  \* in Redis
  ids,       \* connections in the sets user:{id}:connections
  online,    \* the set online_users
  viewers    \* <<user, conversation>> in the sets conversation:{id}:active_users

memory == <<pc, users, local, joined, active, next>>
vars == <<memory, ids, online, viewers>>

\* connect: sadd, count, mark, enter; the loop: open, leave, switch, view,
\* unview; disconnect: forget, drop, srem, recount, delete, offline.  A task
\* ends "gone", or "lost" when its instance dies.
Steps == {"new", "sadd", "count", "mark", "enter", "open",
          "leave", "switch", "view", "unview",
          "forget", "drop", "srem", "recount", "delete", "offline", "gone", "lost"}

\* Every variable holds a value of its type, and manager.users has a connection
\* from its acceptance to its disconnect and at no other time.
TypeOK ==
  /\ pc \in [Conns -> Steps]
  /\ local \in [Instances -> SUBSET (Users \X Conversations)]
  /\ joined \in [Conns -> SUBSET Conversations]
  /\ active \in [Conns -> Conversations \cup {None}]
  /\ next \in [Conns -> Conversations \cup {None}]
  /\ ids \subseteq Conns
  /\ online \subseteq Users
  /\ viewers \subseteq Users \X Conversations
  /\ users = {c \in Conns : pc[c] \in {"sadd", "count", "mark", "enter", "open",
                                       "leave", "switch", "view", "unview"}}

Init ==
  /\ pc = [c \in Conns |-> "new"]
  /\ users = {}
  /\ local = [i \in Instances |-> {}]
  /\ joined = [c \in Conns |-> {}]
  /\ active = [c \in Conns |-> None]
  /\ next = [c \in Conns |-> None]
  /\ ids = {}
  /\ online = {}
  /\ viewers = {}

ConnsOf(u) == {c \in Conns : UserOf[c] = u}
Goto(c, step) == pc' = [pc EXCEPT ![c] = step]

-----------------------------------------------------------------------------
(* manager.connect, and the joins of web_socket_endpoint.                  *)

Accept(c) ==
  /\ pc[c] = "new"
  /\ users' = users \cup {c}
  /\ Goto(c, "sadd")
  /\ UNCHANGED <<local, joined, active, next, ids, online, viewers>>

AddId(c) ==
  /\ pc[c] = "sadd"
  /\ ids' = ids \cup {c}
  /\ Goto(c, "count")
  /\ UNCHANGED <<users, local, joined, active, next, online, viewers>>

\* SCARD: only a connection that finds itself alone marks the user online.
CountIds(c) ==
  /\ pc[c] = "count"
  /\ Goto(c, IF Cardinality(ids \cap ConnsOf(UserOf[c])) = 1 THEN "mark" ELSE "enter")
  /\ UNCHANGED <<users, local, joined, active, next, ids, online, viewers>>

MarkOnline(c) ==
  /\ pc[c] = "mark"
  /\ online' = online \cup {UserOf[c]}
  /\ Goto(c, "enter")
  /\ UNCHANGED <<users, local, joined, active, next, ids, viewers>>

\* join_conversation for every v of C.
Join(c, C) ==
  /\ joined' = [joined EXCEPT ![c] = @ \cup C]
  /\ local' = [local EXCEPT ![InstanceOf[c]] = @ \cup ({UserOf[c]} \X C)]

\* All conversations of the user are joined, and the loop begins.
Enter(c) ==
  /\ pc[c] = "enter"
  /\ Join(c, Conversations)
  /\ Goto(c, "open")
  /\ UNCHANGED <<users, active, next, ids, online, viewers>>

-----------------------------------------------------------------------------
(* Events of the loop.                                                     *)

\* conversation.joined, while another conversation is active: that one is left
\* first, and stays the active one until Redis has answered.
ViewOther(c, v) ==
  /\ pc[c] = "open"
  /\ active[c] \notin {None, v}
  /\ next' = [next EXCEPT ![c] = v]
  /\ Goto(c, "leave")
  /\ UNCHANGED <<users, local, joined, active, ids, online, viewers>>

LeaveOld(c) ==
  /\ pc[c] = "leave"
  /\ viewers' = viewers \ {<<UserOf[c], active[c]>>}
  /\ Goto(c, "switch")
  /\ UNCHANGED <<users, local, joined, active, next, ids, online>>

Switch(c) ==
  /\ pc[c] = "switch"
  /\ active' = [active EXCEPT ![c] = next[c]]
  /\ next' = [next EXCEPT ![c] = None]
  /\ Goto(c, "view")
  /\ UNCHANGED <<users, local, joined, ids, online, viewers>>

\* conversation.joined otherwise.
View(c, v) ==
  /\ pc[c] = "open"
  /\ active[c] \in {None, v}
  /\ active' = [active EXCEPT ![c] = v]
  /\ Goto(c, "view")
  /\ UNCHANGED <<users, local, joined, next, ids, online, viewers>>

\* add_active_user, and the conversation is joined (again).
AddViewer(c) ==
  /\ pc[c] = "view"
  /\ viewers' = viewers \cup {<<UserOf[c], active[c]>>}
  /\ Join(c, {active[c]})
  /\ Goto(c, "open")
  /\ UNCHANGED <<users, active, next, ids, online>>

\* conversation.left: next remembers which viewer entry is to be removed.
Leave(c) ==
  /\ pc[c] = "open"
  /\ active[c] # None
  /\ active' = [active EXCEPT ![c] = None]
  /\ next' = [next EXCEPT ![c] = active[c]]
  /\ Goto(c, "unview")
  /\ UNCHANGED <<users, local, joined, ids, online, viewers>>

RemoveViewer(c) ==
  /\ pc[c] = "unview"
  /\ viewers' = viewers \ {<<UserOf[c], next[c]>>}
  /\ next' = [next EXCEPT ![c] = None]
  /\ Goto(c, "open")
  /\ UNCHANGED <<users, local, joined, active, ids, online>>

\* presence.focus and presence.unfocus, of any tab.
Focus(c) ==
  /\ pc[c] = "open"
  /\ online' = online \cup {UserOf[c]}
  /\ UNCHANGED <<memory, ids, viewers>>

Unfocus(c) ==
  /\ pc[c] = "open"
  /\ online' = online \ {UserOf[c]}
  /\ UNCHANGED <<memory, ids, viewers>>

-----------------------------------------------------------------------------
(* manager.disconnect.                                                     *)

\* Another connection of the user, on this instance, has the conversation active.
StillViewing(c) ==
  \E d \in users \ {c} :
    /\ UserOf[d] = UserOf[c]
    /\ InstanceOf[d] = InstanceOf[c]
    /\ active[d] = active[c]

\* MUTANT of Forget: joined_conversation is cleared before the loop over it.
ForgetCleared(c) ==
  /\ joined' = [joined EXCEPT ![c] = {}]
  /\ UNCHANGED local

\* The user is dropped from the local members of all it had joined.
Forget(c) ==
  /\ local' = [local EXCEPT ![InstanceOf[c]] = @ \ ({UserOf[c]} \X joined[c])]
  /\ joined' = [joined EXCEPT ![c] = {}]

\* MUTANT of CloseViewing: the list of remaining connections is not stored back.
CloseViewingUnstored(c) ==
  /\ pc[c] = "open"
  /\ active[c] # None
  /\ ~StillViewing(c)
  /\ Goto(c, "forget")
  /\ UNCHANGED <<users, local, joined, active, next, ids, online, viewers>>

\* The socket closes while the connection is the last one viewing: the viewer
\* entry is removed before the rest.
CloseViewing(c) ==
  /\ pc[c] = "open"
  /\ active[c] # None
  /\ ~StillViewing(c)
  /\ users' = users \ {c}
  /\ Goto(c, "forget")
  /\ UNCHANGED <<local, joined, active, next, ids, online, viewers>>

ForgetViewer(c) ==
  /\ pc[c] = "forget"
  /\ viewers' = viewers \ {<<UserOf[c], active[c]>>}
  /\ active' = [active EXCEPT ![c] = None]
  /\ Goto(c, "drop")
  /\ UNCHANGED <<users, local, joined, next, ids, online>>

Drop(c) ==
  /\ pc[c] = "drop"
  /\ Forget(c)
  /\ Goto(c, "srem")
  /\ UNCHANGED <<users, active, next, ids, online, viewers>>

Close(c) ==
  /\ pc[c] = "open"
  /\ active[c] = None \/ StillViewing(c)
  /\ users' = users \ {c}
  /\ active' = [active EXCEPT ![c] = None]
  /\ Forget(c)
  /\ Goto(c, "srem")
  /\ UNCHANGED <<next, ids, online, viewers>>

RemoveId(c) ==
  /\ pc[c] = "srem"
  /\ ids' = ids \ {c}
  /\ Goto(c, "recount")
  /\ UNCHANGED <<users, local, joined, active, next, online, viewers>>

\* MUTANT of Recount: the last connection is expected to be still counted.
RecountOffByOne(c) ==
  /\ pc[c] = "recount"
  /\ Goto(c, IF Cardinality(ids \cap ConnsOf(UserOf[c])) = 1 THEN "delete" ELSE "gone")
  /\ UNCHANGED <<users, local, joined, active, next, ids, online, viewers>>

Recount(c) ==
  /\ pc[c] = "recount"
  /\ Goto(c, IF ids \cap ConnsOf(UserOf[c]) = {} THEN "delete" ELSE "gone")
  /\ UNCHANGED <<users, local, joined, active, next, ids, online, viewers>>

DeleteIds(c) ==
  /\ pc[c] = "delete"
  /\ ids' = ids \ ConnsOf(UserOf[c])
  /\ Goto(c, "offline")
  /\ UNCHANGED <<users, local, joined, active, next, online, viewers>>

SetOffline(c) ==
  /\ pc[c] = "offline"
  /\ online' = online \ {UserOf[c]}
  /\ Goto(c, "gone")
  /\ UNCHANGED <<users, local, joined, active, next, ids, viewers>>

-----------------------------------------------------------------------------
(* An instance dies and starts again (lifespan).                           *)

\* Its memory is lost.  On start-up it deletes the connection and online sets,
\* of all instances, if it gets the lock (which is not waited for).
Restart(i) ==
  LET mine == {c \in Conns : InstanceOf[c] = i /\ pc[c] \notin {"new", "gone", "lost"}}
  IN /\ pc' = [c \in Conns |-> IF c \in mine THEN "lost" ELSE pc[c]]
     /\ users' = users \ mine
     /\ joined' = [c \in Conns |-> IF c \in mine THEN {} ELSE joined[c]]
     /\ active' = [c \in Conns |-> IF c \in mine THEN None ELSE active[c]]
     /\ next' = [c \in Conns |-> IF c \in mine THEN None ELSE next[c]]
     /\ local' = [local EXCEPT ![i] = {}]
     /\ \/ ids' = {} /\ online' = {}
        \/ UNCHANGED <<ids, online>>
     /\ UNCHANGED viewers

-----------------------------------------------------------------------------

Connect(c) == Accept(c) \/ AddId(c) \/ CountIds(c) \/ MarkOnline(c) \/ Enter(c)

Loop(c) ==
  \/ \E v \in Conversations : ViewOther(c, v) \/ View(c, v)
  \/ LeaveOld(c) \/ Switch(c) \/ AddViewer(c) \/ Leave(c) \/ RemoveViewer(c)
  \/ Focus(c) \/ Unfocus(c)

Disconnect(c) ==
  \/ CloseViewing(c) \/ ForgetViewer(c) \/ Drop(c) \/ Close(c)
  \/ RemoveId(c) \/ Recount(c) \/ DeleteIds(c) \/ SetOffline(c)

Next ==
  \/ \E c \in Conns : Connect(c) \/ Loop(c) \/ Disconnect(c)
  \/ \E i \in Instances : Restart(i)

Spec == Init /\ [][Next]_vars

-----------------------------------------------------------------------------

\* However the connects, disconnects, focus events and restarts of a user's tabs
\* interleave: once every tab has been closed in the regular way, its
\* connection ids are gone and the user is not shown online.
OfflineWhenGone ==
  \A u \in Users :
    (\A c \in ConnsOf(u) : pc[c] \in {"new", "gone"})
      => u \notin online /\ ids \cap ConnsOf(u) = {}

\* An instance never goes on looking for the sockets of a user who has left: a
\* local member of a conversation has a connection here that joined it.
NoGhostMember ==
  \A i \in Instances : \A m \in local[i] :
    \E c \in ConnsOf(m[1]) : InstanceOf[c] = i /\ m[2] \in joined[c]

\* README, "Local WebSocket connections receive the event": every open connection
\* of this instance that joined a conversation is found through its members.
EveryTabIsServed ==
  \A c \in Conns : pc[c] = "open" =>
    {UserOf[c]} \X joined[c] \subseteq local[InstanceOf[c]]

\* README, "notifications for users who are offline or not actively viewing a
\* conversation": a user without any connection counts as a viewer of nothing.
AwayUsersAreNotified ==
  \A u \in Users :
    (\A c \in ConnsOf(u) : pc[c] \in {"new", "gone", "lost"})
      => \A v \in Conversations : <<u, v>> \notin viewers
==============================================================================

---------------------- MODULE ConnectionManager_proofs -----------------------
(***************************************************************************)
(* Theorems about ConnectionManager, for any instances, users, tabs and    *)
(* conversations, however tasks and restarts interleave.                   *)
(***************************************************************************)
EXTENDS ConnectionManager, TLAPS

\* The steps of a task that has begun and not ended in the regular way; and
\* those between SADD and SREM, in which Redis may hold its id.
Begun(c) == pc[c] \notin {"new", "gone"}
Counted(c) == pc[c] \notin {"new", "sadd", "recount", "delete", "offline", "gone"}

\* A task that is about to view a conversation knows which.
Aimed(c) ==
  /\ pc[c] = "view" => active[c] # None
  /\ pc[c] \in {"leave", "switch"} => next[c] # None

\* Redis holds the ids of tasks between SADD and SREM only; and a user who is online
\* has a task that is still to find itself the last one, or to be lost.
CInv ==
  /\ TypeOK
  /\ \A c \in Conns : Aimed(c)
  /\ \A c \in ids : Counted(c)
  /\ \A u \in online : \E c \in ConnsOf(u) : Begun(c)
  /\ NoGhostMember

-----------------------------------------------------------------------------

LEMMA InitCInv == Init => CInv
BY DEF Init, CInv, Aimed, TypeOK, Steps, NoGhostMember

LEMMA TaskTypes ==
  ASSUME CInv, NEW c \in Conns, Connect(c) \/ Loop(c) \/ Disconnect(c)
  PROVE  TypeOK' /\ \A d \in Conns : Aimed(d)'
<1> USE UserOfAssumption, InstanceOfAssumption, NoneAssumption DEF CInv, Aimed, TypeOK, Steps, Goto
<1>1. CASE Connect(c)
  BY <1>1 DEF Connect, Accept, AddId, CountIds, MarkOnline, Enter, Join
<1>2. CASE Loop(c)
  <2>1. CASE \E v \in Conversations : ViewOther(c, v) \/ View(c, v)
    BY <2>1 DEF ViewOther, View
  <2>2. CASE LeaveOld(c) \/ Switch(c) \/ Leave(c) \/ RemoveViewer(c)
    BY <2>2 DEF LeaveOld, Switch, Leave, RemoveViewer
  <2>3. CASE AddViewer(c)
    BY <2>3 DEF AddViewer, Join
  <2>4. CASE Focus(c) \/ Unfocus(c)
    BY <2>4 DEF Focus, Unfocus, memory
  <2>5. QED
    BY <1>2, <2>1, <2>2, <2>3, <2>4 DEF Loop
<1>3. CASE Disconnect(c)
  <2>1. CASE CloseViewing(c) \/ ForgetViewer(c) \/ Drop(c) \/ Close(c)
    BY <2>1 DEF CloseViewing, ForgetViewer, Drop, Close, Forget
  <2>2. CASE RemoveId(c) \/ Recount(c) \/ DeleteIds(c) \/ SetOffline(c)
    BY <2>2 DEF RemoveId, Recount, DeleteIds, SetOffline
  <2>3. QED
    BY <1>3, <2>1, <2>2 DEF Disconnect
<1>4. QED
  BY <1>1, <1>2, <1>3

LEMMA RestartTypes ==
  ASSUME CInv, NEW i \in Instances, Restart(i)
  PROVE  TypeOK' /\ \A d \in Conns : Aimed(d)'
BY DEF CInv, Aimed, TypeOK, Steps, Restart

-----------------------------------------------------------------------------
(* Ids, and who is online.                                                 *)

\* Other tasks do not move.
LEMMA OthersWait ==
  ASSUME TypeOK, NEW c \in Conns, Connect(c) \/ Loop(c) \/ Disconnect(c)
  PROVE  /\ pc' \in [Conns -> Steps]
         /\ \A d \in Conns \ {c} : pc'[d] = pc[d]
         /\ Begun(c) => Begun(c)' \/ pc[c] \in {"recount", "offline"}
BY DEF TypeOK, Steps, Goto, Begun, memory, Connect, Accept, AddId, CountIds, MarkOnline, Enter, Loop,
   ViewOther, View, LeaveOld, Switch, AddViewer, Leave, RemoveViewer, Focus, Unfocus,
   Disconnect, CloseViewing, ForgetViewer, Drop, Close, RemoveId, Recount, DeleteIds, SetOffline

LEMMA TaskIds ==
  ASSUME CInv, NEW c \in Conns, Connect(c) \/ Loop(c) \/ Disconnect(c)
  PROVE  \A d \in ids' : Counted(d)'
<1>1. /\ TypeOK /\ \A d \in ids : Counted(d) /\ d \in Conns
      /\ \A d \in Conns \ {c} : pc'[d] = pc[d]
  BY OthersWait DEF CInv, TypeOK
<1>2. ids' \subseteq ids \cup {c} /\ (c \in ids' => Counted(c)')
  <2> USE <1>1 DEF TypeOK, Goto, Counted
  <2>1. CASE Connect(c)
    BY <2>1 DEF Connect, Accept, AddId, CountIds, MarkOnline, Enter
  <2>2. CASE Loop(c)
    BY <2>2 DEF Loop, ViewOther, View, LeaveOld, Switch, AddViewer, Leave, RemoveViewer, Focus,
         Unfocus, memory
  <2>3. CASE Disconnect(c)
    BY <2>3 DEF Disconnect, CloseViewing, ForgetViewer, Drop, Close, RemoveId, Recount, DeleteIds,
         SetOffline
  <2>4. QED
    BY <2>1, <2>2, <2>3
<1>3. QED
  BY <1>1, <1>2 DEF Counted

LEMMA TaskOnline ==
  ASSUME CInv, NEW c \in Conns, Connect(c) \/ Loop(c) \/ Disconnect(c)
  PROVE  \A u \in online' : \E d \in ConnsOf(u) : Begun(d)'
<1> SUFFICES ASSUME NEW u \in online' PROVE \E d \in ConnsOf(u) : Begun(d)'
  OBVIOUS
<1>1. /\ TypeOK /\ pc' \in [Conns -> Steps]
      /\ \A d \in Conns \ {c} : pc'[d] = pc[d]
      /\ Begun(c) => Begun(c)' \/ pc[c] \in {"recount", "offline"}
  BY OthersWait DEF CInv
<1>2. CASE MarkOnline(c) \/ Focus(c)
  <2>1. online' = online \cup {UserOf[c]} /\ Begun(c)'
    BY <1>1, <1>2 DEF MarkOnline, Focus, memory, Goto, TypeOK, Begun
  <2>2. CASE u = UserOf[c]
    BY <2>1, <2>2 DEF ConnsOf
  <2>3. CASE u # UserOf[c]
    BY <1>1, <2>1, <2>3 DEF CInv, ConnsOf, Begun
  <2>4. QED
    BY <2>2, <2>3
<1>3. CASE SetOffline(c)
  <2>1. u \in online /\ u # UserOf[c]
    BY <1>3 DEF SetOffline
  <2>2. QED
    BY <1>1, <2>1 DEF CInv, ConnsOf, Begun
<1>4. CASE Recount(c)
  <2>1. u \in online /\ c \notin ids
    BY <1>4 DEF Recount, CInv, Counted
  <2>2. PICK d \in ConnsOf(u) : Begun(d)
    BY <2>1 DEF CInv
  <2>3. CASE d # c
    BY <1>1, <2>2, <2>3 DEF ConnsOf, Begun
  <2>4. CASE d = c /\ ids \cap ConnsOf(u) = {}
    BY <1>1, <1>4, <2>2, <2>4 DEF Recount, Goto, TypeOK, Begun, ConnsOf
  <2>5. CASE ids \cap ConnsOf(u) # {}
    <3>1. PICK e \in ids \cap ConnsOf(u) : TRUE
      BY <2>5
    <3>2. Begun(e) /\ e \in Conns \ {c}
      BY <2>1, <3>1 DEF CInv, Counted, Begun, ConnsOf
    <3>3. QED
      BY <1>1, <3>1, <3>2 DEF Begun
  <2>6. QED
    BY <2>3, <2>4, <2>5
<1>5. CASE ~(MarkOnline(c) \/ Focus(c) \/ SetOffline(c) \/ Recount(c))
  <2>1. u \in online
    BY <1>5 DEF Connect, Accept, AddId, CountIds, Enter, Loop, ViewOther, View, LeaveOld, Switch,
         AddViewer, Leave, RemoveViewer, Unfocus, Disconnect, CloseViewing, ForgetViewer, Drop,
         Close, RemoveId, DeleteIds
  <2>2. Begun(c) => Begun(c)'
    BY <1>1, <1>5 DEF Connect, Accept, AddId, CountIds, Enter, Loop, ViewOther, View, LeaveOld,
         Switch, AddViewer, Leave, RemoveViewer, Unfocus, memory, Disconnect, CloseViewing,
         ForgetViewer, Drop, Close, RemoveId, DeleteIds, Goto, TypeOK, Begun
  <2>3. QED
    BY <1>1, <2>1, <2>2 DEF CInv, ConnsOf, Begun
<1>6. QED
  BY <1>2, <1>3, <1>4, <1>5

-----------------------------------------------------------------------------
(* The local members of an instance.                                       *)

\* Joining adds a witness for what it adds, and takes none away.
LEMMA JoinGhosts ==
  ASSUME CInv, NEW c \in Conns, NEW C \in SUBSET Conversations, Join(c, C)
  PROVE  NoGhostMember'
<1>1. /\ local \in [Instances -> SUBSET (Users \X Conversations)]
      /\ joined \in [Conns -> SUBSET Conversations]
      /\ InstanceOf[c] \in Instances
  BY InstanceOfAssumption DEF CInv, TypeOK
<1>2. SUFFICES ASSUME NEW i \in Instances, NEW m \in local'[i]
               PROVE  \E d \in ConnsOf(m[1]) : InstanceOf[d] = i /\ m[2] \in joined'[d]
  BY DEF NoGhostMember
<1>3. \A d \in Conns : joined[d] \subseteq joined'[d]
  BY <1>1 DEF Join
<1>4. CASE m \in local[i]
  BY <1>3, <1>4 DEF CInv, NoGhostMember, ConnsOf
<1>5. CASE m \notin local[i]
  <2>1. i = InstanceOf[c] /\ m \in {UserOf[c]} \X C
    BY <1>1, <1>2, <1>5 DEF Join
  <2>2. m[1] = UserOf[c] /\ m[2] \in joined'[c]
    BY <1>1, <2>1 DEF Join
  <2>3. QED
    BY <2>1, <2>2 DEF ConnsOf
<1>6. QED
  BY <1>4, <1>5

\* A connection that goes takes with it all for which it was the witness, and what
\* it leaves has another.
LEMMA ForgetGhosts ==
  ASSUME CInv, NEW c \in Conns, Forget(c)
  PROVE  NoGhostMember'
<1>1. /\ local \in [Instances -> SUBSET (Users \X Conversations)]
      /\ joined \in [Conns -> SUBSET Conversations]
      /\ InstanceOf[c] \in Instances
  BY InstanceOfAssumption DEF CInv, TypeOK
<1>2. SUFFICES ASSUME NEW i \in Instances, NEW m \in local'[i]
               PROVE  \E d \in ConnsOf(m[1]) : InstanceOf[d] = i /\ m[2] \in joined'[d]
  BY DEF NoGhostMember
<1>3. /\ m \in local[i]
      /\ i = InstanceOf[c] => m \notin {UserOf[c]} \X joined[c]
  BY <1>1, <1>2 DEF Forget
<1>4. PICK d \in ConnsOf(m[1]) : InstanceOf[d] = i /\ m[2] \in joined[d]
  BY <1>3 DEF CInv, NoGhostMember
<1>5. m \in Users \X Conversations
  BY <1>1, <1>3
<1>6. d # c
  BY <1>3, <1>4, <1>5 DEF ConnsOf
<1>7. joined'[d] = joined[d]
  BY <1>1, <1>6 DEF Forget, ConnsOf
<1>8. QED
  BY <1>4, <1>7

LEMMA TaskGhosts ==
  ASSUME CInv, NEW c \in Conns, Connect(c) \/ Loop(c) \/ Disconnect(c)
  PROVE  NoGhostMember'
<1>1. CASE Enter(c)
  BY <1>1, JoinGhosts DEF Enter
<1>2. CASE AddViewer(c)
  <2>1. active[c] \in Conversations
    BY <1>2 DEF CInv, TypeOK, Aimed, AddViewer
  <2>2. QED
    BY <1>2, <2>1, JoinGhosts DEF AddViewer
<1>3. CASE Drop(c) \/ Close(c)
  BY <1>3, ForgetGhosts DEF Drop, Close
<1>4. CASE UNCHANGED <<local, joined>>
  BY <1>4 DEF CInv, NoGhostMember
<1>5. QED
  BY <1>1, <1>2, <1>3, <1>4 DEF Connect, Accept, AddId, CountIds, MarkOnline, Loop, ViewOther, View,
     LeaveOld, Switch, Leave, RemoveViewer, Focus, Unfocus, memory, Disconnect, CloseViewing,
     ForgetViewer, RemoveId, Recount, DeleteIds, SetOffline

-----------------------------------------------------------------------------

LEMMA RestartInv ==
  ASSUME CInv, NEW i \in Instances, Restart(i)
  PROVE  CInv'
<1> DEFINE mine == {c \in Conns : InstanceOf[c] = i /\ pc[c] \notin {"new", "gone", "lost"}}
<1>1. /\ pc' = [c \in Conns |-> IF c \in mine THEN "lost" ELSE pc[c]]
      /\ joined' = [c \in Conns |-> IF c \in mine THEN {} ELSE joined[c]]
      /\ local' = [local EXCEPT ![i] = {}]
      /\ ids' \subseteq ids /\ online' \subseteq online
  BY DEF Restart
<1>2. /\ ids \subseteq Conns
      /\ local \in [Instances -> SUBSET (Users \X Conversations)]
  BY DEF CInv, TypeOK
<1>3. \A d \in ids' : Counted(d)'
  BY <1>1, <1>2 DEF CInv, Counted
<1>4. \A u \in online' : \E d \in ConnsOf(u) : Begun(d)'
  BY <1>1 DEF CInv, Begun, ConnsOf
<1>5. NoGhostMember'
  <2>1. SUFFICES ASSUME NEW j \in Instances, NEW m \in local'[j]
                 PROVE  \E d \in ConnsOf(m[1]) : InstanceOf[d] = j /\ m[2] \in joined'[d]
    BY DEF NoGhostMember
  <2>2. j # i /\ m \in local[j]
    BY <1>1, <1>2, <2>1
  <2>3. PICK d \in ConnsOf(m[1]) : InstanceOf[d] = j /\ m[2] \in joined[d]
    BY <2>2 DEF CInv, NoGhostMember
  <2>4. QED
    BY <1>1, <2>2, <2>3 DEF ConnsOf
<1>6. QED
  BY <1>3, <1>4, <1>5, RestartTypes DEF CInv

LEMMA NextCInv == CInv /\ [Next]_vars => CInv'
<1> SUFFICES ASSUME CInv, [Next]_vars PROVE CInv'
  OBVIOUS
<1>1. ASSUME NEW c \in Conns, Connect(c) \/ Loop(c) \/ Disconnect(c) PROVE CInv'
  BY <1>1, TaskTypes, TaskIds, TaskOnline, TaskGhosts DEF CInv
<1>2. ASSUME NEW i \in Instances, Restart(i) PROVE CInv'
  BY <1>2, RestartInv
<1>3. CASE UNCHANGED vars
  BY <1>3 DEF vars, memory, CInv, TypeOK, Aimed, Counted, Begun, NoGhostMember, ConnsOf
<1>4. QED
  BY <1>1, <1>2, <1>3 DEF Next

LEMMA CInvHolds == Spec => []CInv
BY InitCInv, NextCInv, PTL DEF Spec

\* Every variable keeps its type, and manager.users has exactly the connections
\* that are accepted and not yet disconnected.
THEOREM ConnectionsTypesCorrect == Spec => []TypeOK
<1>1. CInv => TypeOK
  BY DEF CInv
<1>2. QED
  BY <1>1, CInvHolds, PTL

\* Of any number of tabs that connect, focus and disconnect at the same time the
\* last to count the ids takes the user offline, unless an instance died.
THEOREM LastTabGoesOffline == Spec => []OfflineWhenGone
<1>1. CInv => OfflineWhenGone
  BY DEF CInv, OfflineWhenGone, Begun, Counted, ConnsOf
<1>2. QED
  BY <1>1, CInvHolds, PTL

\* An instance never keeps a local member of a conversation without a connection
\* that joined it.
THEOREM MembersAreConnected == Spec => []NoGhostMember
<1>1. CInv => NoGhostMember
  BY DEF CInv
<1>2. QED
  BY <1>1, CInvHolds, PTL
==============================================================================

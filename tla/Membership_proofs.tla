-------------------------- MODULE Membership_proofs --------------------------
(***************************************************************************)
(* Theorems about Membership, for any users, conversations and concurrent  *)
(* requests, with requests that fail after any of their steps.             *)
(***************************************************************************)
EXTENDS Membership, FiniteSetTheorems, TLAPS

-----------------------------------------------------------------------------
(* Types, and what a request is about at each of its steps.                *)

Shape(q) ==
  /\ pc[q] \notin {"cache", "unlist", "read", "write"} => owed[q] = {}
  /\ pc[q] = "check" => /\ req[q].conv \in Conversations
                        /\ req[q].op \in {"add", "remove", "promote", "dismiss"}
  /\ pc[q] = "commit" =>
       IF req[q].op \in {"create", "dm"} THEN req[q].by \in Users
       ELSE req[q].conv \in Conversations
  /\ pc[q] \in {"cache", "unlist"} =>
       /\ req[q].conv \in Conversations
       /\ req[q].op \in {"add", "leave", "remove"}
       /\ pc[q] = "unlist" => req[q].op # "add"
       /\ owed[q] = {req[q].conv} \X req[q].on
  /\ pc[q] \in {"read", "write"} =>
       /\ req[q].conv \in Conversations
       /\ req[q].op \notin {"add", "leave", "remove"}
       /\ owed[q] \subseteq {req[q].conv} \X Users
       /\ owed[q] # {} => req[q].op \in {"create", "dm"}
  /\ pc[q] = "write" => req[q].seen \subseteq {req[q].conv} \X Users

TInv == MembershipTypeOK /\ \A q \in Requests : Shape(q)

\* What a step of q leaves alone of the other requests.
Alone(q) ==
  \A p \in Requests \ {q} : /\ pc'[p] = pc[p] /\ req'[p] = req[p] /\ owed'[p] = owed[p]
                            /\ late[p] \subseteq late'[p]

LEMMA NoneIsNone ==
  /\ None \notin Users /\ None \notin Conversations /\ None \notin Requests
  /\ None \notin Roles
BY NoneAssumption

\* A step of q keeps the types and shapes if it does so for q.
LEMMA LocalShape ==
  ASSUME TInv, NEW q \in Requests, Alone(q), MembershipTypeOK', Shape(q)'
  PROVE  TInv'
<1>1. ASSUME NEW p \in Requests \ {q} PROVE Shape(p)'
  <2>1. Shape(p) /\ pc'[p] = pc[p] /\ req'[p] = req[p] /\ owed'[p] = owed[p]
    BY DEF TInv, Alone
  <2>2. QED
    BY <2>1 DEF Shape
<1>2. QED
  BY <1>1 DEF TInv

LEMMA RequestTypes ==
  /\ NoRequest \in Request
  /\ \A r \in Request : /\ Kept(r) \in Request /\ Kept(r).op \in {"none", "dm"}
                        /\ r.op = "dm" => /\ Kept(r).op = "dm" /\ Kept(r).by = r.by
                                          /\ Kept(r).after = r.after
                        /\ r.op # "dm" => Kept(r) = NoRequest
<1>1. NoRequest \in Request
  BY DEF NoRequest, Request
<1>2. ASSUME NEW r \in Request
      PROVE  /\ Kept(r) \in Request /\ Kept(r).op \in {"none", "dm"}
             /\ r.op = "dm" => /\ Kept(r).op = "dm" /\ Kept(r).by = r.by
                               /\ Kept(r).after = r.after
             /\ r.op # "dm" => Kept(r) = NoRequest
  <2>1. CASE r.op = "dm"
    <3>1. Kept(r) = [op |-> "dm", by |-> r.by, conv |-> None, on |-> {}, row |-> NoRow,
                     seen |-> {}, after |-> r.after]
      BY <2>1 DEF Kept, NoRequest
    <3>2. QED
      BY <2>1, <3>1 DEF Request
  <2>2. CASE r.op # "dm"
    BY <1>1, <2>2 DEF Kept, NoRequest
  <2>3. QED
    BY <2>1, <2>2
<1>3. QED
  BY <1>1, <1>2

LEMMA FinishFacts ==
  ASSUME MembershipTypeOK, NEW q \in Requests, Finish(q)
  PROVE  /\ pc' \in [Requests -> Steps] /\ req' \in [Requests -> Request]
         /\ owed' \in [Requests -> SUBSET Pairs] /\ late' \in [Requests -> SUBSET Pairs]
         /\ Alone(q) /\ Shape(q)'
         /\ pc'[q] = "done" /\ owed'[q] = {} /\ req'[q] = Kept(req[q])
         /\ \A p \in Requests \ {q} : late'[p] = late[p]
<1>1. /\ pc' = [pc EXCEPT ![q] = "done"] /\ req' = [req EXCEPT ![q] = Kept(req[q])]
      /\ owed' = [owed EXCEPT ![q] = {}] /\ late' = [late EXCEPT ![q] = {}]
      /\ Kept(req[q]) \in Request
  BY RequestTypes DEF Finish, Goto, MembershipTypeOK
<1>2. QED
  BY <1>1 DEF MembershipTypeOK, Alone, Shape, Steps

LEMMA OutdateFacts ==
  ASSUME MembershipTypeOK, NEW q \in Requests, NEW P \in SUBSET Pairs, Outdate(q, P)
  PROVE  /\ late' \in [Requests -> SUBSET Pairs]
         /\ late'[q] = late[q]
         /\ \A p \in Requests \ {q} :
              late'[p] = IF pc[p] \in {"cache", "unlist", "write", "writeall"}
                         THEN late[p] \cup P ELSE late[p]
BY DEF MembershipTypeOK, Outdate

-----------------------------------------------------------------------------
(* The checks ask for something new.                                       *)

\* The first step of a request: r at step s.
Asked(q, r, s) ==
  /\ Ask(q, r, s) /\ r \in Request
  /\ \/ s = "check" /\ r.op \in {"add", "remove", "promote", "dismiss"} /\ r.conv \in Conversations
     \/ s = "commit" /\ r.op \in {"create", "dm"}
     \/ /\ s = "commit" /\ r.conv \in Conversations
        /\ r.op \in {"join", "leave", "delgroup", "deldm"}
     \/ s = "read" /\ r.op = "patch" /\ r.conv \in Conversations
     \/ s = "readall" /\ r.op = "sync"
  /\ r.op \in {"join", "leave", "delgroup"} => kind[r.conv] \in Groups
  /\ r.op \in {"add", "remove", "promote", "dismiss"} => \E u \in Users : IsManager(r.conv, u)
  /\ r.op \in {"remove", "promote", "dismiss"} => \E t \in Users : r.on = {t}
  /\ r.op = "leave" => r.on = {r.by}
  /\ r.op = "deldm" => kind[r.conv] = "dm"
  /\ r.op \in {"create", "dm"} => r.by \in Users
  /\ r.op = "dm" => /\ r.after = Ended
                    /\ \E t \in Users \ {r.by} : r.on = {t} /\ NoneShared(r.by, t)

LEMMA AskShape ==
  ASSUME TInv, NEW q \in Requests, NEW r, NEW s, Asked(q, r, s)
  PROVE  TInv'
<1>1. /\ pc[q] = "new" /\ pc' = [pc EXCEPT ![q] = s] /\ req' = [req EXCEPT ![q] = r]
      /\ UNCHANGED <<kind, row, members, listed, owed, late, excused>>
  BY DEF Asked, Ask, database, cache
<1>2. s \in Steps /\ r \in Request /\ owed[q] = {}
  BY <1>1 DEF Asked, Steps, TInv, Shape
<1>3. MembershipTypeOK'
  BY <1>1, <1>2 DEF TInv, MembershipTypeOK
<1>4. Alone(q)
  BY <1>1 DEF TInv, MembershipTypeOK, Alone
<1>5. pc'[q] = s /\ req'[q] = r /\ owed'[q] = {}
  BY <1>1, <1>2 DEF TInv, MembershipTypeOK
<1>6. Shape(q)'
  BY <1>5 DEF Asked, Shape
<1>7. QED
  BY <1>3, <1>4, <1>6, LocalShape

LEMMA AsksFacts ==
  ASSUME NEW op \in {"create", "join", "add", "leave", "remove", "promote", "dismiss",
                     "dm", "delgroup", "deldm", "sync", "patch"},
         NEW u \in Users \cup {None}, NEW v \in Conversations \cup {None}, NEW P \in SUBSET Users
  PROVE  /\ Asks(op, u, v, P) \in Request
         /\ Asks(op, u, v, P) = [op |-> op, by |-> u, conv |-> v, on |-> P,
                                 row |-> NoRow, seen |-> {}, after |-> {}]
<1>1. Asks(op, u, v, P) = [op |-> op, by |-> u, conv |-> v, on |-> P,
                           row |-> NoRow, seen |-> {}, after |-> {}]
  BY DEF Asks
<1>2. QED
  BY <1>1 DEF Request

LEMMA ChecksAsk ==
  ASSUME MembershipTypeOK, NEW q \in Requests, Check(q), ~FindNew(q), ~FindTarget(q)
  PROVE  \E r \in Request, s \in Steps : Asked(q, r, s)
<1> USE DEF Steps
<1>1. CASE \E u \in Users, P \in SUBSET Users : CreateConversation(q, u, P)
  <2>1. PICK u \in Users, P \in SUBSET Users : CreateConversation(q, u, P)
    BY <1>1
  <2>2. Asked(q, Asks("create", u, None, P), "commit")
    BY <2>1, AsksFacts DEF CreateConversation, Asked
  <2>3. QED
    BY <2>2 DEF Asked
<1>2. CASE \E u, t \in Users : CreateDM(q, u, t)
  <2>1. PICK u \in Users, t \in Users : CreateDM(q, u, t)
    BY <1>2
  <2> DEFINE a == Asks("dm", u, None, {t})
             r == [a EXCEPT !.after = Ended]
  <2>2. r = [op |-> "dm", by |-> u, conv |-> None, on |-> {t}, row |-> NoRow,
             seen |-> {}, after |-> Ended]
    <3>1. a = [op |-> "dm", by |-> u, conv |-> None, on |-> {t}, row |-> NoRow,
               seen |-> {}, after |-> {}]
      BY AsksFacts
    <3>2. QED
      BY <3>1
  <2>3. Ended \in SUBSET Requests
    BY DEF Ended
  <2>4. r \in Request
    BY <2>2, <2>3 DEF Request
  <2>5. Asked(q, r, "commit")
    BY <2>1, <2>2, <2>4 DEF CreateDM, Asked
  <2>6. QED
    BY <2>4, <2>5
<1>3. CASE \E u \in Users, v \in Conversations : LeaveGroup(q, u, v)
  <2>1. PICK u \in Users, v \in Conversations : LeaveGroup(q, u, v)
    BY <1>3
  <2> DEFINE a == Asks("leave", u, v, {u})
             r == [a EXCEPT !.row = row[v][u]]
  <2>2. r = [op |-> "leave", by |-> u, conv |-> v, on |-> {u}, row |-> row[v][u],
             seen |-> {}, after |-> {}]
    <3>1. a = [op |-> "leave", by |-> u, conv |-> v, on |-> {u}, row |-> NoRow,
               seen |-> {}, after |-> {}]
      BY AsksFacts
    <3>2. QED
      BY <3>1
  <2>3. row[v][u] \in Rows \cup {NoRow}
    BY DEF MembershipTypeOK
  <2>4. r \in Request
    BY <2>2, <2>3 DEF Request
  <2>5. Asked(q, r, "commit")
    BY <2>1, <2>2, <2>4 DEF LeaveGroup, Asked
  <2>6. QED
    BY <2>4, <2>5
<1>4. CASE \E u \in Users, v \in Conversations :
             JoinGroup(q, u, v) \/ DeleteGroup(q, u, v) \/ DeleteDM(q, u, v)
  <2>1. PICK u \in Users, v \in Conversations :
               JoinGroup(q, u, v) \/ DeleteGroup(q, u, v) \/ DeleteDM(q, u, v)
    BY <1>4
  <2>2. CASE JoinGroup(q, u, v)
    <3>1. Asked(q, Asks("join", u, v, {u}), "commit")
      BY <2>2, AsksFacts DEF JoinGroup, Asked
    <3>2. QED
      BY <3>1 DEF Asked
  <2>3. CASE DeleteGroup(q, u, v)
    <3>1. Asked(q, Asks("delgroup", u, v, {}), "commit")
      BY <2>3, AsksFacts DEF DeleteGroup, Asked, Groups
    <3>2. QED
      BY <3>1 DEF Asked
  <2>4. CASE DeleteDM(q, u, v)
    <3>1. Asked(q, Asks("deldm", u, v, {}), "commit")
      BY <2>4, AsksFacts DEF DeleteDM, Asked
    <3>2. QED
      BY <3>1 DEF Asked
  <2>5. QED
    BY <2>1, <2>2, <2>3, <2>4
<1>5. CASE \E u \in Users, v \in Conversations, P \in SUBSET Users : AddMember(q, u, v, P)
  <2>1. PICK u \in Users, v \in Conversations, P \in SUBSET Users : AddMember(q, u, v, P)
    BY <1>5
  <2>2. Asked(q, Asks("add", u, v, P), "check")
    BY <2>1, AsksFacts DEF AddMember, Asked
  <2>3. QED
    BY <2>2 DEF Asked
<1>6. CASE \E u \in Users, v \in Conversations, t \in Users :
             RemoveMember(q, u, v, t) \/ MakeAdmin(q, u, v, t) \/ DismissAdmin(q, u, v, t)
  <2>1. PICK u \in Users, v \in Conversations, t \in Users :
               RemoveMember(q, u, v, t) \/ MakeAdmin(q, u, v, t) \/ DismissAdmin(q, u, v, t)
    BY <1>6
  <2>2. PICK op \in {"remove", "promote", "dismiss"} :
          Ask(q, Asks(op, u, v, {t}), "check") /\ IsManager(v, u)
    BY <2>1 DEF RemoveMember, MakeAdmin, DismissAdmin, IsManager, Managers
  <2>3. Asked(q, Asks(op, u, v, {t}), "check")
    BY <2>2, AsksFacts DEF Asked
  <2>4. QED
    BY <2>3 DEF Asked
<1>7. CASE \E u \in Users, v \in Conversations : PatchConversation(q, u, v)
  <2>1. PICK u \in Users, v \in Conversations : PatchConversation(q, u, v)
    BY <1>7
  <2>2. Asked(q, Asks("patch", u, v, {}), "read")
    BY <2>1, AsksFacts DEF PatchConversation, Asked
  <2>3. QED
    BY <2>2 DEF Asked
<1>8. CASE SyncConversations(q)
  <2>1. Asked(q, Asks("sync", None, None, {}), "readall")
    BY <1>8, AsksFacts DEF SyncConversations, Asked
  <2>2. QED
    BY <2>1 DEF Asked
<1>9. QED
  BY <1>1, <1>2, <1>3, <1>4, <1>5, <1>6, <1>7, <1>8 DEF Check

-----------------------------------------------------------------------------
(* What the commits do to the rows, and their types.                       *)

TypedRows == row \in [Conversations -> [Users -> Rows \cup {NoRow}]]

LEMMA RowFacts ==
  /\ NoRow \notin Rows
  /\ \A q \in Requests, r \in Roles :
       /\ [id |-> q, role |-> r] \in Rows
       /\ [id |-> q, role |-> r].id = q /\ [id |-> q, role |-> r].role = r
  /\ NoRow.role = None
BY NoneIsNone DEF NoRow, Rows

\* Of v, the rows of the users N are inserted, deleted or changed; no other is.
RowsOnlyFor(v, N) ==
  \A w \in Conversations, u \in Users : ~(w = v /\ u \in N) => row'[w][u] = row[w][u]

LEMMA InsertFacts ==
  ASSUME TypedRows, NEW q \in Requests, NEW v \in Conversations, NEW N \in SUBSET Users,
         NEW f, N = DOMAIN f, \A u \in N : f[u] \in Roles, Insert(q, v, f)
  PROVE  /\ TypedRows'
         /\ RowsOnlyFor(v, N)
         /\ \A u \in N : /\ row'[v][u] # NoRow
                          /\ row'[v][u].id = q /\ row'[v][u].role = f[u]
<1> DEFINE here == [u \in Users |-> IF u \in N THEN [id |-> q, role |-> f[u]] ELSE row[v][u]]
<1>1. row' = [row EXCEPT ![v] = here]
  BY DEF Insert
<1>2. here \in [Users -> Rows \cup {NoRow}]
  BY RowFacts DEF TypedRows
<1>3. QED
  BY <1>1, <1>2, RowFacts DEF TypedRows, RowsOnlyFor

LEMMA CommitInsertFacts ==
  ASSUME TInv, NEW q \in Requests, NEW op \in {"join", "add"}, CommitInsert(q, op)
  PROVE  /\ pc[q] = "commit" /\ req[q].op = op
         /\ req[q].conv \in Conversations /\ req[q].on \in SUBSET Users
         /\ {req[q].conv} \X req[q].on \in SUBSET Pairs
         /\ \A t \in req[q].on : ~Participates(req[q].conv, t)
         /\ TypedRows'
         /\ RowsOnlyFor(req[q].conv, req[q].on)
         /\ \A u \in req[q].on : /\ row'[req[q].conv][u] # NoRow
                                 /\ row'[req[q].conv][u].id = q
                                 /\ row'[req[q].conv][u].role = "MEMBER"
         /\ Outdate(q, {req[q].conv} \X req[q].on)
         /\ UNCHANGED <<kind, members, listed>>
<1>1. /\ pc[q] = "commit" /\ req[q].op = op
      /\ \A t \in req[q].on : ~Participates(req[q].conv, t)
      /\ Insert(q, req[q].conv, [u \in req[q].on |-> "MEMBER"])
      /\ Outdate(q, {req[q].conv} \X req[q].on)
      /\ UNCHANGED <<kind, members, listed>>
  BY DEF CommitInsert, cache
<1>2. req[q].conv \in Conversations /\ req[q].on \in SUBSET Users
  BY <1>1 DEF TInv, Shape, MembershipTypeOK, Request
<1> DEFINE f == [u \in req[q].on |-> "MEMBER"]
<1>3. req[q].on = DOMAIN f /\ TypedRows /\ \A u \in req[q].on : f[u] = "MEMBER" /\ f[u] \in Roles
  BY DEF TInv, MembershipTypeOK, TypedRows, Roles
<1> HIDE DEF f
<1>4. /\ TypedRows' /\ RowsOnlyFor(req[q].conv, req[q].on)
      /\ \A u \in req[q].on : /\ row'[req[q].conv][u] # NoRow
                              /\ row'[req[q].conv][u].id = q
                              /\ row'[req[q].conv][u].role = "MEMBER"
  <2>1. Insert(q, req[q].conv, f)
    BY <1>1 DEF f
  <2>2. QED
    BY <1>2, <1>3, <2>1, InsertFacts
<1>5. QED
  BY <1>1, <1>2, <1>4 DEF Pairs

\* The new conversation v of q, with the users N and q's rows for them.
LEMMA FoundFacts ==
  ASSUME TInv, NEW q \in Requests, NEW v \in Conversations, NEW k \in {"group", "dm"},
         NEW N \in SUBSET Users, NEW f \in [N -> Roles],
         pc[q] = "commit", req[q].op \in {"create", "dm"}, Found(q, v, k, f)
  PROVE  /\ TInv'
         /\ kind[v] = "absent" /\ kind' = [kind EXCEPT ![v] = k]
         /\ RowsOnlyFor(v, N)
         /\ \A u \in N : /\ row'[v][u] # NoRow
                          /\ row'[v][u].id = q /\ row'[v][u].role = f[u]
         /\ Alone(q) /\ pc'[q] = "read" /\ owed'[q] = {v} \X N
         /\ req'[q].op = req[q].op /\ req'[q].by = req[q].by /\ req'[q].after = req[q].after
         /\ Outdate(q, {v} \X N)
         /\ UNCHANGED <<members, listed, excused>>
<1> DEFINE P == {v} \X N
<1>1. /\ kind[v] = "absent" /\ kind' = [kind EXCEPT ![v] = k]
      /\ Insert(q, v, f)
      /\ req' = [req EXCEPT ![q].conv = v]
      /\ owed' = [owed EXCEPT ![q] = P]
      /\ Outdate(q, P)
      /\ pc' = [pc EXCEPT ![q] = "read"]
      /\ UNCHANGED <<members, listed, excused>>
  BY DEF Found, Goto, cache
<1>2. P \in SUBSET Pairs /\ MembershipTypeOK /\ TypedRows
  BY DEF Pairs, TInv, MembershipTypeOK, TypedRows
<1>3. /\ TypedRows'
      /\ RowsOnlyFor(v, N)
      /\ \A u \in N : /\ row'[v][u] # NoRow
                       /\ row'[v][u].id = q /\ row'[v][u].role = f[u]
  <2>1. Insert(q, v, f) /\ TypedRows
    BY <1>1, <1>2
  <2>2. N = DOMAIN f /\ \A u \in N : f[u] \in Roles
    OBVIOUS
  <2>3. QED
    BY <2>1, <2>2, InsertFacts
<1>4. /\ req' \in [Requests -> Request] /\ req'[q].conv = v
      /\ req'[q].op = req[q].op /\ req'[q].by = req[q].by /\ req'[q].after = req[q].after
      /\ \A p \in Requests \ {q} : req'[p] = req[p]
  <2>1. PICK r \in Request : r = req[q]
    BY <1>2 DEF MembershipTypeOK
  <2>2. req' = [req EXCEPT ![q] = [r EXCEPT !.conv = v]]
    BY <1>1, <2>1
  <2>3. /\ [r EXCEPT !.conv = v] \in Request /\ [r EXCEPT !.conv = v].conv = v
        /\ [r EXCEPT !.conv = v].op = r.op /\ [r EXCEPT !.conv = v].by = r.by
        /\ [r EXCEPT !.conv = v].after = r.after
    BY DEF Request
  <2>4. QED
    BY <1>2, <2>1, <2>2, <2>3 DEF MembershipTypeOK
<1>5. MembershipTypeOK'
  BY <1>1, <1>2, <1>3, <1>4, OutdateFacts DEF MembershipTypeOK, TypedRows, Kinds, Steps
<1>6. Alone(q) /\ pc'[q] = "read" /\ owed'[q] = P
  <2>1. \A p \in Requests \ {q} : late[p] \subseteq late'[p]
    BY <1>1, <1>2, OutdateFacts
  <2>2. QED
    BY <1>1, <1>2, <1>4, <2>1 DEF Alone, MembershipTypeOK
<1>7. Shape(q)'
  BY <1>4, <1>6 DEF Shape
<1>8. QED
  BY <1>1, <1>3, <1>4, <1>5, <1>6, <1>7, LocalShape

-----------------------------------------------------------------------------
(* The steps of a request that has begun, and what each changes.           *)

\* The request has ended or goes to the cache; nothing but its own is changed.
SameDatabase == kind' = kind /\ row' = row
SameCache == members' = members /\ listed' = listed
LateKept(q) == \A p \in Requests \ {q} : late'[p] = late[p]

LEMMA FindFacts ==
  ASSUME TInv, NEW q \in Requests, FindNew(q) \/ FindTarget(q)
  PROVE  /\ TInv' /\ Alone(q) /\ SameDatabase /\ SameCache /\ excused' = excused
         /\ LateKept(q)
         /\ pc[q] = "check" /\ owed'[q] = {}
         /\ \/ pc'[q] = "done" /\ req'[q] = Kept(req[q])
            \/ /\ pc'[q] = "commit" /\ late' = late
               /\ req'[q].op = req[q].op /\ req'[q].conv = req[q].conv
               /\ FindTarget(q) => /\ req'[q].on = req[q].on
                                   /\ \A t \in req[q].on :
                                        req[q].on = {t} =>
                                          /\ req'[q].row = row[req[q].conv][t]
                                          /\ row[req[q].conv][t].role \in MayBe(req[q].op)
               /\ FindNew(q) => req[q].op = "add"
<1>1. /\ pc[q] = "check" /\ req[q] \in Request /\ MembershipTypeOK
      /\ owed[q] = {} /\ req[q].conv \in Conversations
      /\ req[q].op \in {"add", "remove", "promote", "dismiss"}
      /\ UNCHANGED <<kind, row, members, listed, excused>>
  BY DEF FindNew, FindTarget, TInv, Shape, MembershipTypeOK, database, cache
<1>2. CASE Finish(q)
  BY <1>1, <1>2, FinishFacts, LocalShape DEF MembershipTypeOK, SameDatabase, SameCache, LateKept
<1>3. CASE /\ ~Finish(q)
           /\ FindNew(q)
  <2> DEFINE new == {t \in req[q].on : ~Participates(req[q].conv, t)}
  <2>1. PICK r \in Request : r = req[q]
    BY <1>1
  <2>2. /\ req' = [req EXCEPT ![q] = [r EXCEPT !.on = new]]
        /\ pc' = [pc EXCEPT ![q] = "commit"]
        /\ UNCHANGED <<owed, late>> /\ r.op = "add"
    BY <1>3, <2>1 DEF FindNew, Goto
  <2>3. /\ [r EXCEPT !.on = new] \in Request /\ [r EXCEPT !.on = new].op = r.op
        /\ [r EXCEPT !.on = new].conv = r.conv
    <3>1. new \in SUBSET Users
      BY <2>1 DEF Request
    <3>2. QED
      BY <3>1 DEF Request
  <2> HIDE DEF new
  <2>4. /\ pc'[q] = "commit" /\ owed'[q] = {} /\ req'[q] \in Request
        /\ req'[q].op = req[q].op /\ req'[q].conv = req[q].conv
        /\ Alone(q)
    BY <1>1, <2>1, <2>2, <2>3 DEF MembershipTypeOK, Alone
  <2>5. MembershipTypeOK'
    BY <1>1, <2>2, <2>3 DEF MembershipTypeOK, Steps
  <2>6. Shape(q)'
    BY <1>1, <2>1, <2>2, <2>4 DEF Shape
  <2>7. QED
    BY <1>1, <1>3, <2>1, <2>2, <2>4, <2>5, <2>6, LocalShape
       DEF SameDatabase, SameCache, LateKept, FindNew, FindTarget
<1>4. CASE ~Finish(q) /\ FindTarget(q)
  <2>1. PICK r \in Request : r = req[q]
    BY <1>1
  <2>2. PICK t \in req[q].on :
          /\ row[req[q].conv][t].role \in MayBe(req[q].op)
          /\ req' = [req EXCEPT ![q] = [r EXCEPT !.row = row[req[q].conv][t]]]
          /\ pc' = [pc EXCEPT ![q] = "commit"]
          /\ UNCHANGED <<owed, late>> /\ r.op # "add"
    BY <1>4, <2>1 DEF FindTarget, Goto
  <2>3. t \in Users
    BY <2>1, <2>2 DEF Request
  <2>4. r.conv \in Conversations
    BY <1>1, <2>1
  <2>5. row[r.conv][t] \in Rows \cup {NoRow}
    BY <1>1, <2>3, <2>4 DEF MembershipTypeOK
  <2> DEFINE r1 == [r EXCEPT !.row = row[r.conv][t]]
  <2>6. /\ r1 \in Request /\ r1.op = r.op /\ r1.on = r.on
        /\ r1.conv = r.conv /\ r1.row = row[r.conv][t]
    BY <2>5 DEF Request
  <2>7. req' = [req EXCEPT ![q] = r1]
    BY <2>1, <2>2
  <2> HIDE DEF r1
  <2>8. /\ pc'[q] = "commit" /\ owed'[q] = {} /\ req'[q] = r1
        /\ Alone(q)
    BY <1>1, <2>2, <2>6, <2>7 DEF MembershipTypeOK, Alone
  <2>9. MembershipTypeOK'
    BY <1>1, <2>2, <2>6, <2>7 DEF MembershipTypeOK, Steps
  <2>10. Shape(q)'
    BY <1>1, <2>1, <2>4, <2>6, <2>8 DEF Shape
  <2>11. QED
    BY <1>1, <1>4, <2>1, <2>2, <2>6, <2>8, <2>9, <2>10, LocalShape
       DEF SameDatabase, SameCache, LateKept, FindNew
<1>5. QED
  BY <1>2, <1>3, <1>4

\* The end of a request whose rows and cache stay as they are.
LEMMA EndFacts ==
  ASSUME TInv, NEW q \in Requests, Finish(q), kind' \in [Conversations -> Kinds], row' = row,
         members' \subseteq Pairs, listed' \subseteq Pairs,
         excused' \in [members : SUBSET Pairs, listed : SUBSET Pairs]
  PROVE  /\ TInv' /\ Alone(q) /\ LateKept(q)
         /\ pc'[q] = "done" /\ owed'[q] = {} /\ req'[q] = Kept(req[q])
BY FinishFacts, LocalShape DEF TInv, MembershipTypeOK, LateKept

LEMMA InsertFailsFacts ==
  ASSUME TInv, NEW q \in Requests, InsertFails(q)
  PROVE  /\ TInv' /\ Alone(q) /\ LateKept(q)
         /\ pc'[q] = "done" /\ owed'[q] = {} /\ req'[q] = Kept(req[q])
         /\ SameDatabase /\ SameCache /\ excused' = excused
         /\ pc[q] = "commit" /\ req[q].op \in {"join", "add"}
<1>1. /\ UNCHANGED <<kind, row, members, listed, excused>> /\ Finish(q)
      /\ pc[q] = "commit" /\ req[q].op \in {"join", "add"}
  BY DEF InsertFails, database, cache
<1>2. QED
  BY <1>1, EndFacts DEF TInv, MembershipTypeOK, SameDatabase, SameCache

LEMMA CommitDeleteGroupFacts ==
  ASSUME TInv, NEW q \in Requests, CommitDeleteGroup(q)
  PROVE  /\ TInv' /\ Alone(q) /\ LateKept(q)
         /\ pc'[q] = "done" /\ owed'[q] = {} /\ req'[q] = Kept(req[q])
         /\ row' = row /\ SameCache /\ excused' = excused
         /\ pc[q] = "commit" /\ req[q].op = "delgroup"
         /\ kind' = [kind EXCEPT ![req[q].conv] = "deleted"]
<1>1. /\ UNCHANGED <<row, members, listed, excused>> /\ Finish(q)
      /\ pc[q] = "commit" /\ req[q].op = "delgroup"
      /\ kind' = [kind EXCEPT ![req[q].conv] = "deleted"]
  BY DEF CommitDeleteGroup, cache
<1>2. kind' \in [Conversations -> Kinds]
  BY <1>1 DEF TInv, MembershipTypeOK, Kinds
<1>3. QED
  BY <1>1, <1>2, EndFacts DEF TInv, MembershipTypeOK, SameCache

\* A step of q that changes no other request, from commit to what follows.
LEMMA CommitAddFacts ==
  ASSUME TInv, NEW q \in Requests, CommitAdd(q)
  PROVE  /\ TInv' /\ Alone(q)
         /\ pc'[q] = "cache" /\ owed'[q] = {req[q].conv} \X req[q].on /\ req' = req
         /\ SameCache /\ excused' = excused
<1>1. /\ CommitInsert(q, "add") /\ owed' = [owed EXCEPT ![q] = {req[q].conv} \X req[q].on]
      /\ pc' = [pc EXCEPT ![q] = "cache"] /\ UNCHANGED <<req, excused>>
  BY DEF CommitAdd, Goto
<1>2. /\ {req[q].conv} \X req[q].on \in SUBSET Pairs /\ req[q].conv \in Conversations
      /\ TypedRows' /\ Outdate(q, {req[q].conv} \X req[q].on)
      /\ UNCHANGED <<kind, members, listed>> /\ req[q].op = "add"
  BY <1>1, CommitInsertFacts
<1>3. /\ late' \in [Requests -> SUBSET Pairs]
      /\ \A p \in Requests \ {q} : late[p] \subseteq late'[p]
  BY <1>2, OutdateFacts DEF TInv
<1>4. MembershipTypeOK'
  BY <1>1, <1>2, <1>3 DEF TInv, MembershipTypeOK, TypedRows, Steps
<1>5. Alone(q) /\ pc'[q] = "cache" /\ owed'[q] = {req[q].conv} \X req[q].on
  BY <1>1, <1>3 DEF TInv, MembershipTypeOK, Alone
<1>6. Shape(q)'
  BY <1>1, <1>2, <1>5 DEF Shape
<1>7. QED
  BY <1>1, <1>2, <1>4, <1>5, <1>6, LocalShape DEF SameCache

LEMMA ExcuseFacts ==
  ASSUME MembershipTypeOK, NEW P \in SUBSET Pairs, Excuse(P)
  PROVE  /\ excused' \in [members : SUBSET Pairs, listed : SUBSET Pairs]
         /\ excused'.members = excused.members \cup P
         /\ excused'.listed = excused.listed \cup P
BY DEF MembershipTypeOK, Excuse

LEMMA CommitJoinFacts ==
  ASSUME TInv, NEW q \in Requests, CommitJoin(q)
  PROVE  /\ TInv' /\ Alone(q)
         /\ pc'[q] = "done" /\ owed'[q] = {} /\ req'[q] = NoRequest
         /\ SameCache
         /\ excused'.members = excused.members \cup ({req[q].conv} \X req[q].on)
         /\ excused'.listed = excused.listed \cup ({req[q].conv} \X req[q].on)
<1>1. /\ CommitInsert(q, "join") /\ Excuse({req[q].conv} \X req[q].on)
      /\ pc' = [pc EXCEPT ![q] = "done"] /\ req' = [req EXCEPT ![q] = NoRequest]
      /\ UNCHANGED owed
  BY DEF CommitJoin, Goto
<1>2. /\ {req[q].conv} \X req[q].on \in SUBSET Pairs
      /\ TypedRows' /\ Outdate(q, {req[q].conv} \X req[q].on)
      /\ UNCHANGED <<kind, members, listed>> /\ pc[q] = "commit"
  BY <1>1, CommitInsertFacts
<1>3. /\ late' \in [Requests -> SUBSET Pairs]
      /\ \A p \in Requests \ {q} : late[p] \subseteq late'[p]
  BY <1>2, OutdateFacts DEF TInv
<1>4. /\ excused' \in [members : SUBSET Pairs, listed : SUBSET Pairs]
      /\ excused'.members = excused.members \cup ({req[q].conv} \X req[q].on)
      /\ excused'.listed = excused.listed \cup ({req[q].conv} \X req[q].on)
  BY <1>1, <1>2, ExcuseFacts DEF TInv
<1>5. MembershipTypeOK'
  BY <1>1, <1>2, <1>3, <1>4, RequestTypes DEF TInv, MembershipTypeOK, TypedRows, Steps
<1>6. Alone(q) /\ pc'[q] = "done" /\ owed'[q] = {} /\ req'[q] = NoRequest
  <2>1. owed[q] = {}
    BY <1>2 DEF TInv, Shape
  <2>2. QED
    BY <1>1, <1>3, <2>1 DEF TInv, MembershipTypeOK, Alone
<1>7. Shape(q)'
  BY <1>6 DEF Shape
<1>8. QED
  BY <1>2, <1>4, <1>5, <1>6, <1>7, LocalShape DEF SameCache

LEMMA CommitDeleteFacts ==
  ASSUME TInv, NEW q \in Requests, CommitDelete(q)
  PROVE  /\ TInv' /\ Alone(q)
         /\ pc[q] = "commit" /\ req[q].op \in {"leave", "remove"}
         /\ req[q].conv \in Conversations /\ req[q].on \subseteq Users
         /\ pc'[q] = "cache" /\ owed'[q] = {req[q].conv} \X req[q].on /\ req' = req
         /\ kind' = kind /\ SameCache /\ excused' = excused
         /\ \/ /\ row' = row /\ late'[q] = {req[q].conv} \X req[q].on
               /\ LateKept(q)
            \/ /\ RowsOnlyFor(req[q].conv, req[q].on)
               /\ \A u \in req[q].on :
                    /\ row'[req[q].conv][u] = NoRow
                    /\ Participates(req[q].conv, u) => row[req[q].conv][u].id = req[q].row.id
               /\ Outdate(q, {req[q].conv} \X req[q].on)
<1> DEFINE v == req[q].conv
           N == req[q].on
           P == {v} \X N
<1>1. /\ pc[q] = "commit" /\ req[q].op \in {"leave", "remove"}
      /\ owed' = [owed EXCEPT ![q] = P] /\ pc' = [pc EXCEPT ![q] = "cache"]
      /\ UNCHANGED <<kind, members, listed, req, excused>>
  BY DEF CommitDelete, Goto, cache
<1>2. v \in Conversations /\ N \subseteq Users /\ P \in SUBSET Pairs /\ MembershipTypeOK
  BY <1>1 DEF TInv, Shape, MembershipTypeOK, Request, Pairs
<1>3. CASE \E t \in N : Participates(v, t) /\ row[v][t].id # req[q].row.id
  <2>1. row' = row /\ late' = [late EXCEPT ![q] = P]
    BY <1>3 DEF CommitDelete
  <2>2. owed[q] = {}
    BY <1>1 DEF TInv, Shape
  <2>3. MembershipTypeOK'
    BY <1>1, <1>2, <2>1 DEF MembershipTypeOK, Steps
  <2>4. Alone(q) /\ LateKept(q) /\ pc'[q] = "cache" /\ owed'[q] = P /\ late'[q] = P
    BY <1>1, <1>2, <2>1 DEF MembershipTypeOK, Alone, LateKept
  <2>5. Shape(q)'
    BY <1>1, <1>2, <2>4 DEF Shape
  <2>6. QED
    BY <1>1, <1>2, <2>1, <2>3, <2>4, <2>5, LocalShape DEF SameCache
<1>4. CASE \A t \in N : Participates(v, t) => row[v][t].id = req[q].row.id
  <2> DEFINE here == [u \in Users |-> IF u \in N THEN NoRow ELSE row[v][u]]
  <2>1. row' = [row EXCEPT ![v] = here] /\ Outdate(q, P)
    BY <1>4 DEF CommitDelete
  <2>2. here \in [Users -> Rows \cup {NoRow}]
    BY <1>2 DEF MembershipTypeOK
  <2>3. TypedRows' /\ RowsOnlyFor(v, N) /\ \A u \in N : row'[v][u] = NoRow
    BY <1>2, <2>1, <2>2 DEF MembershipTypeOK, TypedRows, RowsOnlyFor
  <2> HIDE DEF here, P
  <2>4. /\ late' \in [Requests -> SUBSET Pairs]
        /\ \A p \in Requests \ {q} : late[p] \subseteq late'[p]
    BY <1>2, <2>1, OutdateFacts
  <2>5. MembershipTypeOK'
    BY <1>1, <1>2, <2>3, <2>4 DEF MembershipTypeOK, TypedRows, Steps
  <2>6. Alone(q) /\ pc'[q] = "cache" /\ owed'[q] = P
    BY <1>1, <1>2, <2>4 DEF MembershipTypeOK, Alone
  <2>7. Shape(q)'
    BY <1>1, <1>2, <2>6 DEF Shape, P
  <2>8. QED
    BY <1>1, <1>2, <1>4, <2>1, <2>3, <2>5, <2>6, <2>7, LocalShape DEF SameCache, P
<1>5. QED
  BY <1>3, <1>4

LEMMA CommitRoleFacts ==
  ASSUME TInv, NEW q \in Requests, CommitRole(q)
  PROVE  /\ TInv' /\ Alone(q) /\ LateKept(q)
         /\ pc[q] = "commit" /\ req[q].op \in {"promote", "dismiss"}
         /\ req[q].conv \in Conversations
         /\ owed'[q] = {}
         /\ kind' = kind /\ SameCache /\ excused' = excused
         /\ \/ row' = row /\ pc'[q] = "done" /\ req'[q] = Kept(req[q])
            \/ /\ pc'[q] = "read" /\ req' = req
               /\ \E t \in req[q].on :
                    /\ RowsOnlyFor(req[q].conv, {t})
                    /\ Participates(req[q].conv, t)
                    /\ row[req[q].conv][t].id = req[q].row.id
                    /\ row'[req[q].conv][t] # NoRow
                    /\ row'[req[q].conv][t].id = row[req[q].conv][t].id
                    /\ row'[req[q].conv][t].role \in {"ADMIN", "MEMBER"}
<1> DEFINE v == req[q].conv
           role == IF req[q].op = "promote" THEN "ADMIN" ELSE "MEMBER"
<1>1. /\ pc[q] = "commit" /\ req[q].op \in {"promote", "dismiss"}
      /\ UNCHANGED <<kind, members, listed, excused>>
  BY DEF CommitRole, cache
<1>2. /\ v \in Conversations /\ req[q].on \subseteq Users /\ owed[q] = {}
      /\ MembershipTypeOK
  BY <1>1 DEF TInv, Shape, MembershipTypeOK, Request
<1>3. PICK t \in req[q].on :
        IF Participates(v, t) /\ row[v][t].id = req[q].row.id
        THEN /\ row' = [row EXCEPT ![v][t].role = role]
             /\ pc' = [pc EXCEPT ![q] = "read"]
             /\ UNCHANGED <<req, owed, late>>
        ELSE Finish(q) /\ UNCHANGED row
  BY DEF CommitRole, Goto
<1>4. CASE ~(Participates(v, t) /\ row[v][t].id = req[q].row.id)
  BY <1>1, <1>2, <1>3, <1>4, EndFacts DEF MembershipTypeOK, SameCache
<1>5. CASE Participates(v, t) /\ row[v][t].id = req[q].row.id
  <2>1. PICK s \in Rows : s = row[v][t]
    BY <1>2, <1>5 DEF Participates, MembershipTypeOK
  <2>2. /\ [s EXCEPT !.role = role] \in Rows /\ [s EXCEPT !.role = role].id = s.id
        /\ [s EXCEPT !.role = role].role = role
    BY DEF Rows, Roles
  <2>3. row' = [row EXCEPT ![v] = [row[v] EXCEPT ![t] = [s EXCEPT !.role = role]]]
    BY <1>3, <1>5, <2>1
  <2> DEFINE here == [row[v] EXCEPT ![t] = [s EXCEPT !.role = role]]
  <2>4. /\ here \in [Users -> Rows \cup {NoRow}]
        /\ here[t] = [s EXCEPT !.role = role]
        /\ \A u \in Users \ {t} : here[u] = row[v][u]
    BY <1>2, <2>2 DEF MembershipTypeOK
  <2> HIDE DEF here
  <2>5. row' = [row EXCEPT ![v] = here]
    BY <2>3 DEF here
  <2>6. TypedRows' /\ RowsOnlyFor(v, {t}) /\ row'[v][t] = here[t]
    BY <1>2, <2>4, <2>5 DEF MembershipTypeOK, TypedRows, RowsOnlyFor
  <2>7. row'[v][t] # NoRow /\ row'[v][t].id = s.id /\ row'[v][t].role = role
    BY <2>2, <2>4, <2>6, RowFacts
  <2>8. pc' = [pc EXCEPT ![q] = "read"] /\ UNCHANGED <<req, owed, late>>
    BY <1>3, <1>5
  <2>9. MembershipTypeOK'
    BY <1>1, <1>2, <2>6, <2>8 DEF MembershipTypeOK, TypedRows, Steps
  <2>10. Alone(q) /\ LateKept(q) /\ pc'[q] = "read" /\ owed'[q] = {}
    BY <1>2, <2>8 DEF MembershipTypeOK, Alone, LateKept
  <2>11. Shape(q)'
    BY <1>1, <1>2, <2>8, <2>10 DEF Shape
  <2>12. QED
    BY <1>1, <1>2, <1>5, <2>1, <2>6, <2>7, <2>8, <2>9, <2>10, <2>11, LocalShape DEF SameCache
<1>6. QED
  BY <1>4, <1>5

LEMMA CommitDeleteDMFacts ==
  ASSUME TInv, NEW q \in Requests, CommitDeleteDM(q)
  PROVE  /\ TInv' /\ Alone(q)
         /\ pc[q] = "commit" /\ req[q].op = "deldm" /\ req[q].conv \in Conversations
         /\ pc'[q] = "done" /\ owed'[q] = {} /\ req'[q] = NoRequest
         /\ kind' = [kind EXCEPT ![req[q].conv] = "erased"]
         /\ RowsOnlyFor(req[q].conv, Users) /\ \A u \in Users : row'[req[q].conv][u] = NoRow
         /\ Outdate(q, {req[q].conv} \X Users)
         /\ SameCache
         /\ excused'.members = excused.members \cup ({req[q].conv} \X Users)
         /\ excused'.listed = excused.listed \cup ({req[q].conv} \X Users)
<1> DEFINE v == req[q].conv
           P == {v} \X Users
           none == [u \in Users |-> NoRow]
<1>1. /\ pc[q] = "commit" /\ req[q].op = "deldm"
      /\ kind' = [kind EXCEPT ![v] = "erased"] /\ row' = [row EXCEPT ![v] = none]
      /\ Outdate(q, P) /\ Excuse(P)
      /\ pc' = [pc EXCEPT ![q] = "done"] /\ req' = [req EXCEPT ![q] = NoRequest]
      /\ UNCHANGED <<members, listed, owed>>
  BY DEF CommitDeleteDM, Goto, cache
<1>2. v \in Conversations /\ P \in SUBSET Pairs /\ owed[q] = {} /\ MembershipTypeOK
  BY <1>1 DEF TInv, Shape, Pairs
<1>3. TypedRows' /\ RowsOnlyFor(v, Users) /\ \A u \in Users : row'[v][u] = NoRow
  BY <1>1, <1>2 DEF MembershipTypeOK, TypedRows, RowsOnlyFor
<1> HIDE DEF P, none
<1>4. /\ late' \in [Requests -> SUBSET Pairs]
      /\ \A p \in Requests \ {q} : late[p] \subseteq late'[p]
  BY <1>1, <1>2, OutdateFacts
<1>5. /\ excused' \in [members : SUBSET Pairs, listed : SUBSET Pairs]
      /\ excused'.members = excused.members \cup P /\ excused'.listed = excused.listed \cup P
  BY <1>1, <1>2, ExcuseFacts
<1>6. MembershipTypeOK'
  BY <1>1, <1>2, <1>3, <1>4, <1>5, RequestTypes DEF MembershipTypeOK, TypedRows, Steps, Kinds
<1>7. Alone(q) /\ pc'[q] = "done" /\ owed'[q] = {} /\ req'[q] = NoRequest
  BY <1>1, <1>2, <1>4 DEF MembershipTypeOK, Alone
<1>8. Shape(q)'
  BY <1>7 DEF Shape
<1>9. QED
  BY <1>1, <1>2, <1>3, <1>5, <1>6, <1>7, <1>8, LocalShape DEF SameCache, P

LEMMA AbortFacts ==
  ASSUME TInv, NEW q \in Requests, Abort(q)
  PROVE  /\ TInv' /\ Alone(q) /\ LateKept(q)
         /\ pc[q] \notin {"new", "done"}
         /\ pc'[q] = "done" /\ owed'[q] = {} /\ req'[q] = Kept(req[q])
         /\ SameDatabase /\ SameCache
         /\ excused'.members = excused.members \cup owed[q]
         /\ excused'.listed = excused.listed \cup owed[q]
<1>1. /\ UNCHANGED <<kind, row, members, listed>> /\ Excuse(owed[q]) /\ Finish(q)
      /\ pc[q] \notin {"new", "done"} /\ owed[q] \in SUBSET Pairs
  BY DEF Abort, database, cache, TInv, MembershipTypeOK
<1>2. /\ excused' \in [members : SUBSET Pairs, listed : SUBSET Pairs]
      /\ excused'.members = excused.members \cup owed[q]
      /\ excused'.listed = excused.listed \cup owed[q]
  BY <1>1, ExcuseFacts DEF TInv
<1>3. QED
  BY <1>1, <1>2, EndFacts DEF TInv, MembershipTypeOK, SameDatabase, SameCache

\* For the cache and the rows, an update under another spelling is as good as none.
LEMMA ElsewhereAborts ==
  ASSUME NEW q \in Requests, CacheElsewhere(q)
  PROVE  Abort(q)
BY DEF CacheElsewhere, Abort

\* q writes WM of members and WL of listed, and ends.
Written(q, WM, WL) ==
  /\ TInv' /\ Alone(q) /\ LateKept(q) /\ SameDatabase
  /\ pc'[q] = "done" /\ owed'[q] = {} /\ req'[q] = Kept(req[q])
  /\ excused'.members = Excused(excused.members, WM, q)
  /\ excused'.listed = Excused(excused.listed, WL, q)

LEMMA WriteFacts ==
  ASSUME TInv, NEW q \in Requests, NEW WM \in SUBSET Pairs, NEW WL \in SUBSET Pairs,
         members' \subseteq Pairs, listed' \subseteq Pairs, UNCHANGED <<kind, row>>,
         excused' = [members |-> Excused(excused.members, WM, q),
                     listed |-> Excused(excused.listed, WL, q)],
         Finish(q)
  PROVE  Written(q, WM, WL)
<1>1. excused' \in [members : SUBSET Pairs, listed : SUBSET Pairs]
  BY DEF Excused, TInv, MembershipTypeOK
<1>2. QED
  BY <1>1, EndFacts DEF TInv, MembershipTypeOK, SameDatabase, Written

LEMMA CacheMembersFacts ==
  ASSUME TInv, NEW q \in Requests, CacheMembers(q)
  PROVE  /\ pc[q] = "cache" /\ req[q].op = "add" /\ owed[q] = {req[q].conv} \X req[q].on
         /\ members' = members \cup owed[q] /\ listed' = listed \cup owed[q]
         /\ Written(q, owed[q], owed[q])
<1>1. pc[q] = "cache" /\ owed[q] = {req[q].conv} \X req[q].on /\ owed[q] \in SUBSET Pairs
  BY DEF CacheMembers, TInv, Shape, MembershipTypeOK
<1>2. /\ members' = members \cup owed[q] /\ listed' = listed \cup owed[q]
      /\ excused' = [members |-> Excused(excused.members, owed[q], q),
                     listed |-> Excused(excused.listed, owed[q], q)]
      /\ Finish(q) /\ UNCHANGED <<kind, row>> /\ req[q].op = "add"
  BY <1>1 DEF CacheMembers, database
<1>3. members' \subseteq Pairs /\ listed' \subseteq Pairs
  BY <1>1, <1>2 DEF TInv, MembershipTypeOK
<1>4. QED
  BY <1>1, <1>2, <1>3, WriteFacts

LEMMA CacheRemoveFacts ==
  ASSUME TInv, NEW q \in Requests, CacheRemove(q)
  PROVE  /\ pc[q] = "cache" /\ req[q].op \in {"leave", "remove"}
         /\ members' = members \ owed[q] /\ listed' = listed
         /\ excused'.members = Excused(excused.members, owed[q], q)
         /\ excused'.listed = excused.listed
         /\ pc'[q] = "unlist" /\ UNCHANGED <<req, owed, late>>
         /\ TInv' /\ Alone(q) /\ SameDatabase
<1>1. /\ pc[q] = "cache" /\ owed[q] = {req[q].conv} \X req[q].on /\ owed[q] \in SUBSET Pairs
      /\ req[q].conv \in Conversations /\ MembershipTypeOK
  BY DEF CacheRemove, TInv, Shape, MembershipTypeOK
<1>2. /\ members' = members \ owed[q] /\ listed' = listed
      /\ excused' = [excused EXCEPT !.members = Excused(@, owed[q], q)]
      /\ pc' = [pc EXCEPT ![q] = "unlist"] /\ UNCHANGED <<kind, row, req, owed, late>>
      /\ req[q].op \in {"leave", "remove"}
  BY <1>1 DEF CacheRemove, database, Goto
<1>3. /\ excused' \in [members : SUBSET Pairs, listed : SUBSET Pairs]
      /\ excused'.members = Excused(excused.members, owed[q], q)
      /\ excused'.listed = excused.listed
  BY <1>1, <1>2 DEF Excused, MembershipTypeOK
<1>4. MembershipTypeOK'
  BY <1>1, <1>2, <1>3 DEF MembershipTypeOK, Steps
<1>5. Alone(q) /\ pc'[q] = "unlist"
  BY <1>1, <1>2 DEF MembershipTypeOK, Alone
<1>6. Shape(q)'
  BY <1>1, <1>2, <1>5 DEF Shape
<1>7. QED
  BY <1>1, <1>2, <1>3, <1>4, <1>5, <1>6, LocalShape DEF SameDatabase

LEMMA UnlistFacts ==
  ASSUME TInv, NEW q \in Requests, Unlist(q)
  PROVE  /\ pc[q] = "unlist" /\ req[q].op \in {"leave", "remove"}
         /\ members' = members /\ listed' = listed \ owed[q]
         /\ Written(q, {}, owed[q])
<1>1. /\ pc[q] = "unlist" /\ owed[q] = {req[q].conv} \X req[q].on /\ owed[q] \in SUBSET Pairs
      /\ req[q].op \in {"leave", "remove"}
  BY DEF Unlist, TInv, Shape, MembershipTypeOK
<1>2. /\ members' = members /\ listed' = listed \ owed[q]
      /\ excused' = [excused EXCEPT !.listed = Excused(@, owed[q], q)]
      /\ Finish(q) /\ UNCHANGED <<kind, row>>
  BY <1>1 DEF Unlist, database
<1>3. excused' = [members |-> Excused(excused.members, {}, q),
                  listed |-> Excused(excused.listed, owed[q], q)]
  BY <1>2 DEF TInv, MembershipTypeOK, Excused
<1>4. members' \subseteq Pairs /\ listed' \subseteq Pairs
  BY <1>2 DEF TInv, MembershipTypeOK
<1>5. QED
  BY <1>1, <1>2, <1>3, <1>4, WriteFacts

LEMMA RowsOfFacts ==
  ASSUME NEW C \in SUBSET Conversations
  PROVE  /\ RowsOf(C) \subseteq C \X Users
         /\ \A p \in C \X Users : p \in RowsOf(C) <=> Participates(p[1], p[2])
BY DEF RowsOf

\* What a synchronisation is to write.
Scope(q) == IF pc[q] \in {"read", "write"} THEN {req[q].conv} \X Users ELSE Pairs

LEMMA ReadParticipantsFacts ==
  ASSUME TInv, NEW q \in Requests, ReadParticipants(q)
  PROVE  /\ TInv' /\ Alone(q) /\ LateKept(q) /\ SameDatabase /\ SameCache
         /\ excused' = excused /\ owed' = owed
         /\ \/ pc[q] = "read" /\ pc'[q] = "write"
            \/ pc[q] = "readall" /\ pc'[q] = "writeall"
         /\ req'[q].op = req[q].op /\ req'[q].conv = req[q].conv
         /\ req'[q].by = req[q].by /\ req'[q].after = req[q].after
         /\ late'[q] = {} /\ Scope(q)' = Scope(q)
         /\ \A p \in Scope(q) : p \in req'[q].seen <=> Participates(p[1], p[2])
<1> DEFINE C == IF pc[q] = "read" THEN {req[q].conv} ELSE Conversations
<1>1. PICK r \in Request : r = req[q]
  BY DEF TInv, MembershipTypeOK
<1>2. /\ req' = [req EXCEPT ![q] = [r EXCEPT !.seen = RowsOf(C)]]
      /\ late' = [late EXCEPT ![q] = {}]
      /\ pc' = [pc EXCEPT ![q] = IF pc[q] = "read" THEN "write" ELSE "writeall"]
      /\ UNCHANGED <<kind, row, members, listed, owed, excused>>
      /\ pc[q] \in {"read", "readall"}
  BY <1>1 DEF ReadParticipants, Goto, database, cache
<1>3. /\ C \subseteq Conversations
      /\ pc[q] = "read" => r.conv \in Conversations /\ r.op \notin {"add", "leave", "remove"}
                           /\ owed[q] \subseteq {r.conv} \X Users
                           /\ (owed[q] # {} => r.op \in {"create", "dm"})
      /\ pc[q] = "readall" => owed[q] = {}
  BY <1>1 DEF TInv, Shape
<1>4. /\ RowsOf(C) \subseteq C \X Users
      /\ \A p \in C \X Users : p \in RowsOf(C) <=> Participates(p[1], p[2])
  BY <1>3, RowsOfFacts
<1> DEFINE r1 == [r EXCEPT !.seen = RowsOf(C)]
<1>5. /\ r1 \in Request /\ r1.op = r.op /\ r1.conv = r.conv /\ r1.by = r.by
      /\ r1.after = r.after /\ r1.seen = RowsOf(C)
  <2>1. RowsOf(C) \in SUBSET Pairs
    BY <1>3, <1>4 DEF Pairs
  <2>2. QED
    BY <2>1 DEF Request
<1>6. req' = [req EXCEPT ![q] = r1]
  BY <1>2
<1> HIDE DEF r1
<1>7. /\ req'[q] = r1 /\ late'[q] = {} /\ owed' = owed
      /\ pc'[q] = IF pc[q] = "read" THEN "write" ELSE "writeall"
      /\ Alone(q) /\ LateKept(q)
  BY <1>2, <1>6 DEF TInv, MembershipTypeOK, Alone, LateKept
<1>8. MembershipTypeOK'
  BY <1>2, <1>5, <1>6 DEF TInv, MembershipTypeOK, Steps
<1>9. Shape(q)'
  <2>1. CASE pc[q] = "read"
    <3>1. r1.seen \subseteq {r.conv} \X Users
      BY <1>1, <1>4, <1>5, <2>1
    <3>2. pc'[q] = "write"
      BY <1>7, <2>1
    <3> HIDE DEF C
    <3>3. QED
      BY <1>3, <1>5, <1>7, <2>1, <3>1, <3>2 DEF Shape
  <2>2. CASE pc[q] = "readall"
    <3>1. pc'[q] = "writeall" /\ owed'[q] = {}
      BY <1>3, <1>7, <2>2
    <3>2. QED
      BY <3>1 DEF Shape
  <2>3. QED
    BY <1>2, <2>1, <2>2
<1>10. Scope(q)' = Scope(q) /\ Scope(q) = C \X Users
  <2>1. pc[q] = "read" => Scope(q) = {r.conv} \X Users /\ Scope(q)' = {r.conv} \X Users
    BY <1>1, <1>5, <1>7 DEF Scope
  <2>2. pc[q] = "readall" => Scope(q) = Pairs /\ Scope(q)' = Pairs
    BY <1>7 DEF Scope
  <2>3. QED
    BY <1>1, <1>2, <2>1, <2>2 DEF Pairs
<1>11. TInv'
  BY <1>7, <1>8, <1>9, LocalShape
<1>12. \A p \in Scope(q) : p \in req'[q].seen <=> Participates(p[1], p[2])
  BY <1>4, <1>5, <1>7, <1>10
<1>13. \/ pc[q] = "read" /\ pc'[q] = "write"
       \/ pc[q] = "readall" /\ pc'[q] = "writeall"
  BY <1>2, <1>7
<1> HIDE DEF C
<1>14. QED
  BY <1>1, <1>2, <1>5, <1>7, <1>10, <1>11, <1>12, <1>13 DEF SameDatabase, SameCache

LEMMA SyncFacts ==
  ASSUME TInv, NEW q \in Requests, SyncConversation(q) \/ SyncAll(q)
  PROVE  \E WM, WL \in SUBSET Pairs :
           /\ Written(q, WM, WL)
           /\ req[q].seen \subseteq WM /\ req[q].seen \subseteq WL
           /\ members' = (members \ WM) \cup req[q].seen
           /\ \/ /\ pc[q] = "write"
                 /\ WM = {req[q].conv} \X Users /\ WL = req[q].seen
                 /\ listed' = listed \cup req[q].seen
              \/ /\ pc[q] = "writeall"
                 /\ listed' = (listed \ WL) \cup req[q].seen
<1> DEFINE S == req[q].seen
<1>1. S \in SUBSET Pairs
  BY DEF TInv, MembershipTypeOK, Request
<1>2. CASE SyncConversation(q)
  <2> DEFINE W == {req[q].conv} \X Users
  <2>1. /\ pc[q] = "write" /\ members' = (members \ W) \cup S /\ listed' = listed \cup S
        /\ excused' = [members |-> Excused(excused.members, W, q),
                       listed |-> Excused(excused.listed, S, q)]
        /\ Finish(q) /\ UNCHANGED <<kind, row>>
    BY <1>2 DEF SyncConversation, database
  <2>2. W \in SUBSET Pairs /\ S \subseteq W
    BY <2>1 DEF TInv, Shape, Pairs
  <2>3. members' \subseteq Pairs /\ listed' \subseteq Pairs
    BY <1>1, <2>1 DEF TInv, MembershipTypeOK
  <2>4. Written(q, W, S)
    BY <1>1, <2>1, <2>2, <2>3, WriteFacts
  <2>5. QED
    BY <1>1, <2>1, <2>2, <2>4
<1>3. CASE SyncAll(q)
  <2> DEFINE W == {p \in Pairs : \E s \in S : s[1] = p[1]}
             L == {p \in Pairs : \E s \in S : s[2] = p[2]}
  <2>1. /\ pc[q] = "writeall" /\ members' = (members \ W) \cup S /\ listed' = (listed \ L) \cup S
        /\ excused' = [members |-> Excused(excused.members, W, q),
                       listed |-> Excused(excused.listed, L, q)]
        /\ Finish(q) /\ UNCHANGED <<kind, row>>
    BY <1>3 DEF SyncAll, database
  <2>2. W \in SUBSET Pairs /\ S \subseteq W /\ L \in SUBSET Pairs /\ S \subseteq L
    BY <1>1
  <2>3. members' \subseteq Pairs /\ listed' \subseteq Pairs
    BY <1>1, <2>1 DEF TInv, MembershipTypeOK
  <2> HIDE DEF W, L
  <2>4. Written(q, W, L)
    BY <2>1, <2>2, <2>3, WriteFacts
  <2>5. QED
    BY <2>1, <2>2, <2>4
<1>4. QED
  BY <1>2, <1>3

-----------------------------------------------------------------------------
(* The cache follows the rows: the inductive invariant.                    *)

Row(p) == row[p[1]][p[2]]
Member(p) == Participates(p[1], p[2])

\* Somebody is still to write p to the cache: the request that inserted the row,
\* or one that deleted it and is at one of the steps S.
Inserter(p) ==
  \E q \in Requests : q = Row(p).id /\ p \in owed[q] /\ req[q].op \in {"add", "create", "dm"}
Remover(p, S) ==
  \E q \in Requests : p \in owed[q] /\ pc[q] \in S /\ req[q].op \in {"leave", "remove"}

AgreesM(p) ==
  \/ p \in excused.members
  \/ /\ Member(p) => p \in members \/ Inserter(p)
     /\ ~Member(p) => p \notin members \/ Remover(p, {"cache"})

AgreesL(p) ==
  \/ p \in excused.listed
  \/ /\ Member(p) => p \in listed \/ Inserter(p)
     /\ ~Member(p) => p \notin listed \/ Remover(p, {"cache", "unlist"})

\* What a synchronisation has read, what an update by value is about to write,
\* is right but for what others changed since.
Notes(q) ==
  /\ pc[q] \in {"write", "writeall"} =>
       \A p \in Scope(q) : p \in late[q] \/ (p \in req[q].seen <=> Member(p))
  /\ pc[q] \in {"cache", "unlist"} =>
       \A p \in owed[q] : p \in late[q] \/ (req[q].op = "add" <=> Member(p))
  /\ pc[q] = "write" => \A p \in late[q] : Row(p).id # q

CInv ==
  /\ \A p \in Pairs : AgreesM(p) /\ AgreesL(p)
  /\ \A q \in Requests : Notes(q)

LEMMA CoversStay ==
  ASSUME NEW q \in Requests, Alone(q), NEW p \in Pairs, p \notin owed[q],
         Row(p)'.id = Row(p).id
  PROVE  /\ Inserter(p) => Inserter(p)'
         /\ Remover(p, {"cache"}) => Remover(p, {"cache"})'
         /\ Remover(p, {"cache", "unlist"}) => Remover(p, {"cache", "unlist"})'
BY DEF Alone, Inserter, Remover

\* The ids of the rows, and who has one, stay.
SameIds == \A p \in Pairs : (Member(p)' <=> Member(p)) /\ Row(p)'.id = Row(p).id

LEMMA DatabaseIds ==
  ASSUME row' = row
  PROVE  SameIds
BY DEF SameIds, Member, Participates, Row

LEMMA OthersNote ==
  ASSUME TInv, CInv, NEW q \in Requests, Alone(q), LateKept(q), SameIds,
         NEW x \in Requests \ {q}
  PROVE  Notes(x)'
<1>1. /\ Notes(x) /\ pc'[x] = pc[x] /\ req'[x] = req[x] /\ owed'[x] = owed[x]
      /\ late'[x] = late[x]
  BY DEF CInv, Alone, LateKept
<1>2. Scope(x)' = Scope(x) /\ late[x] \subseteq Pairs /\ owed[x] \subseteq Pairs
  BY <1>1 DEF Scope, TInv, MembershipTypeOK
<1>3. pc[x] \in {"write", "writeall"} => Scope(x) \subseteq Pairs
  BY DEF Scope, TInv, Shape, Pairs
<1>4. QED
  BY <1>1, <1>2, <1>3 DEF Notes, SameIds

\* A step that leaves the ids, the cache and the excuses.
LEMMA CalmStep ==
  ASSUME TInv, CInv, NEW q \in Requests, Alone(q), LateKept(q), SameIds, SameCache,
         excused' = excused, owed[q] = {}, Notes(q)'
  PROVE  CInv'
<1>1. ASSUME NEW p \in Pairs PROVE AgreesM(p)' /\ AgreesL(p)'
  <2>1. p \notin owed[q] /\ Row(p)'.id = Row(p).id /\ (Member(p)' <=> Member(p))
    BY DEF SameIds
  <2>2. AgreesM(p) /\ AgreesL(p)
    BY DEF CInv
  <2>3. QED
    BY <2>1, <2>2, CoversStay DEF AgreesM, AgreesL, SameCache
<1>2. QED
  BY <1>1, OthersNote DEF CInv

\* A step that inserts or deletes the rows of P.
LEMMA ChangeStep ==
  ASSUME TInv, CInv, NEW q \in Requests, NEW P \in SUBSET Pairs, Alone(q), Outdate(q, P),
         SameCache, owed[q] = {},
         \A p \in Pairs \ P : Row(p)' = Row(p),
         \A p \in P : Row(p)'.id \in {q, None},
         excused.members \subseteq excused'.members, excused.listed \subseteq excused'.listed,
         \A p \in P : AgreesM(p)' /\ AgreesL(p)',
         Notes(q)'
  PROVE  CInv'
<1>1. ASSUME NEW p \in Pairs \ P PROVE AgreesM(p)' /\ AgreesL(p)'
  <2>1. p \notin owed[q] /\ Row(p)'.id = Row(p).id /\ (Member(p)' <=> Member(p))
    BY DEF Member, Participates, Row
  <2>2. AgreesM(p) /\ AgreesL(p)
    BY DEF CInv
  <2>3. QED
    BY <2>1, <2>2, CoversStay DEF AgreesM, AgreesL, SameCache
<1>2. ASSUME NEW x \in Requests \ {q} PROVE Notes(x)'
  <2>1. /\ Notes(x) /\ pc'[x] = pc[x] /\ req'[x] = req[x] /\ owed'[x] = owed[x]
        /\ late'[x] = IF pc[x] \in {"cache", "unlist", "write", "writeall"}
                      THEN late[x] \cup P ELSE late[x]
    BY OutdateFacts DEF CInv, Alone, TInv
  <2>2. Scope(x)' = Scope(x) /\ late[x] \subseteq Pairs /\ owed[x] \subseteq Pairs
    BY <2>1 DEF Scope, TInv, MembershipTypeOK
  <2>3. pc[x] \in {"write", "writeall"} => Scope(x) \subseteq Pairs
    BY DEF Scope, TInv, Shape, Pairs
  <2>4. \A p \in Pairs \ P : (Member(p)' <=> Member(p)) /\ Row(p)'.id = Row(p).id
    BY DEF Member, Participates, Row
  <2>5. \A p \in P : Row(p)'.id # x
    BY NoneIsNone
  <2>6. pc[x] \in {"write", "writeall"} =>
          \A p \in Scope(x) : p \in late'[x] \/ (p \in req[x].seen <=> Member(p)')
    BY <2>1, <2>3, <2>4 DEF Notes
  <2>7. pc[x] \in {"cache", "unlist"} =>
          \A p \in owed[x] : p \in late'[x] \/ (req[x].op = "add" <=> Member(p)')
    BY <2>1, <2>2, <2>4 DEF Notes
  <2>8. pc[x] = "write" => \A p \in late'[x] : Row(p)'.id # x
    BY <2>1, <2>2, <2>4, <2>5 DEF Notes
  <2>9. QED
    BY <2>1, <2>2, <2>6, <2>7, <2>8 DEF Notes
<1>3. QED
  BY <1>1, <1>2 DEF CInv

-----------------------------------------------------------------------------
(* The steps, for the cache.                                               *)

LEMMA AskAgrees ==
  ASSUME TInv, CInv, NEW q \in Requests, NEW r, NEW s, Asked(q, r, s)
  PROVE  CInv'
<1>1. /\ pc[q] = "new" /\ pc' = [pc EXCEPT ![q] = s] /\ req' = [req EXCEPT ![q] = r]
      /\ UNCHANGED <<kind, row, members, listed, owed, late, excused>>
      /\ s \in {"check", "commit", "read", "readall"}
  BY DEF Asked, Ask, database, cache
<1>2. Alone(q) /\ LateKept(q) /\ SameCache /\ owed[q] = {}
  BY <1>1 DEF TInv, MembershipTypeOK, Shape, Alone, LateKept, SameCache
<1>3. pc'[q] = s
  BY <1>1 DEF TInv, MembershipTypeOK
<1>4. Notes(q)'
  BY <1>1, <1>3 DEF Notes
<1>5. QED
  BY <1>1, <1>2, <1>4, CalmStep, DatabaseIds

LEMMA CalmAgrees ==
  ASSUME TInv, CInv, NEW q \in Requests,
         FindNew(q) \/ FindTarget(q) \/ InsertFails(q) \/ CommitRole(q) \/ CommitDeleteGroup(q)
  PROVE  CInv'
<1>1. CASE FindNew(q) \/ FindTarget(q)
  <2>1. /\ Alone(q) /\ LateKept(q) /\ SameCache /\ excused' = excused /\ row' = row
        /\ pc[q] = "check" /\ pc'[q] \in {"done", "commit"}
    BY <1>1, FindFacts DEF SameDatabase
  <2>2. owed[q] = {} /\ Notes(q)'
    BY <2>1 DEF TInv, Shape, Notes
  <2>3. QED
    BY <2>1, <2>2, CalmStep, DatabaseIds
<1>2. CASE InsertFails(q) \/ CommitDeleteGroup(q)
  <2>1. /\ Alone(q) /\ LateKept(q) /\ SameCache /\ excused' = excused /\ row' = row
        /\ pc[q] = "commit" /\ pc'[q] = "done"
    BY <1>2, InsertFailsFacts, CommitDeleteGroupFacts DEF SameDatabase
  <2>2. owed[q] = {} /\ Notes(q)'
    BY <2>1 DEF TInv, Shape, Notes
  <2>3. QED
    BY <2>1, <2>2, CalmStep, DatabaseIds
<1>3. CASE CommitRole(q)
  <2>1. /\ Alone(q) /\ LateKept(q) /\ SameCache /\ excused' = excused
        /\ pc[q] = "commit" /\ pc'[q] \in {"done", "read"} /\ req[q].conv \in Conversations
        /\ \/ row' = row
           \/ \E t \in req[q].on :
                /\ RowsOnlyFor(req[q].conv, {t})
                /\ Participates(req[q].conv, t)
                /\ row'[req[q].conv][t] # NoRow
                /\ row'[req[q].conv][t].id = row[req[q].conv][t].id
    BY <1>3, CommitRoleFacts
  <2>2. owed[q] = {} /\ Notes(q)'
    BY <2>1 DEF TInv, Shape, Notes
  <2>3. SameIds
    <3>1. CASE row' = row
      BY <3>1, DatabaseIds
    <3>2. CASE \E t \in req[q].on :
                /\ RowsOnlyFor(req[q].conv, {t})
                /\ Participates(req[q].conv, t)
                /\ row'[req[q].conv][t] # NoRow
                /\ row'[req[q].conv][t].id = row[req[q].conv][t].id
      BY <3>2 DEF SameIds, Pairs, Member, Row, Participates, RowsOnlyFor
    <3>3. QED
      BY <2>1, <3>1, <3>2
  <2>4. QED
    BY <2>1, <2>2, <2>3, CalmStep
<1>4. QED
  BY <1>1, <1>2, <1>3

LEMMA AbortAgrees ==
  ASSUME TInv, CInv, NEW q \in Requests, Abort(q)
  PROVE  CInv'
<1>1. /\ Alone(q) /\ LateKept(q) /\ SameDatabase /\ SameCache /\ pc'[q] = "done"
      /\ excused'.members = excused.members \cup owed[q]
      /\ excused'.listed = excused.listed \cup owed[q]
  BY AbortFacts
<1>2. SameIds
  BY <1>1, DatabaseIds DEF SameDatabase
<1>3. ASSUME NEW p \in Pairs PROVE AgreesM(p)' /\ AgreesL(p)'
  <2>1. CASE p \in owed[q]
    BY <1>1, <2>1 DEF AgreesM, AgreesL
  <2>2. CASE p \notin owed[q]
    <3>1. Row(p)'.id = Row(p).id /\ (Member(p)' <=> Member(p)) /\ AgreesM(p) /\ AgreesL(p)
      BY <1>2 DEF SameIds, CInv
    <3>2. QED
      BY <1>1, <2>2, <3>1, CoversStay DEF AgreesM, AgreesL, SameCache
  <2>3. QED
    BY <2>1, <2>2
<1>4. Notes(q)'
  BY <1>1 DEF Notes
<1>5. QED
  BY <1>1, <1>2, <1>3, <1>4, OthersNote DEF CInv

\* Of the pairs {v} \X N, and of no others, the rows are changed.
LEMMA OnlyPairs ==
  ASSUME NEW v \in Conversations, NEW N \in SUBSET Users, RowsOnlyFor(v, N)
  PROVE  /\ ({v} \X N) \in SUBSET Pairs
         /\ \A p \in Pairs \ ({v} \X N) : Row(p)' = Row(p)
         /\ \A p \in {v} \X N : p[1] = v /\ p[2] \in N /\ Row(p)' = row'[v][p[2]]
BY DEF RowsOnlyFor, Pairs, Row

LEMMA AddAgrees ==
  ASSUME TInv, CInv, NEW q \in Requests, CommitAdd(q)
  PROVE  CInv'
<1> DEFINE v == req[q].conv
           N == req[q].on
           P == {v} \X N
<1>1. /\ Alone(q) /\ pc'[q] = "cache" /\ owed'[q] = P /\ req' = req
      /\ SameCache /\ excused' = excused
  BY CommitAddFacts
<1>2. /\ pc[q] = "commit" /\ req[q].op = "add" /\ v \in Conversations /\ N \in SUBSET Users
      /\ RowsOnlyFor(v, N) /\ Outdate(q, P)
      /\ \A u \in N : row'[v][u] # NoRow /\ row'[v][u].id = q
  BY CommitInsertFacts DEF CommitAdd
<1>3. /\ P \in SUBSET Pairs /\ \A p \in Pairs \ P : Row(p)' = Row(p)
      /\ \A p \in P : p[1] = v /\ p[2] \in N /\ Row(p)' = row'[v][p[2]]
  BY <1>2, OnlyPairs
<1>4. \A p \in P : Row(p)'.id = q /\ Member(p)'
  BY <1>2, <1>3 DEF Member, Participates, Row
<1>5. owed[q] = {}
  BY <1>2 DEF TInv, Shape
<1> HIDE DEF P, v, N
<1>6. \A p \in P : AgreesM(p)' /\ AgreesL(p)'
  BY <1>1, <1>2, <1>4 DEF AgreesM, AgreesL, Inserter
<1>7. Notes(q)'
  BY <1>1, <1>2, <1>4 DEF Notes
<1>8. QED
  BY <1>1, <1>2, <1>3, <1>4, <1>5, <1>6, <1>7, ChangeStep

LEMMA JoinAgrees ==
  ASSUME TInv, CInv, NEW q \in Requests, CommitJoin(q)
  PROVE  CInv'
<1> DEFINE v == req[q].conv
           N == req[q].on
           P == {v} \X N
<1>1. /\ Alone(q) /\ pc'[q] = "done" /\ SameCache
      /\ excused'.members = excused.members \cup P /\ excused'.listed = excused.listed \cup P
  BY CommitJoinFacts
<1>2. /\ pc[q] = "commit" /\ v \in Conversations /\ N \in SUBSET Users
      /\ RowsOnlyFor(v, N) /\ Outdate(q, P)
      /\ \A u \in N : row'[v][u].id = q
  BY CommitInsertFacts DEF CommitJoin
<1>3. /\ P \in SUBSET Pairs /\ \A p \in Pairs \ P : Row(p)' = Row(p)
      /\ \A p \in P : p[1] = v /\ p[2] \in N /\ Row(p)' = row'[v][p[2]]
  BY <1>2, OnlyPairs
<1>4. \A p \in P : Row(p)'.id = q
  BY <1>2, <1>3
<1>5. owed[q] = {} /\ Notes(q)'
  BY <1>1, <1>2 DEF TInv, Shape, Notes
<1> HIDE DEF P, v, N
<1>6. \A p \in P : AgreesM(p)' /\ AgreesL(p)'
  BY <1>1 DEF AgreesM, AgreesL
<1>7. QED
  BY <1>1, <1>2, <1>3, <1>4, <1>5, <1>6, ChangeStep

LEMMA DeleteDMAgrees ==
  ASSUME TInv, CInv, NEW q \in Requests, CommitDeleteDM(q)
  PROVE  CInv'
<1> DEFINE v == req[q].conv
           P == {v} \X Users
<1>1. /\ Alone(q) /\ pc[q] = "commit" /\ pc'[q] = "done" /\ SameCache
      /\ excused'.members = excused.members \cup P /\ excused'.listed = excused.listed \cup P
      /\ v \in Conversations /\ RowsOnlyFor(v, Users) /\ Outdate(q, P)
      /\ \A u \in Users : row'[v][u] = NoRow
  BY CommitDeleteDMFacts
<1>2. /\ P \in SUBSET Pairs /\ \A p \in Pairs \ P : Row(p)' = Row(p)
      /\ \A p \in P : p[1] = v /\ p[2] \in Users /\ Row(p)' = row'[v][p[2]]
  BY <1>1, OnlyPairs
<1>3. \A p \in P : Row(p)'.id = None
  BY <1>1, <1>2 DEF NoRow
<1>4. owed[q] = {} /\ Notes(q)'
  BY <1>1 DEF TInv, Shape, Notes
<1> HIDE DEF P, v
<1>5. \A p \in P : AgreesM(p)' /\ AgreesL(p)'
  BY <1>1 DEF AgreesM, AgreesL
<1>6. QED
  BY <1>1, <1>2, <1>3, <1>4, <1>5, ChangeStep

LEMMA DeleteAgrees ==
  ASSUME TInv, CInv, NEW q \in Requests, CommitDelete(q)
  PROVE  CInv'
<1> DEFINE v == req[q].conv
           N == req[q].on
           P == {v} \X N
<1>1. /\ Alone(q) /\ pc[q] = "commit" /\ req[q].op \in {"leave", "remove"}
      /\ v \in Conversations /\ N \subseteq Users
      /\ pc'[q] = "cache" /\ owed'[q] = P /\ req' = req
      /\ SameCache /\ excused' = excused
      /\ \/ row' = row /\ late'[q] = P /\ LateKept(q)
         \/ /\ RowsOnlyFor(v, N) /\ Outdate(q, P)
            /\ \A u \in N : row'[v][u] = NoRow
  BY CommitDeleteFacts
<1>2. owed[q] = {}
  BY <1>1 DEF TInv, Shape
<1>3. CASE row' = row /\ late'[q] = P /\ LateKept(q)
  <2>1. Notes(q)'
    BY <1>1, <1>3 DEF Notes
  <2>2. QED
    BY <1>1, <1>2, <1>3, <2>1, CalmStep, DatabaseIds
<1>4. CASE /\ RowsOnlyFor(v, N) /\ Outdate(q, P)
           /\ \A u \in N : row'[v][u] = NoRow
  <2>1. /\ P \in SUBSET Pairs /\ \A p \in Pairs \ P : Row(p)' = Row(p)
        /\ \A p \in P : p[1] = v /\ p[2] \in N /\ Row(p)' = row'[v][p[2]]
    BY <1>1, <1>4, OnlyPairs
  <2>2. \A p \in P : Row(p)'.id = None /\ ~Member(p)'
    BY <1>4, <2>1 DEF NoRow, Member, Participates, Row
  <2> HIDE DEF P, v, N
  <2>3. \A p \in P : AgreesM(p)' /\ AgreesL(p)'
    BY <1>1, <2>2 DEF AgreesM, AgreesL, Remover
  <2>4. Notes(q)'
    BY <1>1, <2>2 DEF Notes
  <2>5. QED
    BY <1>1, <1>2, <1>4, <2>1, <2>2, <2>3, <2>4, ChangeStep
<1>5. QED
  BY <1>1, <1>3, <1>4

\* A new conversation: the rows of those it is founded with.
Founded(q, v) ==
  /\ TInv' /\ Alone(q) /\ UNCHANGED <<members, listed, excused>>
  /\ pc[q] = "commit" /\ pc'[q] = "read"
  /\ kind[v] = "absent"
  /\ req[q].by \in Users /\ req[q].on \subseteq Users
  /\ RowsOnlyFor(v, {req[q].by} \cup req[q].on)
  /\ \A u \in {req[q].by} \cup req[q].on : row'[v][u] # NoRow /\ row'[v][u].id = q
  /\ owed'[q] = {v} \X ({req[q].by} \cup req[q].on)
  /\ Outdate(q, {v} \X ({req[q].by} \cup req[q].on))
  /\ req'[q].op = req[q].op /\ req'[q].by = req[q].by /\ req'[q].after = req[q].after

LEMMA CreateFacts ==
  ASSUME TInv, NEW q \in Requests, NEW v \in Conversations, CommitCreate(q, v) \/ CommitDM(q, v)
  PROVE  /\ Founded(q, v)
         /\ \/ req[q].op = "create" /\ kind' = [kind EXCEPT ![v] = "group"]
            \/ /\ req[q].op = "dm" /\ kind' = [kind EXCEPT ![v] = "dm"]
               /\ \A u \in {req[q].by} \cup req[q].on : row'[v][u].role = "MEMBER"
<1> DEFINE N == {req[q].by} \cup req[q].on
<1>1. /\ pc[q] = "commit" /\ req[q].op \in {"create", "dm"}
      /\ req[q] \in Request
  BY DEF CommitCreate, CommitDM, TInv, MembershipTypeOK
<1>2. req[q].on \subseteq Users
  BY <1>1 DEF Request
<1>3. req[q].by \in Users
  BY <1>1 DEF TInv, Shape
<1>4. CASE CommitCreate(q, v)
  <2> DEFINE f == [u \in N |-> IF u = req[q].by THEN "OWNER" ELSE "MEMBER"]
  <2>1. req[q].op = "create" /\ Found(q, v, "group", f)
    BY <1>4 DEF CommitCreate
  <2>2. f \in [N -> Roles] /\ N \in SUBSET Users
    BY <1>2, <1>3 DEF Roles
  <2> HIDE DEF f, N
  <2>3. /\ TInv'
        /\ kind[v] = "absent" /\ kind' = [kind EXCEPT ![v] = "group"]
        /\ RowsOnlyFor(v, N)
        /\ \A u \in N : row'[v][u] # NoRow /\ row'[v][u].id = q
        /\ Alone(q) /\ pc'[q] = "read" /\ owed'[q] = {v} \X N
        /\ req'[q].op = req[q].op /\ req'[q].by = req[q].by /\ req'[q].after = req[q].after
        /\ Outdate(q, {v} \X N)
        /\ UNCHANGED <<members, listed, excused>>
    BY <1>1, <2>1, <2>2, FoundFacts
  <2>4. QED
    BY <1>1, <1>2, <1>3, <2>1, <2>3 DEF Founded, N
<1>5. CASE CommitDM(q, v)
  <2> DEFINE f == [u \in N |-> "MEMBER"]
  <2>1. req[q].op = "dm" /\ Found(q, v, "dm", f)
    BY <1>5 DEF CommitDM
  <2>2. f \in [N -> Roles] /\ N \in SUBSET Users /\ \A u \in N : f[u] = "MEMBER"
    BY <1>2, <1>3 DEF Roles
  <2> HIDE DEF f, N
  <2>3. /\ TInv'
        /\ kind[v] = "absent" /\ kind' = [kind EXCEPT ![v] = "dm"]
        /\ RowsOnlyFor(v, N)
        /\ \A u \in N : row'[v][u] # NoRow /\ row'[v][u].id = q /\ row'[v][u].role = f[u]
        /\ Alone(q) /\ pc'[q] = "read" /\ owed'[q] = {v} \X N
        /\ req'[q].op = req[q].op /\ req'[q].by = req[q].by /\ req'[q].after = req[q].after
        /\ Outdate(q, {v} \X N)
        /\ UNCHANGED <<members, listed, excused>>
    BY <1>1, <2>1, <2>2, FoundFacts
  <2>4. QED
    BY <1>1, <1>2, <1>3, <2>1, <2>2, <2>3 DEF Founded, N
<1>6. QED
  BY <1>4, <1>5

LEMMA CreateAgrees ==
  ASSUME TInv, CInv, NEW q \in Requests, NEW v \in Conversations,
         CommitCreate(q, v) \/ CommitDM(q, v)
  PROVE  CInv'
<1> DEFINE N == {req[q].by} \cup req[q].on
           P == {v} \X N
<1>1. /\ Alone(q) /\ SameCache /\ excused' = excused
      /\ pc[q] = "commit" /\ pc'[q] = "read"
      /\ N \in SUBSET Users /\ RowsOnlyFor(v, N)
      /\ \A u \in N : row'[v][u] # NoRow /\ row'[v][u].id = q
      /\ owed'[q] = P /\ Outdate(q, P)
      /\ req'[q].op \in {"create", "dm"}
  <2>1. Founded(q, v) /\ req[q].op \in {"create", "dm"}
    BY CreateFacts
  <2>2. QED
    BY <2>1 DEF Founded, SameCache
<1>2. /\ P \in SUBSET Pairs /\ \A p \in Pairs \ P : Row(p)' = Row(p)
      /\ \A p \in P : p[1] = v /\ p[2] \in N /\ Row(p)' = row'[v][p[2]]
  BY <1>1, OnlyPairs
<1>3. \A p \in P : Row(p)'.id = q /\ Member(p)'
  BY <1>1, <1>2 DEF Member, Participates, Row
<1>4. owed[q] = {} /\ Notes(q)'
  BY <1>1 DEF TInv, Shape, Notes
<1> HIDE DEF P, N
<1>5. \A p \in P : AgreesM(p)' /\ AgreesL(p)'
  BY <1>1, <1>3 DEF AgreesM, AgreesL, Inserter
<1>6. QED
  BY <1>1, <1>2, <1>3, <1>4, <1>5, ChangeStep

\* The end of a request that has written to the cache: what it does not write
\* and does not owe stays as it is.
LEMMA WrittenStep ==
  ASSUME TInv, CInv, NEW q \in Requests, NEW WM, NEW WL, Written(q, WM, WL)
  PROVE  /\ SameIds /\ \A x \in Requests : Notes(x)'
         /\ \A p \in Pairs \ owed[q] :
              /\ Inserter(p) => Inserter(p)'
              /\ Remover(p, {"cache"}) => Remover(p, {"cache"})'
              /\ Remover(p, {"cache", "unlist"}) => Remover(p, {"cache", "unlist"})'
         /\ excused'.members = (excused.members \ WM) \cup (WM \cap late[q])
         /\ excused'.listed = (excused.listed \ WL) \cup (WL \cap late[q])
<1>1. SameIds
  BY DatabaseIds DEF Written, SameDatabase
<1>2. Notes(q)'
  BY DEF Written, Notes
<1>3. \A x \in Requests : Notes(x)'
  BY <1>1, <1>2, OthersNote DEF Written
<1>4. QED
  BY <1>1, <1>3, CoversStay DEF Written, Excused, SameIds

LEMMA CacheMembersAgrees ==
  ASSUME TInv, CInv, NEW q \in Requests, CacheMembers(q)
  PROVE  CInv'
<1>1. /\ pc[q] = "cache" /\ req[q].op = "add"
      /\ members' = members \cup owed[q] /\ listed' = listed \cup owed[q]
      /\ Written(q, owed[q], owed[q])
  BY CacheMembersFacts
<1>2. /\ SameIds /\ \A x \in Requests : Notes(x)'
      /\ \A p \in Pairs \ owed[q] :
           /\ Inserter(p) => Inserter(p)'
           /\ Remover(p, {"cache"}) => Remover(p, {"cache"})'
           /\ Remover(p, {"cache", "unlist"}) => Remover(p, {"cache", "unlist"})'
      /\ excused'.members = (excused.members \ owed[q]) \cup (owed[q] \cap late[q])
      /\ excused'.listed = (excused.listed \ owed[q]) \cup (owed[q] \cap late[q])
  BY <1>1, WrittenStep
<1>3. ASSUME NEW p \in Pairs PROVE AgreesM(p)' /\ AgreesL(p)'
  <2>1. AgreesM(p) /\ AgreesL(p) /\ Notes(q) /\ (Member(p)' <=> Member(p))
    BY <1>2 DEF CInv, SameIds
  <2>2. CASE p \in owed[q]
    BY <1>1, <1>2, <2>1, <2>2 DEF AgreesM, AgreesL, Notes
  <2>3. CASE p \notin owed[q]
    BY <1>1, <1>2, <2>1, <2>3 DEF AgreesM, AgreesL
  <2>4. QED
    BY <2>2, <2>3
<1>4. QED
  BY <1>2, <1>3 DEF CInv

LEMMA CacheRemoveAgrees ==
  ASSUME TInv, CInv, NEW q \in Requests, CacheRemove(q)
  PROVE  CInv'
<1>1. /\ pc[q] = "cache" /\ req[q].op \in {"leave", "remove"}
      /\ members' = members \ owed[q] /\ listed' = listed
      /\ excused'.members = (excused.members \ owed[q]) \cup (owed[q] \cap late[q])
      /\ excused'.listed = excused.listed
      /\ pc'[q] = "unlist" /\ UNCHANGED <<req, owed, late>>
      /\ Alone(q) /\ SameDatabase
  BY CacheRemoveFacts DEF Excused
<1>2. SameIds
  BY <1>1, DatabaseIds DEF SameDatabase
<1>3. ASSUME NEW p \in Pairs PROVE AgreesM(p)' /\ AgreesL(p)'
  <2>1. /\ AgreesM(p) /\ AgreesL(p) /\ Notes(q)
        /\ (Member(p)' <=> Member(p)) /\ Row(p)'.id = Row(p).id
    BY <1>2 DEF CInv, SameIds
  <2>2. Inserter(p) => Inserter(p)'
    BY <1>1, <2>1 DEF Inserter
  <2>3. Remover(p, {"cache", "unlist"}) => Remover(p, {"cache", "unlist"})'
    BY <1>1 DEF Remover, Alone
  <2>4. AgreesL(p)'
    BY <1>1, <2>1, <2>2, <2>3 DEF AgreesL
  <2>5. CASE p \in owed[q]
    BY <1>1, <2>1, <2>4, <2>5 DEF AgreesM, Notes
  <2>6. CASE p \notin owed[q]
    BY <1>1, <2>1, <2>2, <2>4, <2>6, CoversStay DEF AgreesM
  <2>7. QED
    BY <2>5, <2>6
<1>4. Notes(q)'
  <2>1. Notes(q) /\ owed[q] \subseteq Pairs
    BY DEF CInv, TInv, MembershipTypeOK
  <2>2. QED
    BY <1>1, <1>2, <2>1 DEF Notes, SameIds
<1>5. QED
  BY <1>1, <1>2, <1>3, <1>4, OthersNote DEF CInv, LateKept

LEMMA UnlistAgrees ==
  ASSUME TInv, CInv, NEW q \in Requests, Unlist(q)
  PROVE  CInv'
<1>1. /\ pc[q] = "unlist" /\ req[q].op \in {"leave", "remove"}
      /\ members' = members /\ listed' = listed \ owed[q]
      /\ Written(q, {}, owed[q])
  BY UnlistFacts
<1>2. /\ SameIds /\ \A x \in Requests : Notes(x)'
      /\ \A p \in Pairs \ owed[q] :
           /\ Inserter(p) => Inserter(p)'
           /\ Remover(p, {"cache"}) => Remover(p, {"cache"})'
           /\ Remover(p, {"cache", "unlist"}) => Remover(p, {"cache", "unlist"})'
      /\ excused'.members = (excused.members \ {}) \cup ({} \cap late[q])
      /\ excused'.listed = (excused.listed \ owed[q]) \cup (owed[q] \cap late[q])
  BY <1>1, WrittenStep
<1>3. ASSUME NEW p \in Pairs PROVE AgreesM(p)' /\ AgreesL(p)'
  <2>1. /\ AgreesM(p) /\ AgreesL(p) /\ Notes(q)
        /\ (Member(p)' <=> Member(p)) /\ Row(p)'.id = Row(p).id
    BY <1>2 DEF CInv, SameIds
  <2>2. Inserter(p) => Inserter(p)'
    BY <1>1, <2>1 DEF Inserter, Written, Alone
  <2>3. Remover(p, {"cache"}) => Remover(p, {"cache"})'
    BY <1>1 DEF Remover, Written, Alone
  <2>4. AgreesM(p)'
    BY <1>1, <1>2, <2>1, <2>2, <2>3 DEF AgreesM
  <2>5. CASE p \in owed[q]
    BY <1>1, <1>2, <2>1, <2>4, <2>5 DEF AgreesL, Notes
  <2>6. CASE p \notin owed[q]
    BY <1>1, <1>2, <2>1, <2>4, <2>6 DEF AgreesL
  <2>7. QED
    BY <2>5, <2>6
<1>4. QED
  BY <1>2, <1>3 DEF CInv

LEMMA ReadAgrees ==
  ASSUME TInv, CInv, NEW q \in Requests, ReadParticipants(q)
  PROVE  CInv'
<1>1. /\ Alone(q) /\ LateKept(q) /\ SameDatabase /\ SameCache
      /\ excused' = excused /\ owed' = owed
      /\ \/ pc[q] = "read" /\ pc'[q] = "write"
         \/ pc[q] = "readall" /\ pc'[q] = "writeall"
      /\ req'[q].op = req[q].op
      /\ late'[q] = {} /\ Scope(q)' = Scope(q)
      /\ \A p \in Scope(q) : p \in req'[q].seen <=> Participates(p[1], p[2])
  BY ReadParticipantsFacts
<1>2. SameIds
  BY <1>1, DatabaseIds DEF SameDatabase
<1>3. ASSUME NEW p \in Pairs PROVE AgreesM(p)' /\ AgreesL(p)'
  <2>1. /\ AgreesM(p) /\ AgreesL(p)
        /\ (Member(p)' <=> Member(p)) /\ Row(p)'.id = Row(p).id
    BY <1>2 DEF CInv, SameIds
  <2>2. Inserter(p) => Inserter(p)'
    BY <1>1, <2>1 DEF Inserter, Alone
  <2>3. /\ Remover(p, {"cache"}) => Remover(p, {"cache"})'
        /\ Remover(p, {"cache", "unlist"}) => Remover(p, {"cache", "unlist"})'
    BY <1>1 DEF Remover, Alone
  <2>4. QED
    BY <1>1, <2>1, <2>2, <2>3 DEF AgreesM, AgreesL, SameCache
<1>4. Notes(q)'
  <2>1. Scope(q) \subseteq Pairs
    BY <1>1 DEF Scope, TInv, Shape, Pairs
  <2>2. QED
    BY <1>1, <1>2, <2>1 DEF Notes, SameIds, Member
<1>5. QED
  BY <1>1, <1>2, <1>3, <1>4, OthersNote DEF CInv

LEMMA SyncAgrees ==
  ASSUME TInv, CInv, NEW q \in Requests, SyncConversation(q) \/ SyncAll(q)
  PROVE  CInv'
<1> DEFINE S == req[q].seen
<1>1. PICK WM \in SUBSET Pairs, WL \in SUBSET Pairs :
        /\ Written(q, WM, WL)
        /\ S \subseteq WM /\ S \subseteq WL
        /\ members' = (members \ WM) \cup S
        /\ \/ /\ pc[q] = "write"
              /\ WM = {req[q].conv} \X Users /\ WL = S
              /\ listed' = listed \cup S
           \/ /\ pc[q] = "writeall"
              /\ listed' = (listed \ WL) \cup S
  BY SyncFacts
<1>2. /\ SameIds /\ \A x \in Requests : Notes(x)'
      /\ \A p \in Pairs \ owed[q] :
           /\ Inserter(p) => Inserter(p)'
           /\ Remover(p, {"cache"}) => Remover(p, {"cache"})'
           /\ Remover(p, {"cache", "unlist"}) => Remover(p, {"cache", "unlist"})'
      /\ excused'.members = (excused.members \ WM) \cup (WM \cap late[q])
      /\ excused'.listed = (excused.listed \ WL) \cup (WL \cap late[q])
  BY <1>1, WrittenStep
<1>3. /\ WM \subseteq Scope(q)
      /\ owed[q] \subseteq WM
      /\ pc[q] = "writeall" => owed[q] = {} /\ WL \subseteq Scope(q)
  BY <1>1 DEF Scope, TInv, Shape
<1>4. \A p \in Scope(q) : p \in late[q] \/ (p \in S <=> Member(p))
  BY <1>1 DEF CInv, Notes
<1>5. ASSUME NEW p \in Pairs PROVE AgreesM(p)' /\ AgreesL(p)'
  <2>1. /\ AgreesM(p) /\ AgreesL(p)
        /\ (Member(p)' <=> Member(p)) /\ Row(p)'.id = Row(p).id
    BY <1>2 DEF CInv, SameIds
  <2>2. Remover(p, {"cache", "unlist"}) => Remover(p, {"cache", "unlist"})'
    BY <1>1 DEF Remover, Written, Alone
  <2>3. AgreesM(p)'
    <3>1. CASE p \in WM
      BY <1>1, <1>2, <1>3, <1>4, <2>1, <3>1 DEF AgreesM
    <3>2. CASE p \notin WM
      BY <1>1, <1>2, <1>3, <2>1, <3>2 DEF AgreesM
    <3>3. QED
      BY <3>1, <3>2
  <2>4. AgreesL(p)'
    <3>1. CASE p \in WL
      <4>1. p \in late[q] \/ (p \in S <=> Member(p))
        BY <1>1, <1>3, <1>4, <3>1
      <4>2. QED
        BY <1>1, <1>2, <2>1, <3>1, <4>1 DEF AgreesL
    <3>2. CASE p \notin WL /\ p \notin owed[q]
      BY <1>1, <1>2, <2>1, <3>2 DEF AgreesL
    <3>3. CASE p \notin WL /\ p \in owed[q] /\ pc[q] = "write"
      <4>1. Inserter(p) => Inserter(p)' \/ q = Row(p).id
        BY <1>1, <2>1 DEF Inserter, Written, Alone
      <4>2. Member(p) => p \in late[q]
        BY <1>1, <1>3, <1>4, <3>3
      <4>3. Member(p) => Inserter(p)' \/ ~Inserter(p)
        BY <3>3, <4>1, <4>2 DEF CInv, Notes
      <4>4. QED
        BY <1>1, <1>2, <2>1, <2>2, <3>3, <4>3 DEF AgreesL
    <3>4. QED
      BY <1>1, <1>3, <3>1, <3>2, <3>3
  <2>5. QED
    BY <2>3, <2>4
<1>6. QED
  BY <1>2, <1>5 DEF CInv

-----------------------------------------------------------------------------
(* The theorems.                                                           *)

LEMMA Initially ==
  ASSUME MembershipInit
  PROVE  TInv /\ CInv
<1>1. /\ row \in [Conversations -> [Users -> Rows \cup {NoRow}]]
      /\ kind \in [Conversations -> Kinds]
  BY FirstAssumption, NoneIsNone DEF MembershipInit, Rows
<1>2. /\ members = RowsOf(Conversations) /\ listed = RowsOf(Conversations)
      /\ \A q \in Requests : pc[q] = "new" /\ req[q] = NoRequest /\ owed[q] = {} /\ late[q] = {}
      /\ excused = [members |-> {}, listed |-> {}]
  BY DEF MembershipInit
<1>3. MembershipTypeOK
  BY <1>1, <1>2, RowsOfFacts, RequestTypes
     DEF MembershipInit, MembershipTypeOK, Steps, Pairs
<1>4. \A q \in Requests : Shape(q) /\ Notes(q)
  BY <1>2 DEF Shape, Notes
<1>5. \A p \in Pairs : AgreesM(p) /\ AgreesL(p)
  BY <1>2, RowsOfFacts DEF AgreesM, AgreesL, Member, Pairs
<1>6. QED
  BY <1>3, <1>4, <1>5 DEF TInv, CInv

LEMMA StepKeepsTInv ==
  ASSUME TInv, NEW q \in Requests,
         Check(q) \/ Commit(q) \/ UpdateCache(q) \/ Abort(q)
  PROVE  TInv'
<1>1. CASE Check(q)
  <2>1. CASE FindNew(q) \/ FindTarget(q)
    BY <2>1, FindFacts
  <2>2. CASE ~FindNew(q) /\ ~FindTarget(q)
    <3>1. PICK r \in Request, s \in Steps : Asked(q, r, s)
      BY <1>1, <2>2, ChecksAsk DEF TInv
    <3>2. QED
      BY <3>1, AskShape
  <2>3. QED
    BY <2>1, <2>2
<1>2. CASE Commit(q)
  BY <1>2, CreateFacts, InsertFailsFacts, CommitAddFacts, CommitJoinFacts, CommitDeleteFacts,
     CommitRoleFacts, CommitDeleteGroupFacts, CommitDeleteDMFacts DEF Commit, Founded
<1>3. CASE UpdateCache(q)
  BY <1>3, CacheMembersFacts, CacheRemoveFacts, UnlistFacts, ReadParticipantsFacts, SyncFacts,
     ElsewhereAborts, AbortFacts DEF UpdateCache, Written
<1>4. CASE Abort(q)
  BY <1>4, AbortFacts
<1>5. QED
  BY <1>1, <1>2, <1>3, <1>4

LEMMA StepKeepsCInv ==
  ASSUME TInv, CInv, NEW q \in Requests,
         Check(q) \/ Commit(q) \/ UpdateCache(q) \/ Abort(q)
  PROVE  CInv'
<1>1. CASE Check(q)
  <2>1. CASE FindNew(q) \/ FindTarget(q)
    BY <2>1, CalmAgrees
  <2>2. CASE ~FindNew(q) /\ ~FindTarget(q)
    <3>1. PICK r \in Request, s \in Steps : Asked(q, r, s)
      BY <1>1, <2>2, ChecksAsk DEF TInv
    <3>2. QED
      BY <3>1, AskAgrees
  <2>3. QED
    BY <2>1, <2>2
<1>2. CASE Commit(q)
  BY <1>2, CreateAgrees, CalmAgrees, AddAgrees, JoinAgrees, DeleteAgrees, DeleteDMAgrees
     DEF Commit
<1>3. CASE UpdateCache(q)
  BY <1>3, CacheMembersAgrees, CacheRemoveAgrees, UnlistAgrees, ReadAgrees, SyncAgrees,
     ElsewhereAborts, AbortAgrees DEF UpdateCache
<1>4. CASE Abort(q)
  BY <1>4, AbortAgrees
<1>5. QED
  BY <1>1, <1>2, <1>3, <1>4

\* Redis restarts: the rows and the requests stay, and what had a row is excused.
LEMMA LossKeepsInvs ==
  ASSUME TInv, CInv, LoseCache
  PROVE  TInv' /\ CInv'
<1>1. /\ UNCHANGED <<kind, row, pc, req, owed, late>> /\ members' = {} /\ listed' = {}
      /\ Excuse(RowsOf(Conversations))
  BY DEF LoseCache, database
<1>2. RowsOf(Conversations) \in SUBSET Pairs /\ \A p \in Pairs : Member(p) => p \in RowsOf(Conversations)
  BY DEF RowsOf, Pairs, Member
<1>3. /\ excused' \in [members : SUBSET Pairs, listed : SUBSET Pairs]
      /\ excused'.members = excused.members \cup RowsOf(Conversations)
      /\ excused'.listed = excused.listed \cup RowsOf(Conversations)
  BY <1>1, <1>2, ExcuseFacts DEF TInv
<1>4. TInv'
  BY <1>1, <1>3 DEF TInv, MembershipTypeOK, Shape
<1>5. ASSUME NEW p \in Pairs PROVE AgreesM(p)' /\ AgreesL(p)'
  <2>1. Member(p)' <=> Member(p)
    BY <1>1 DEF Member, Participates
  <2>2. CASE Member(p)
    BY <1>2, <1>3, <2>2 DEF AgreesM, AgreesL
  <2>3. CASE ~Member(p)
    BY <1>1, <2>1, <2>3 DEF AgreesM, AgreesL
  <2>4. QED
    BY <2>2, <2>3
<1>6. \A q \in Requests : Notes(q)'
  BY <1>1 DEF CInv, Notes, Member, Participates, Row, Scope
<1>7. QED
  BY <1>4, <1>5, <1>6 DEF CInv

LEMMA StutterKeepsInvs ==
  ASSUME TInv, CInv, UNCHANGED membershipVars
  PROVE  TInv' /\ CInv'
<1>1. UNCHANGED <<kind, row, members, listed, pc, req, owed, late, excused>>
  BY DEF membershipVars, database, cache
<1>2. TInv'
  BY <1>1 DEF TInv, MembershipTypeOK, Shape
<1>3. CInv'
  BY <1>1 DEF CInv, AgreesM, AgreesL, Notes, Inserter, Remover, Member, Participates, Row, Scope
<1>4. QED
  BY <1>2, <1>3

\* Types, what a request is about, and how the cache agrees: all three hold in
\* every state.
THEOREM MembershipInvariant == MembershipSpec => [](TInv /\ CInv)
<1>1. MembershipInit => TInv /\ CInv
  BY Initially
<1>2. TInv /\ CInv /\ [MembershipNext]_membershipVars => (TInv /\ CInv)'
  BY StepKeepsTInv, StepKeepsCInv, LossKeepsInvs, StutterKeepsInvs DEF MembershipNext
<1>3. QED
  BY <1>1, <1>2, PTL DEF MembershipSpec

\* Every variable always holds a value of its type.
THEOREM MembershipTypesCorrect == MembershipSpec => []MembershipTypeOK
<1>1. TInv => MembershipTypeOK
  BY DEF TInv
<1>2. QED
  BY <1>1, MembershipInvariant, PTL

\* However many requests run at the same time, wherever they fail, and whenever Redis
\* restarts: a user is in the cache exactly if the user has a row, but for the pairs a
\* request has changed and is still to write, and for those that were excused: by an
\* overtaken, failed or join_group request, by a deleted dm, by another spelling of the id,
\* or by the restart, and not written since.
THEOREM CacheAlwaysFollows == MembershipSpec => []CacheFollowsRows
<1>1. TInv /\ CInv => CacheFollowsRows
  <2>1. SUFFICES ASSUME TInv, CInv, NEW p \in Pairs, Expected(p)
                 PROVE  /\ p \notin excused.members => (p \in members <=> Member(p))
                        /\ p \notin excused.listed => (p \in listed <=> Member(p))
    BY DEF CacheFollowsRows, Member
  <2>2. ~Inserter(p) /\ ~Remover(p, {"cache"}) /\ ~Remover(p, {"cache", "unlist"})
    BY <2>1 DEF Expected, Inserter, Remover
  <2>3. QED
    BY <2>1, <2>2 DEF CInv, AgreesM, AgreesL
<1>2. QED
  BY <1>1, MembershipInvariant, PTL

-----------------------------------------------------------------------------
(* The kinds of conversations and the roles in them: a dm is for two, and  *)
(* the owner of a group stays.                                             *)

\* Whether v is a dm of two members, as it is now.
IsDM(v) ==
  /\ Cardinality(Participants(v)) = 2
  /\ \A u \in Users : row[v][u].role \in {"MEMBER", None}

KindRows(v) ==
  /\ kind[v] \in {"absent", "erased"} => \A u \in Users : ~Participates(v, u)
  /\ kind[v] = "dm" => IsDM(v)

\* What has been checked when a request was made still holds.
Checked(q) ==
  /\ (pc[q] \in {"check", "commit"} /\ req[q].op \in {"join", "add", "leave", "remove",
                                                    "promote", "dismiss", "delgroup"}) =>
       kind[req[q].conv] \in Groups
  /\ pc[q] = "commit" =>
       /\ req[q].op = "deldm" => kind[req[q].conv] \in {"dm", "erased"}
       /\ req[q].op = "dm" => \E t \in Users \ {req[q].by} : req[q].on = {t}
       /\ req[q].op = "leave" => req[q].on = {req[q].by}
       /\ req[q].op \in {"remove", "promote", "dismiss"} =>
            \A t \in req[q].on :
              (Participates(req[q].conv, t) /\ row[req[q].conv][t].id = req[q].row.id) =>
                row[req[q].conv][t].role # "OWNER"
  /\ (pc[q] \in {"check", "commit"} /\ req[q].op \in {"remove", "promote", "dismiss"}) =>
       \E t \in Users : req[q].on = {t}

KInv == /\ \A v \in Conversations : KindRows(v)
        /\ \A q \in Requests : Checked(q)

SameRows(v) == \A u \in Users : row'[v][u] = row[v][u]

\* What a step may do to a conversation: to a group, make one, erase a dm.
MayChange(v) ==
  \/ SameRows(v) /\ kind'[v] = kind[v]
  \/ /\ kind[v] \in Groups /\ kind'[v] \in Groups
     /\ \A u \in Users : row'[v][u] = row[v][u] \/ row'[v][u].role # "OWNER"
  \/ kind[v] = "absent" /\ kind'[v] = "group"
  \/ kind[v] = "absent" /\ kind'[v] = "dm" /\ IsDM(v)'
  \/ /\ kind[v] \in {"dm", "erased"} /\ kind'[v] = "erased"
     /\ \A u \in Users : row'[v][u] = NoRow

LEMMA OthersChecked ==
  ASSUME TInv, KInv, NEW q \in Requests, Alone(q), \A v \in Conversations : MayChange(v),
         NEW x \in Requests \ {q}
  PROVE  Checked(x)'
<1>1. Checked(x) /\ pc'[x] = pc[x] /\ req'[x] = req[x] /\ Shape(x) /\ req[x] \in Request
  BY DEF KInv, Alone, TInv, MembershipTypeOK
<1>2. \A v \in Conversations : /\ kind[v] \in Groups => kind'[v] \in Groups
                               /\ kind[v] \in {"dm", "erased"} => kind'[v] \in {"dm", "erased"}
  BY DEF MayChange, Groups
<1>3. ASSUME pc[x] = "commit", req[x].op \in {"remove", "promote", "dismiss"},
             NEW t \in req[x].on, row'[req[x].conv][t] # NoRow,
             row'[req[x].conv][t].id = req[x].row.id
      PROVE  row'[req[x].conv][t].role # "OWNER"
  <2>1. req[x].conv \in Conversations /\ kind[req[x].conv] \in Groups /\ t \in Users
    BY <1>1, <1>3 DEF Shape, Checked, Request
  <2>2. MayChange(req[x].conv)
    BY <2>1
  <2>3. row'[req[x].conv][t] = row[req[x].conv][t] \/ row'[req[x].conv][t].role # "OWNER"
    BY <2>1, <2>2 DEF MayChange, SameRows, Groups
  <2>4. QED
    BY <1>1, <1>3, <2>3 DEF Checked, Participates
<1>4. pc[x] \in {"check", "commit"} /\ req[x].op \notin {"create", "dm"} =>
        req[x].conv \in Conversations
  BY <1>1 DEF Shape
<1>5. ASSUME pc[x] \in {"check", "commit"},
             req[x].op \in {"join", "add", "leave", "remove", "promote", "dismiss", "delgroup"}
      PROVE  kind'[req[x].conv] \in Groups
  <2>1. req[x].conv \in Conversations
    BY <1>4, <1>5
  <2>2. kind[req[x].conv] \in Groups
    BY <1>1, <1>5 DEF Checked
  <2>3. QED
    BY <1>2, <2>1, <2>2
<1>6. ASSUME pc[x] = "commit", req[x].op = "deldm"
      PROVE  kind'[req[x].conv] \in {"dm", "erased"}
  <2>1. req[x].conv \in Conversations
    BY <1>4, <1>6
  <2>2. kind[req[x].conv] \in {"dm", "erased"}
    BY <1>1, <1>6 DEF Checked
  <2>3. QED
    BY <1>2, <2>1, <2>2
<1>7. QED
  BY <1>1, <1>3, <1>5, <1>6 DEF Checked, Participates

LEMMA KindRowsStay ==
  ASSUME TInv, TInv', KInv, NEW v \in Conversations, MayChange(v)
  PROVE  KindRows(v)'
<1>1. KindRows(v)
  BY DEF KInv
<1>2. CASE SameRows(v) /\ kind'[v] = kind[v]
  <2>1. Participants(v)' = Participants(v) /\ \A u \in Users : row'[v][u] = row[v][u]
    BY <1>2 DEF SameRows, Participants, Participates
  <2>2. QED
    BY <1>1, <1>2, <2>1 DEF KindRows, IsDM, Participates
<1>3. CASE kind'[v] \in Groups
  BY <1>3 DEF KindRows, Groups
<1>4. CASE kind'[v] = "dm" /\ IsDM(v)'
  BY <1>4 DEF KindRows
<1>5. CASE kind'[v] = "erased" /\ \A u \in Users : row'[v][u] = NoRow
  BY <1>5 DEF KindRows, Participates
<1>6. QED
  BY <1>2, <1>3, <1>4, <1>5 DEF MayChange, Groups

\* A step of q keeps the invariant if the conversations change as they may and
\* q's own checks hold.
LEMMA KStep ==
  ASSUME TInv, TInv', KInv, NEW q \in Requests, Alone(q),
         \A v \in Conversations : MayChange(v), Checked(q)'
  PROVE  KInv'
BY OthersChecked, KindRowsStay DEF KInv


-----------------------------------------------------------------------------
(* The steps.                                                              *)

\* What a step of q may do to the role of an owner.
RolesSafe(q) ==
  \A v \in Conversations, u \in Users : row'[v][u] # row[v][u] =>
    /\ row[v][u].role = "OWNER" =>
         req[q].op = "leave" /\ req[q].by = u /\ pc[q] = "commit" /\ pc'[q] = "cache"
    /\ row'[v][u].role = "OWNER" => kind[v] = "absent"

Allowed(q) == (\A v \in Conversations : MayChange(v)) /\ Checked(q)' /\ RolesSafe(q)

LEMMA SameRowsAllowed ==
  ASSUME SameDatabase, NEW q, Checked(q)'
  PROVE  Allowed(q)
BY DEF SameDatabase, MayChange, SameRows, RolesSafe, Allowed

\* The last steps of a request, and those after its commit, have nothing to check.
LEMMA LateChecked ==
  ASSUME NEW q, pc'[q] \notin {"check", "commit"}
  PROVE  Checked(q)'
BY DEF Checked

LEMMA ManagersOfGroups ==
  ASSUME TInv, KInv, NEW v \in Conversations, NEW u \in Users, IsManager(v, u)
  PROVE  kind[v] \in Groups
<1>1. KindRows(v) /\ kind[v] \in Kinds /\ row[v][u].role \in {"OWNER", "ADMIN"}
  BY DEF KInv, TInv, MembershipTypeOK, IsManager, Managers
<1>2. row[v][u] # NoRow /\ row[v][u].role \notin {"MEMBER", None}
  BY <1>1, RowFacts, NoneIsNone DEF Roles
<1>3. QED
  BY <1>1, <1>2 DEF KindRows, IsDM, Participates, Kinds, Groups

LEMMA AskAllowed ==
  ASSUME TInv, KInv, NEW q \in Requests, NEW r, NEW s, Asked(q, r, s)
  PROVE  Allowed(q)
<1>1. /\ pc' = [pc EXCEPT ![q] = s] /\ req' = [req EXCEPT ![q] = r]
      /\ kind' = kind /\ row' = row
  BY DEF Asked, Ask, database
<1>2. pc'[q] = s /\ req'[q] = r
  BY <1>1 DEF TInv, MembershipTypeOK
<1>3. r.op \in {"add", "remove", "promote", "dismiss"} => kind[r.conv] \in Groups
  BY ManagersOfGroups DEF Asked
<1>4. s = "commit" => r.op \notin {"remove", "promote", "dismiss"}
  BY DEF Asked
<1>5. s \in {"check", "commit"} /\ r.op \in {"join", "leave", "delgroup"} =>
        kind[r.conv] \in Groups
  BY DEF Asked
<1>6. s = "commit" => /\ r.op = "deldm" => kind[r.conv] = "dm"
                      /\ r.op = "dm" => \E t \in Users \ {r.by} : r.on = {t}
                      /\ r.op = "leave" => r.on = {r.by}
  BY DEF Asked
<1>7. r.op \in {"remove", "promote", "dismiss"} => \E t \in Users : r.on = {t}
  BY DEF Asked
<1>8. Checked(q)'
  BY <1>1, <1>2, <1>3, <1>4, <1>5, <1>6, <1>7 DEF Checked
<1>9. QED
  BY <1>1, <1>8, SameRowsAllowed DEF SameDatabase

LEMMA FindAllowed ==
  ASSUME TInv, KInv, NEW q \in Requests, FindNew(q) \/ FindTarget(q)
  PROVE  Allowed(q)
<1>1. SameDatabase /\ pc[q] = "check"
  BY FindFacts
<1>2. /\ Checked(q) /\ Shape(q) /\ req[q].conv \in Conversations
      /\ req[q].op \in {"add", "remove", "promote", "dismiss"}
      /\ kind[req[q].conv] \in Groups
  BY <1>1 DEF KInv, TInv, Shape, Checked
<1>3. CASE pc'[q] = "done"
  BY <1>1, <1>3, LateChecked, SameRowsAllowed
<1>4. CASE pc'[q] = "commit" /\ FindNew(q)
  <2>1. req'[q].op = "add" /\ req'[q].conv = req[q].conv
    BY <1>4, FindFacts
  <2>2. Checked(q)'
    BY <1>1, <1>2, <1>4, <2>1 DEF Checked, SameDatabase
  <2>3. QED
    BY <1>1, <2>2, SameRowsAllowed
<1>5. CASE pc'[q] = "commit" /\ FindTarget(q)
  <2>1. req[q].op \in {"remove", "promote", "dismiss"}
    BY <1>2, <1>5 DEF FindTarget
  <2>2. PICK t \in Users : req[q].on = {t}
    BY <1>1, <1>2, <2>1 DEF Checked
  <2>3. /\ req'[q].op = req[q].op /\ req'[q].conv = req[q].conv /\ req'[q].on = {t}
        /\ req'[q].row = row[req[q].conv][t]
        /\ row[req[q].conv][t].role \in MayBe(req[q].op)
    BY <1>5, <2>2, FindFacts
  <2>4. row[req[q].conv][t].role # "OWNER"
    BY <2>1, <2>3 DEF MayBe
  <2>5. Checked(q)'
    BY <1>1, <1>2, <1>5, <2>1, <2>2, <2>3, <2>4 DEF Checked, SameDatabase
  <2>6. QED
    BY <1>1, <2>5, SameRowsAllowed
<1>6. QED
  BY <1>3, <1>4, <1>5, FindFacts

\* Of the group v, the rows of the users N are changed, as they may be.
LEMMA GroupAllowed ==
  ASSUME TInv, NEW q, NEW v \in Conversations, NEW N \in SUBSET Users,
         kind[v] \in Groups, kind' = kind, RowsOnlyFor(v, N), Checked(q)',
         \A u \in N : row'[v][u].role # "OWNER",
         \A u \in N : row[v][u].role = "OWNER" =>
           req[q].op = "leave" /\ req[q].by = u /\ pc[q] = "commit" /\ pc'[q] = "cache"
  PROVE  Allowed(q)
<1>1. \A w \in Conversations, u \in Users : ~(w = v /\ u \in N) => row'[w][u] = row[w][u]
  BY DEF RowsOnlyFor
<1>2. \A w \in Conversations : MayChange(w)
  BY <1>1 DEF MayChange, SameRows
<1>3. RolesSafe(q)
  BY <1>1 DEF RolesSafe
<1>4. QED
  BY <1>2, <1>3 DEF Allowed

LEMMA NoRowNoOwner ==
  /\ NoRow.role # "OWNER"
  /\ \A v \in Conversations, u \in Users : ~Participates(v, u) => row[v][u].role # "OWNER"
BY RowFacts, NoneIsNone DEF Participates, Roles

LEMMA InsertAllowed ==
  ASSUME TInv, KInv, NEW q \in Requests, CommitAdd(q) \/ CommitJoin(q)
  PROVE  Allowed(q)
<1>1. /\ pc[q] = "commit" /\ req[q].op \in {"add", "join"}
      /\ req[q].conv \in Conversations /\ req[q].on \in SUBSET Users
      /\ \A t \in req[q].on : ~Participates(req[q].conv, t)
      /\ RowsOnlyFor(req[q].conv, req[q].on) /\ kind' = kind
      /\ \A u \in req[q].on : row'[req[q].conv][u].role = "MEMBER"
  <2>1. CASE CommitAdd(q)
    <3>1. CommitInsert(q, "add")
      BY <2>1 DEF CommitAdd
    <3>2. /\ req[q].op = "add" /\ kind' = kind
          /\ \A t \in req[q].on : ~Participates(req[q].conv, t)
      BY <3>1 DEF CommitInsert
    <3>3. /\ req[q].conv \in Conversations /\ req[q].on \in SUBSET Users
          /\ pc[q] = "commit" /\ RowsOnlyFor(req[q].conv, req[q].on)
      BY <3>1, CommitInsertFacts
    <3>4. \A u \in req[q].on : /\ row'[req[q].conv][u] # NoRow
                               /\ row'[req[q].conv][u].id = q
                               /\ row'[req[q].conv][u].role = "MEMBER"
      BY <3>1, CommitInsertFacts
    <3>5. QED
      BY <3>2, <3>3, <3>4
  <2>2. CASE CommitJoin(q)
    <3>1. CommitInsert(q, "join")
      BY <2>2 DEF CommitJoin
    <3>2. /\ req[q].op = "join" /\ kind' = kind
          /\ \A t \in req[q].on : ~Participates(req[q].conv, t)
      BY <3>1 DEF CommitInsert
    <3>3. /\ req[q].conv \in Conversations /\ req[q].on \in SUBSET Users
          /\ pc[q] = "commit" /\ RowsOnlyFor(req[q].conv, req[q].on)
      BY <3>1, CommitInsertFacts
    <3>4. \A u \in req[q].on : /\ row'[req[q].conv][u] # NoRow
                               /\ row'[req[q].conv][u].id = q
                               /\ row'[req[q].conv][u].role = "MEMBER"
      BY <3>1, CommitInsertFacts
    <3>5. QED
      BY <3>2, <3>3, <3>4
  <2>3. QED
    BY <2>1, <2>2
<1>2. kind[req[q].conv] \in Groups
  BY <1>1 DEF KInv, Checked
<1>3. Checked(q)'
  BY CommitAddFacts, CommitJoinFacts, LateChecked
<1>4. \A u \in req[q].on : row[req[q].conv][u].role # "OWNER"
  BY <1>1, NoRowNoOwner
<1>5. QED
  BY <1>1, <1>2, <1>3, <1>4, GroupAllowed

LEMMA DeleteAllowed ==
  ASSUME TInv, KInv, NEW q \in Requests, CommitDelete(q)
  PROVE  Allowed(q)
<1> DEFINE v == req[q].conv
           N == req[q].on
<1>1. /\ pc[q] = "commit" /\ req[q].op \in {"leave", "remove"}
      /\ v \in Conversations /\ N \in SUBSET Users /\ pc'[q] = "cache" /\ kind' = kind
      /\ \/ row' = row
         \/ /\ RowsOnlyFor(v, N)
            /\ \A u \in N : /\ row'[v][u] = NoRow
                            /\ Participates(v, u) => row[v][u].id = req[q].row.id
  BY CommitDeleteFacts
<1>2. Checked(q)'
  BY <1>1, LateChecked
<1>3. kind[v] \in Groups /\ Checked(q)
  BY <1>1 DEF KInv, Checked
<1>4. CASE row' = row
  BY <1>1, <1>2, <1>4, SameRowsAllowed DEF SameDatabase
<1>5. CASE /\ RowsOnlyFor(v, N)
           /\ \A u \in N : /\ row'[v][u] = NoRow
                           /\ Participates(v, u) => row[v][u].id = req[q].row.id
  <2>1. ASSUME NEW u \in N, row[v][u].role = "OWNER"
        PROVE  req[q].op = "leave" /\ req[q].by = u
    <3>1. Participates(v, u) /\ row[v][u].id = req[q].row.id
      BY <1>1, <1>5, <2>1, NoRowNoOwner
    <3>2. req[q].op # "remove"
      BY <1>1, <1>3, <2>1, <3>1 DEF Checked
    <3>3. req[q].op = "leave" => N = {req[q].by}
      BY <1>1, <1>3 DEF Checked
    <3>4. QED
      BY <1>1, <2>1, <3>2, <3>3
  <2>2. \A u \in N : row'[v][u].role # "OWNER"
    BY <1>5, NoRowNoOwner
  <2> HIDE DEF v, N
  <2>3. QED
    BY <1>1, <1>2, <1>3, <1>5, <2>1, <2>2, GroupAllowed
<1>6. QED
  BY <1>1, <1>4, <1>5

LEMMA RoleAllowed ==
  ASSUME TInv, KInv, NEW q \in Requests, CommitRole(q)
  PROVE  Allowed(q)
<1>1. /\ pc[q] = "commit" /\ req[q].op \in {"promote", "dismiss"}
      /\ req[q].conv \in Conversations /\ pc'[q] \in {"done", "read"} /\ kind' = kind
      /\ \/ row' = row
         \/ \E t \in req[q].on :
              /\ RowsOnlyFor(req[q].conv, {t})
              /\ Participates(req[q].conv, t)
              /\ row[req[q].conv][t].id = req[q].row.id
              /\ row'[req[q].conv][t].role \in {"ADMIN", "MEMBER"}
  BY CommitRoleFacts
<1>2. Checked(q)'
  BY <1>1, LateChecked
<1>3. Checked(q) /\ kind[req[q].conv] \in Groups /\ req[q].on \subseteq Users
  BY <1>1 DEF KInv, Checked, TInv, MembershipTypeOK, Request
<1>4. CASE row' = row
  BY <1>1, <1>2, <1>4, SameRowsAllowed DEF SameDatabase
<1>5. CASE row' # row
  <2>1. PICK t \in req[q].on :
              /\ RowsOnlyFor(req[q].conv, {t})
              /\ Participates(req[q].conv, t)
              /\ row[req[q].conv][t].id = req[q].row.id
              /\ row'[req[q].conv][t].role \in {"ADMIN", "MEMBER"}
    BY <1>1, <1>5
  <2>2. row[req[q].conv][t].role # "OWNER"
    BY <1>1, <1>3, <2>1 DEF Checked
  <2>3. {t} \in SUBSET Users
    BY <1>3
  <2>4. QED
    BY <1>1, <1>2, <1>3, <2>1, <2>2, <2>3, GroupAllowed
<1>6. QED
  BY <1>4, <1>5

LEMMA DeleteGroupAllowed ==
  ASSUME TInv, KInv, NEW q \in Requests, CommitDeleteGroup(q)
  PROVE  Allowed(q)
<1>1. /\ pc[q] = "commit" /\ req[q].op = "delgroup" /\ pc'[q] = "done"
      /\ row' = row /\ kind' = [kind EXCEPT ![req[q].conv] = "deleted"]
      /\ req[q].conv \in Conversations /\ kind \in [Conversations -> Kinds]
  BY CommitDeleteGroupFacts DEF TInv, Shape, MembershipTypeOK
<1>2. kind[req[q].conv] \in Groups
  BY <1>1 DEF KInv, Checked
<1>3. \A v \in Conversations : MayChange(v)
  BY <1>1, <1>2 DEF MayChange, SameRows, Groups
<1>4. QED
  BY <1>1, <1>3, LateChecked DEF Allowed, RolesSafe

LEMMA DeleteDMAllowed ==
  ASSUME TInv, KInv, NEW q \in Requests, CommitDeleteDM(q)
  PROVE  Allowed(q)
<1> DEFINE v == req[q].conv
<1>1. /\ pc[q] = "commit" /\ req[q].op = "deldm" /\ v \in Conversations /\ pc'[q] = "done"
      /\ kind' = [kind EXCEPT ![v] = "erased"] /\ kind \in [Conversations -> Kinds]
      /\ RowsOnlyFor(v, Users) /\ \A u \in Users : row'[v][u] = NoRow
  BY CommitDeleteDMFacts DEF TInv, MembershipTypeOK
<1>2. kind[v] \in {"dm", "erased"} /\ KindRows(v)
  BY <1>1 DEF KInv, Checked
<1>3. \A w \in Conversations, u \in Users : w # v => row'[w][u] = row[w][u]
  BY <1>1 DEF RowsOnlyFor
<1> HIDE DEF v
<1>4. \A w \in Conversations : MayChange(w)
  BY <1>1, <1>2, <1>3 DEF MayChange, SameRows
<1>5. \A u \in Users : row[v][u].role # "OWNER"
  <2>1. \A u \in Users : row[v][u].role \in {"MEMBER", None} \/ ~Participates(v, u)
    BY <1>2 DEF KindRows, IsDM
  <2>2. QED
    BY <1>1, <2>1, NoRowNoOwner, NoneIsNone DEF Roles
<1>6. RolesSafe(q)
  BY <1>1, <1>3, <1>5, NoRowNoOwner DEF RolesSafe
<1>7. QED
  BY <1>1, <1>4, <1>6, LateChecked DEF Allowed

LEMMA PairCard ==
  ASSUME NEW u, NEW t, u # t
  PROVE  Cardinality({u, t}) = 2
<1>1. IsFiniteSet({u}) /\ Cardinality({u}) = 1
  BY FS_Singleton
<1>2. IsFiniteSet({u} \cup {t}) /\ Cardinality({u} \cup {t}) = 2
  BY <1>1, FS_AddElement
<1>3. {u} \cup {t} = {u, t}
  OBVIOUS
<1>4. QED
  BY <1>2, <1>3

LEMMA CreateAllowed ==
  ASSUME TInv, KInv, NEW q \in Requests, NEW v \in Conversations,
         CommitCreate(q, v) \/ CommitDM(q, v)
  PROVE  Allowed(q)
<1> DEFINE N == {req[q].by} \cup req[q].on
<1>1. /\ pc[q] = "commit" /\ pc'[q] = "read" /\ kind[v] = "absent"
      /\ N \in SUBSET Users /\ RowsOnlyFor(v, N)
      /\ \A u \in N : row'[v][u] # NoRow
      /\ \/ req[q].op = "create" /\ kind' = [kind EXCEPT ![v] = "group"]
         \/ /\ req[q].op = "dm" /\ kind' = [kind EXCEPT ![v] = "dm"]
            /\ \A u \in N : row'[v][u].role = "MEMBER"
      /\ kind \in [Conversations -> Kinds]
  <2>1. /\ Founded(q, v)
        /\ \/ req[q].op = "create" /\ kind' = [kind EXCEPT ![v] = "group"]
           \/ /\ req[q].op = "dm" /\ kind' = [kind EXCEPT ![v] = "dm"]
              /\ \A u \in N : row'[v][u].role = "MEMBER"
    BY CreateFacts
  <2>2. req[q].by \in Users /\ req[q].on \subseteq Users
    BY <2>1 DEF Founded
  <2>3. kind \in [Conversations -> Kinds] /\ N \in SUBSET Users
    BY <2>2 DEF TInv, MembershipTypeOK
  <2>4. QED
    BY <2>1, <2>3 DEF Founded
<1>2. \A w \in Conversations, u \in Users : ~(w = v /\ u \in N) => row'[w][u] = row[w][u]
  BY <1>1 DEF RowsOnlyFor
<1>3. \A u \in Users : row[v][u] = NoRow
  BY <1>1 DEF KInv, KindRows, Participates
<1>4. Checked(q) /\ Checked(q)'
  BY <1>1, LateChecked DEF KInv
<1>5. req[q].op = "dm" => IsDM(v)'
  <2>1. SUFFICES ASSUME req[q].op = "dm" PROVE IsDM(v)'
    OBVIOUS
  <2>2. PICK t \in Users \ {req[q].by} : req[q].on = {t}
    BY <1>1, <1>4, <2>1 DEF Checked
  <2>3. N = {req[q].by, t}
    BY <2>2
  <2>4. Cardinality({req[q].by, t}) = 2
    BY <2>2, PairCard
  <2>5. Participants(v)' = N
    BY <1>1, <1>2, <1>3 DEF Participants, Participates
  <2>6. \A u \in Users : row'[v][u].role \in {"MEMBER", None}
    BY <1>1, <1>2, <1>3, <2>1, RowFacts
  <2>7. QED
    BY <2>3, <2>4, <2>5, <2>6 DEF IsDM
<1> HIDE DEF N
<1>6. ASSUME NEW w \in Conversations PROVE MayChange(w)
  <2>1. CASE w = v
    BY <1>1, <1>5, <2>1 DEF MayChange
  <2>2. CASE w # v
    BY <1>1, <1>2, <2>2 DEF MayChange, SameRows
  <2>3. QED
    BY <2>1, <2>2
<1>7. RolesSafe(q)
  BY <1>1, <1>2, <1>3, NoRowNoOwner DEF RolesSafe
<1>8. QED
  BY <1>4, <1>6, <1>7 DEF Allowed

LEMMA CacheAllowed ==
  ASSUME TInv, NEW q \in Requests, UpdateCache(q) \/ InsertFails(q) \/ Abort(q)
  PROVE  Allowed(q)
<1>1. SameDatabase /\ pc'[q] \in {"done", "unlist", "write", "writeall"}
  <2>1. CASE CacheMembers(q) \/ Unlist(q)
    BY <2>1, CacheMembersFacts, UnlistFacts DEF Written
  <2>2. CASE CacheRemove(q) \/ ReadParticipants(q)
    BY <2>2, CacheRemoveFacts, ReadParticipantsFacts
  <2>3. CASE SyncConversation(q) \/ SyncAll(q)
    BY <2>3, SyncFacts DEF Written
  <2>4. CASE InsertFails(q) \/ Abort(q)
    BY <2>4, InsertFailsFacts, AbortFacts
  <2>5. CASE CacheElsewhere(q)
    BY <2>5, ElsewhereAborts, AbortFacts
  <2>6. QED
    BY <2>1, <2>2, <2>3, <2>4, <2>5 DEF UpdateCache
<1>2. QED
  BY <1>1, LateChecked, SameRowsAllowed

LEMMA StepAllowed ==
  ASSUME TInv, KInv, NEW q \in Requests,
         Check(q) \/ Commit(q) \/ UpdateCache(q) \/ Abort(q)
  PROVE  Allowed(q) /\ Alone(q)
<1>1. CASE Check(q)
  <2>1. CASE FindNew(q) \/ FindTarget(q)
    BY <2>1, FindFacts, FindAllowed
  <2>2. CASE ~FindNew(q) /\ ~FindTarget(q)
    <3>1. PICK r \in Request, s \in Steps : Asked(q, r, s)
      BY <1>1, <2>2, ChecksAsk DEF TInv
    <3>2. Alone(q)
      BY <3>1 DEF Asked, Ask, Alone, TInv, MembershipTypeOK
    <3>3. QED
      BY <3>1, <3>2, AskAllowed
  <2>3. QED
    BY <2>1, <2>2
<1>2. CASE Commit(q)
  <2>1. CASE \E v \in Conversations : CommitCreate(q, v) \/ CommitDM(q, v)
    BY <2>1, CreateAllowed, CreateFacts DEF Founded
  <2>2. CASE InsertFails(q)
    BY <2>2, CacheAllowed, InsertFailsFacts
  <2>3. CASE CommitAdd(q) \/ CommitJoin(q)
    BY <2>3, InsertAllowed, CommitAddFacts, CommitJoinFacts
  <2>4. CASE CommitDelete(q) \/ CommitRole(q)
    BY <2>4, DeleteAllowed, RoleAllowed, CommitDeleteFacts, CommitRoleFacts
  <2>5. CASE CommitDeleteGroup(q) \/ CommitDeleteDM(q)
    BY <2>5, DeleteGroupAllowed, DeleteDMAllowed, CommitDeleteGroupFacts, CommitDeleteDMFacts
  <2>6. QED
    BY <1>2, <2>1, <2>2, <2>3, <2>4, <2>5 DEF Commit
<1>3. CASE UpdateCache(q)
  BY <1>3, CacheAllowed, CacheMembersFacts, CacheRemoveFacts, UnlistFacts,
     ReadParticipantsFacts, SyncFacts, ElsewhereAborts, AbortFacts DEF UpdateCache, Written
<1>4. CASE Abort(q)
  BY <1>4, CacheAllowed, AbortFacts
<1>5. QED
  BY <1>1, <1>2, <1>3, <1>4

-----------------------------------------------------------------------------
(* The theorems.                                                           *)

LEMMA KInitially ==
  ASSUME MembershipInit
  PROVE  KInv
<1>1. ASSUME NEW v \in Conversations PROVE KindRows(v)
  <2> DEFINE first == {u \in Users : FirstRole[v][u] # None}
  <2>1. /\ kind[v] = FirstKind[v]
        /\ \A u \in Users : row[v][u] = IF FirstRole[v][u] = None THEN NoRow
                                        ELSE [id |-> None, role |-> FirstRole[v][u]]
    BY DEF MembershipInit
  <2>2. /\ FirstKind[v] \in {"absent", "erased"} => first = {}
        /\ FirstKind[v] = "dm" =>
             Cardinality(first) = 2 /\ \A u \in first : FirstRole[v][u] = "MEMBER"
    BY FirstRoleAssumption
  <2>3. ASSUME NEW u \in Users
        PROVE  /\ row[v][u].role = FirstRole[v][u]
               /\ Participates(v, u) <=> u \in first
    <3>1. CASE FirstRole[v][u] = None
      <4>1. row[v][u] = NoRow
        BY <2>1, <3>1
      <4>2. QED
        BY <3>1, <4>1, RowFacts DEF Participates
    <3>2. CASE FirstRole[v][u] # None
      <4>1. row[v][u] = [id |-> None, role |-> FirstRole[v][u]]
        BY <2>1, <3>2
      <4>2. row[v][u].role = FirstRole[v][u]
        BY <4>1
      <4>3. row[v][u] # NoRow
        BY <3>2, <4>2, RowFacts
      <4>4. QED
        BY <3>2, <4>2, <4>3 DEF Participates
    <3>3. QED
      BY <3>1, <3>2
  <2>4. Participants(v) = first
    BY <2>3 DEF Participants
  <2> HIDE DEF first
  <2>5. \A u \in Users : u \notin first => row[v][u].role = None
    BY <2>3 DEF first
  <2>6. FirstKind[v] = "dm" => IsDM(v)
    BY <2>2, <2>3, <2>4, <2>5 DEF IsDM
  <2>7. QED
    BY <2>1, <2>2, <2>3, <2>6 DEF KindRows
<1>2. \A q \in Requests : Checked(q)
  BY DEF MembershipInit, Checked
<1>3. QED
  BY <1>1, <1>2 DEF KInv

LEMMA StepKeepsKInv ==
  ASSUME TInv, TInv', KInv, [MembershipNext]_membershipVars
  PROVE  KInv'
<1>1. CASE \E q \in Requests : Check(q) \/ Commit(q) \/ UpdateCache(q) \/ Abort(q)
  BY <1>1, StepAllowed, KStep DEF Allowed
<1>2. CASE LoseCache \/ UNCHANGED membershipVars
  <2>1. UNCHANGED <<kind, row, pc, req>>
    BY <1>2 DEF LoseCache, membershipVars, database
  <2>2. QED
    BY <2>1 DEF KInv, KindRows, Checked, IsDM, Participants, Participates
<1>3. QED
  BY <1>1, <1>2 DEF MembershipNext

\* What kind of conversation it is, who has which role in it, and what a request
\* has checked, stay in accordance.
THEOREM RolesInvariant == MembershipSpec => []KInv
<1>1. MembershipInit => KInv
  BY KInitially
<1>2. TInv /\ TInv' /\ KInv /\ [MembershipNext]_membershipVars => KInv'
  BY StepKeepsKInv
<1>3. QED
  BY <1>1, <1>2, MembershipInvariant, PTL DEF MembershipSpec

\* A dm always has its two participants, and nobody manages it: what asks only for
\* the role of a manager cannot change it.
THEOREM DMAlwaysForTwo == MembershipSpec => []DMIsForTwo
<1>1. KInv => DMIsForTwo
  BY NoneIsNone DEF KInv, KindRows, IsDM, DMIsForTwo, IsManager, Managers, Roles
<1>2. QED
  BY <1>1, RolesInvariant, PTL

\* However requests overlap, an owner loses the role only by leaving himself, and
\* nobody becomes the owner of a conversation that exists.
THEOREM OwnersStay == MembershipSpec => OwnerStays
<1> DEFINE Safe == \A v \in Conversations, u \in Users : row'[v][u] # row[v][u] =>
       /\ row[v][u].role = "OWNER" =>
            \E q \in Requests : /\ req[q].op = "leave" /\ req[q].by = u
                                /\ pc[q] = "commit" /\ pc'[q] = "cache"
       /\ row'[v][u].role = "OWNER" => kind[v] = "absent"
<1>1. TInv /\ KInv /\ [MembershipNext]_membershipVars => [Safe]_membershipVars
  <2>1. SUFFICES ASSUME TInv, KInv, MembershipNext PROVE Safe \/ UNCHANGED membershipVars
    OBVIOUS
  <2>2. CASE LoseCache
    BY <2>2 DEF LoseCache, database
  <2>3. CASE \E q \in Requests : Check(q) \/ Commit(q) \/ UpdateCache(q) \/ Abort(q)
    BY <2>1, <2>3, StepAllowed DEF Allowed, RolesSafe
  <2>4. QED
    BY <2>1, <2>2, <2>3 DEF MembershipNext
<1>2. QED
  BY <1>1, MembershipInvariant, RolesInvariant, PTL DEF MembershipSpec, OwnerStays

-----------------------------------------------------------------------------
(* Two dms of the same two users.                                          *)

Past(q) == pc[q] \notin {"new", "check", "commit"}

\* The rows of a dm are those it was founded with, and who founded it is known.
FoundedOnce(v) ==
  /\ \A u, t \in Participants(v) : row[v][u].id = row[v][t].id
  /\ \A u \in Participants(v) : row[v][u].id # None =>
       Past(row[v][u].id) /\ req[row[v][u].id].op = "dm"

\* Whoever has looked for a dm of the two and found none: what there is by now was
\* founded by a request that had not ended then.
NoneBefore(q) ==
  (pc[q] = "commit" /\ req[q].op = "dm") =>
    \A t \in req[q].on, v \in Conversations : Shared(v, req[q].by, t) =>
      row[v][t].id \notin req[q].after \cup {None}

TwinInv ==
  /\ \A v \in Conversations : kind[v] = "dm" => FoundedOnce(v)
  /\ \A q \in Requests : req[q].op = "dm" => req[q].after \subseteq Ended
  /\ \A q \in Requests : NoneBefore(q)
  /\ TwinsOnlyFromOverlap

\* A request begins, or one goes on: a dm that is asked for stays so, and what had
\* ended before it too.
Begins(q) ==
  /\ pc[q] = "new" /\ pc'[q] # "done"
  /\ req'[q].op = "dm" =>
       /\ req'[q].after = Ended
       /\ \E t \in Users : req'[q].on = {t} /\ NoneShared(req'[q].by, t)

GoesOn(q) ==
  /\ pc[q] \notin {"new", "done"} /\ pc'[q] \notin {"new", "check"}
  /\ pc[q] \notin {"check", "commit"} => Past(q)'
  /\ req[q].op = "dm" <=> req'[q].op = "dm"
  /\ req[q].op = "dm" => pc'[q] # "commit" /\ req'[q].after = req[q].after

\* The dm v is founded.
Opens(q, v) ==
  /\ pc[q] = "commit" /\ pc'[q] = "read" /\ req[q].op = "dm"
  /\ kind[v] # "dm" /\ \A w \in Conversations \ {v} : kind'[w] = kind[w]
  /\ \E t \in Users : req[q].on = {t}
  /\ \A u \in Users : Participates(v, u)' => u \in {req[q].by} \cup req[q].on /\ row'[v][u].id = q

NoneFounded == \A v \in Conversations : kind'[v] = "dm" => kind[v] = "dm"

LEMMA KeptGoesOn ==
  ASSUME MembershipTypeOK, NEW q \in Requests, pc[q] \notin {"new", "done"}, pc'[q] = "done",
         req'[q] = Kept(req[q])
  PROVE  GoesOn(q)
<1>1. req[q] \in Request /\ NoRequest.op = "none"
  BY DEF MembershipTypeOK, NoRequest
<1>2. QED
  BY <1>1, RequestTypes DEF GoesOn, Past

LEMMA CreateOpens ==
  ASSUME TInv, KInv, NEW q \in Requests, NEW v \in Conversations,
         CommitCreate(q, v) \/ CommitDM(q, v)
  PROVE  GoesOn(q) /\ (NoneFounded \/ Opens(q, v))
<1>1. /\ Founded(q, v)
      /\ \/ req[q].op = "create" /\ kind' = [kind EXCEPT ![v] = "group"]
         \/ req[q].op = "dm" /\ kind' = [kind EXCEPT ![v] = "dm"]
  BY CreateFacts
<1>2. kind \in [Conversations -> Kinds] /\ pc[q] = "commit" /\ pc'[q] = "read" /\ kind[v] = "absent"
  BY <1>1 DEF TInv, MembershipTypeOK, Founded
<1>3. GoesOn(q)
  BY <1>1 DEF Founded, GoesOn, Past
<1>4. CASE req[q].op = "create" /\ kind' = [kind EXCEPT ![v] = "group"]
  BY <1>2, <1>3, <1>4 DEF NoneFounded
<1>5. CASE req[q].op = "dm" /\ kind' = [kind EXCEPT ![v] = "dm"]
  <2>1. \E t \in Users : req[q].on = {t}
    BY <1>2, <1>5 DEF KInv, Checked
  <2>2. ASSUME NEW u \in Users, Participates(v, u)'
        PROVE  u \in {req[q].by} \cup req[q].on /\ row'[v][u].id = q
    <3>1. row[v][u] = NoRow
      BY <1>2 DEF KInv, KindRows, Participates
    <3>2. u \in {req[q].by} \cup req[q].on
      BY <1>1, <2>2, <3>1 DEF Founded, RowsOnlyFor, Participates
    <3>3. QED
      BY <1>1, <3>2 DEF Founded
  <2>3. QED
    BY <1>2, <1>3, <1>5, <2>1, <2>2 DEF Opens
<1>6. QED
  BY <1>1, <1>4, <1>5

LEMMA StepFounds ==
  ASSUME TInv, KInv, NEW q \in Requests,
         Check(q) \/ Commit(q) \/ UpdateCache(q) \/ Abort(q)
  PROVE  \/ Begins(q) /\ SameDatabase
         \/ GoesOn(q) /\ (NoneFounded \/ \E v \in Conversations : Opens(q, v))
<1>0. MembershipTypeOK /\ kind \in [Conversations -> Kinds]
  BY DEF TInv, MembershipTypeOK
<1>1. CASE FindNew(q) \/ FindTarget(q)
  <2>1. req[q].op # "dm" /\ pc[q] = "check"
    BY <1>1, FindFacts DEF TInv, Shape
  <2>2. NoneFounded
    BY <1>1, FindFacts DEF SameDatabase, NoneFounded
  <2>3. GoesOn(q)
    BY <1>0, <1>1, <2>1, FindFacts, KeptGoesOn DEF GoesOn
  <2>4. QED
    BY <2>2, <2>3
<1>2. CASE Check(q) /\ ~FindNew(q) /\ ~FindTarget(q)
  <2>1. PICK r \in Request, s \in Steps : Asked(q, r, s)
    BY <1>0, <1>2, ChecksAsk
  <2>2. /\ pc[q] = "new" /\ pc'[q] = s /\ req'[q] = r /\ SameDatabase
    BY <1>0, <2>1 DEF Asked, Ask, MembershipTypeOK, database, SameDatabase
  <2>3. Begins(q)
    BY <2>1, <2>2 DEF Asked, Begins
  <2>4. QED
    BY <2>2, <2>3
<1>3. CASE \E v \in Conversations : CommitCreate(q, v) \/ CommitDM(q, v)
  BY <1>3, CreateOpens
<1>4. CASE CommitAdd(q) \/ CommitJoin(q)
  <2>1. /\ pc[q] = "commit" /\ req[q].op \in {"add", "join"} /\ kind' = kind
    BY <1>4 DEF CommitAdd, CommitJoin, CommitInsert
  <2>2. pc'[q] \in {"cache", "done"} /\ req'[q].op # "dm"
    BY <1>4, <2>1, CommitAddFacts, CommitJoinFacts DEF NoRequest
  <2>3. QED
    BY <2>1, <2>2 DEF GoesOn, NoneFounded
<1>5. CASE CommitDelete(q) \/ CommitRole(q)
  <2>1. CASE CommitDelete(q)
    BY <2>1, CommitDeleteFacts DEF GoesOn, Past, NoneFounded
  <2>2. CASE CommitRole(q)
    BY <1>0, <2>2, CommitRoleFacts, KeptGoesOn DEF GoesOn, Past, NoneFounded
  <2>3. QED
    BY <1>5, <2>1, <2>2
<1>6. CASE InsertFails(q) \/ Abort(q)
  BY <1>0, <1>6, InsertFailsFacts, AbortFacts, KeptGoesOn DEF SameDatabase, NoneFounded
<1>7. CASE CommitDeleteGroup(q) \/ CommitDeleteDM(q)
  <2>1. CASE CommitDeleteGroup(q)
    BY <1>0, <2>1, CommitDeleteGroupFacts, KeptGoesOn DEF NoneFounded
  <2>2. CASE CommitDeleteDM(q)
    <3>1. /\ pc[q] = "commit" /\ req[q].op = "deldm" /\ pc'[q] = "done"
          /\ req'[q] = NoRequest /\ kind' = [kind EXCEPT ![req[q].conv] = "erased"]
      BY <2>2, CommitDeleteDMFacts
    <3>2. QED
      BY <1>0, <3>1 DEF GoesOn, NoneFounded, NoRequest
  <2>3. QED
    BY <1>7, <2>1, <2>2
<1>8. CASE UpdateCache(q)
  <2>1. SameDatabase /\ pc[q] \notin {"new", "done", "check", "commit"}
    <3>1. SameDatabase
      BY <1>8, CacheMembersFacts, CacheRemoveFacts, UnlistFacts, ReadParticipantsFacts,
         SyncFacts, ElsewhereAborts, AbortFacts DEF UpdateCache, Written
    <3>2. QED
      BY <1>8, <3>1 DEF UpdateCache, CacheMembers, CacheRemove, Unlist, ReadParticipants,
         SyncConversation, SyncAll, CacheElsewhere
  <2>2. CASE ReadParticipants(q)
    BY <2>1, <2>2, ReadParticipantsFacts DEF GoesOn, Past, SameDatabase, NoneFounded
  <2>3. CASE CacheRemove(q)
    BY <2>1, <2>3, CacheRemoveFacts DEF GoesOn, Past, SameDatabase, NoneFounded
  <2>4. CASE \/ CacheMembers(q) \/ Unlist(q) \/ SyncConversation(q) \/ SyncAll(q)
             \/ CacheElsewhere(q)
    <3>1. pc'[q] = "done" /\ req'[q] = Kept(req[q])
      BY <2>4, CacheMembersFacts, UnlistFacts, SyncFacts, ElsewhereAborts, AbortFacts DEF Written
    <3>2. QED
      BY <1>0, <2>1, <3>1, KeptGoesOn DEF SameDatabase, NoneFounded
  <2>5. QED
    BY <1>8, <2>2, <2>3, <2>4 DEF UpdateCache
<1>9. QED
  BY <1>1, <1>2, <1>3, <1>4, <1>5, <1>6, <1>7, <1>8 DEF Commit

\* A dm that was one before has the rows it had.
LEMMA OldDMs ==
  ASSUME TInv, NEW v \in Conversations, MayChange(v), kind[v] = "dm", kind'[v] = "dm"
  PROVE  SameRows(v) /\ Participants(v)' = Participants(v)
<1>1. SameRows(v)
  BY DEF MayChange, Groups
<1>2. QED
  BY <1>1 DEF SameRows, Participants, Participates

\* What each step does to the requests, seen from any of them.
LEMMA HistoryStays ==
  ASSUME TInv, NEW q \in Requests, Alone(q), Begins(q) \/ GoesOn(q), NEW p \in Requests
  PROVE  /\ Past(p) => Past(p)'
         /\ Past(p) /\ req[p].op = "dm" => req'[p].op = "dm" /\ req'[p].after = req[p].after
         /\ p \in Ended => p \in Ended'
<1>1. CASE p = q
  BY <1>1 DEF Begins, GoesOn, Past, Ended
<1>2. CASE p # q
  BY <1>2 DEF Alone, Past, Ended
<1>3. QED
  BY <1>1, <1>2

LEMMA OldFounders ==
  ASSUME TInv, TwinInv, NEW q \in Requests, Alone(q), Begins(q) \/ GoesOn(q),
         NEW v \in Conversations, MayChange(v), kind[v] = "dm", kind'[v] = "dm"
  PROVE  FoundedOnce(v)'
<1>1. FoundedOnce(v) /\ SameRows(v) /\ Participants(v)' = Participants(v)
  BY OldDMs DEF TwinInv
<1>2. row \in [Conversations -> [Users -> Rows \cup {NoRow}]]
  BY DEF TInv, MembershipTypeOK
<1>3. \A u \in Participants(v) : row[v][u].id \in Requests \cup {None} /\ u \in Users
  BY <1>2 DEF Participants, Participates, Rows
<1>4. \A u \in Participants(v)' : row'[v][u] = row[v][u]
  BY <1>1, <1>3 DEF SameRows
<1>5. ASSUME NEW u \in Participants(v)', row'[v][u].id # None
      PROVE  pc'[row[v][u].id] \notin {"new", "check", "commit"} /\ req'[row[v][u].id].op = "dm"
  <2>1. PICK p \in Requests : p = row[v][u].id
    BY <1>1, <1>3, <1>4, <1>5
  <2>2. Past(p) /\ req[p].op = "dm"
    BY <1>1, <1>3, <1>4, <1>5, <2>1 DEF FoundedOnce
  <2>3. Past(p)' /\ req'[p].op = "dm"
    BY <2>2, HistoryStays
  <2>4. QED
    BY <2>1, <2>3 DEF Past
<1>7. \A u, t \in Participants(v)' : row'[v][u].id = row'[v][t].id
  BY <1>1, <1>4 DEF FoundedOnce
<1>8. \A u \in Participants(v)' : row'[v][u].id # None =>
        pc'[row'[v][u].id] \notin {"new", "check", "commit"} /\ req'[row'[v][u].id].op = "dm"
  BY <1>4, <1>5 DEF Past
<1>9. QED
  BY <1>7, <1>8 DEF FoundedOnce, Past

LEMMA NewFounders ==
  ASSUME TInv, KInv, TwinInv, NEW q \in Requests, GoesOn(q), NEW v \in Conversations, Opens(q, v)
  PROVE  FoundedOnce(v)'
<1>1. \A u \in Participants(v)' : row'[v][u].id = q
  BY DEF Opens, Participants
<1>2. pc'[q] = "read" /\ req'[q].op = "dm"
  BY DEF Opens, GoesOn
<1>3. QED
  BY <1>1, <1>2 DEF FoundedOnce, Past

\* A dm is an old one, or the one that q founds.
LEMMA WhichDMs ==
  ASSUME NEW q \in Requests, NEW v \in Conversations, kind'[v] = "dm",
         \/ Begins(q) /\ SameDatabase
         \/ GoesOn(q) /\ (NoneFounded \/ \E w \in Conversations : Opens(q, w))
  PROVE  kind[v] = "dm" \/ (Opens(q, v) /\ GoesOn(q))
BY DEF SameDatabase, NoneFounded, Opens

LEMMA IdsOfRows ==
  ASSUME TInv, NEW v \in Conversations, NEW u \in Users, Participates(v, u)
  PROVE  row[v][u].id \in Requests \cup {None}
<1>1. row[v][u] \in Rows
  BY DEF TInv, MembershipTypeOK, Participates
<1>2. QED
  BY <1>1 DEF Rows

LEMMA StepKeepsTwins ==
  ASSUME TInv, TInv', KInv, TwinInv, NEW q \in Requests,
         Check(q) \/ Commit(q) \/ UpdateCache(q) \/ Abort(q)
  PROVE  TwinInv'
<1>1. /\ Alone(q) /\ \A v \in Conversations : MayChange(v)
  BY StepAllowed DEF Allowed
<1>2. /\ \/ Begins(q) /\ SameDatabase
         \/ GoesOn(q) /\ (NoneFounded \/ \E v \in Conversations : Opens(q, v))
      /\ Begins(q) \/ GoesOn(q)
  BY StepFounds
<1>3. q \notin Ended
  BY <1>2 DEF Begins, GoesOn, Ended
<1>4. ASSUME NEW v \in Conversations, kind'[v] = "dm" PROVE FoundedOnce(v)'
  <2>1. CASE kind[v] = "dm"
    BY <1>1, <1>2, <1>4, <2>1, OldFounders
  <2>2. CASE Opens(q, v) /\ GoesOn(q)
    BY <2>2, NewFounders
  <2>3. QED
    BY <1>2, <1>4, <2>1, <2>2, WhichDMs
<1>5. ASSUME NEW p \in Requests, req'[p].op = "dm" PROVE req'[p].after \subseteq Ended'
  <2>1. Ended \subseteq Ended'
    BY <1>1, <1>2, HistoryStays DEF Ended
  <2>2. CASE p = q
    BY <1>2, <1>5, <2>1, <2>2 DEF Begins, GoesOn, TwinInv
  <2>3. CASE p # q
    BY <1>1, <1>5, <2>1, <2>3 DEF Alone, TwinInv
  <2>4. QED
    BY <2>2, <2>3
<1>6. ASSUME NEW p \in Requests PROVE NoneBefore(p)'
  <2>0. pc'[p] = "commit" /\ req'[p].op = "dm" => req'[p].on \subseteq Users /\ req'[p].by \in Users
    BY DEF TInv, MembershipTypeOK, Request, Shape
  <2>1. SUFFICES ASSUME pc'[p] = "commit", req'[p].op = "dm", NEW t \in Users, t \in req'[p].on,
                        NEW v \in Conversations, Shared(v, req[p].by, t)'
                 PROVE  row'[v][t].id \notin req'[p].after \cup {None}
    BY <2>0 DEF NoneBefore
  <2>2. kind'[v] = "dm" /\ row'[v][t] # NoRow /\ row'[v][req'[p].by] # NoRow
        /\ req'[p].by \in Users
    BY <2>0, <2>1 DEF Shared, Participates
  <2>3. CASE p = q
    <3>1. Begins(q) /\ SameDatabase
      BY <1>2, <2>1, <2>3 DEF GoesOn
    <3>2. NoneShared(req'[p].by, t)
      BY <2>1, <2>3, <3>1 DEF Begins
    <3>3. QED
      BY <2>1, <3>1, <3>2 DEF NoneShared, Shared, SameDatabase, Participates
  <2>4. CASE p # q
    <3>1. pc[p] = "commit" /\ req[p] = req'[p]
      BY <1>1, <2>1, <2>4 DEF Alone
    <3>2. CASE kind[v] = "dm"
      <4>1. SameRows(v)
        BY <1>1, <2>2, <3>2, OldDMs
      <4>2. Shared(v, req[p].by, t) /\ row'[v][t] = row[v][t]
        BY <2>2, <3>1, <3>2, <4>1 DEF SameRows, Shared, Participates
      <4>3. QED
        BY <2>1, <3>1, <4>2 DEF TwinInv, NoneBefore
    <3>3. CASE Opens(q, v)
      <4>1. row'[v][t].id = q
        BY <2>2, <3>3 DEF Opens, Participates
      <4>2. req'[p].after \subseteq Ended
        BY <2>1, <3>1 DEF TwinInv
      <4>3. QED
        BY <1>3, <4>1, <4>2, NoneIsNone
    <3>4. QED
      BY <1>2, <2>2, <3>2, <3>3, WhichDMs
  <2>5. QED
    BY <2>3, <2>4
<1>7. ASSUME NEW v \in Conversations, NEW w \in Conversations, NEW u \in Users, NEW t \in Users,
             v # w, u # t, Shared(v, u, t)', Shared(w, u, t)', row'[w][u].id # None
      PROVE  row'[v][u].id \notin req'[row'[w][u].id].after \cup {None}
  <2>1. /\ kind'[v] = "dm" /\ kind'[w] = "dm"
        /\ Participates(v, u)' /\ Participates(v, t)' /\ Participates(w, u)' /\ Participates(w, t)'
    BY <1>7 DEF Shared
  <2>2. CASE kind[v] = "dm" /\ kind[w] = "dm"
    <3>1. SameRows(v) /\ SameRows(w)
      BY <1>1, <2>1, <2>2, OldDMs
    <3>2. /\ Shared(v, u, t) /\ Shared(w, u, t)
          /\ row'[v][u] = row[v][u] /\ row'[w][u] = row[w][u]
      BY <2>1, <2>2, <3>1 DEF SameRows, Shared, Participates
    <3>3. FoundedOnce(w) /\ u \in Participants(w)
      BY <2>2, <3>2 DEF TwinInv, Shared, Participants
    <3>4. /\ row[w][u].id \in Requests
          /\ Past(row[w][u].id) /\ req[row[w][u].id].op = "dm"
      BY <1>7, <3>2, <3>3, IdsOfRows DEF FoundedOnce, Shared
    <3>5. req'[row[w][u].id].after = req[row[w][u].id].after
      BY <1>1, <1>2, <3>4, HistoryStays
    <3>6. QED
      BY <1>7, <3>2, <3>5 DEF TwinInv, TwinsOnlyFromOverlap
  \* The second one is founded now: its founder has found none before.
  <2>3. CASE kind[v] = "dm" /\ Opens(q, w) /\ GoesOn(q)
    <3>1. SameRows(v)
      BY <1>1, <2>1, <2>3, OldDMs
    <3>2. /\ Participates(v, u) /\ Participates(v, t)
          /\ row'[v][u] = row[v][u] /\ row'[v][t] = row[v][t]
      BY <2>1, <3>1 DEF SameRows, Participates
    <3>3. row'[w][u].id = q /\ u \in {req[q].by} \cup req[q].on /\ t \in {req[q].by} \cup req[q].on
      BY <2>1, <2>3 DEF Opens
    <3>4. PICK x \in Users : req[q].on = {x}
      BY <2>3 DEF Opens
    <3>5. Shared(v, req[q].by, x)
      BY <1>7, <2>3, <3>2, <3>3, <3>4 DEF Shared
    <3>6. row[v][x].id \notin req[q].after \cup {None}
      BY <2>3, <3>4, <3>5 DEF Opens, TwinInv, NoneBefore
    <3>7. row[v][u].id = row[v][x].id
      BY <1>7, <2>3, <3>2, <3>3, <3>4 DEF TwinInv, FoundedOnce, Participants
    <3>8. req'[q].after = req[q].after
      BY <2>3 DEF Opens, GoesOn
    <3>9. QED
      BY <3>2, <3>3, <3>6, <3>7, <3>8
  \* The first one is founded now: nobody has seen its founder end.
  <2>4. CASE kind[w] = "dm" /\ Opens(q, v) /\ GoesOn(q)
    <3>1. SameRows(w)
      BY <1>1, <2>1, <2>4, OldDMs
    <3>2. Participates(w, u) /\ row'[w][u] = row[w][u] /\ u \in Participants(w)
      BY <2>1, <3>1 DEF SameRows, Participates, Participants
    <3>3. /\ row[w][u].id \in Requests
          /\ Past(row[w][u].id) /\ req[row[w][u].id].op = "dm"
      BY <1>7, <2>4, <3>2, IdsOfRows DEF TwinInv, FoundedOnce
    <3>4. req'[row[w][u].id].after \subseteq Ended
      BY <1>1, <1>2, <3>3, HistoryStays DEF TwinInv
    <3>5. row'[v][u].id = q
      BY <2>1, <2>4 DEF Opens
    <3>6. QED
      BY <1>3, <3>2, <3>4, <3>5, NoneIsNone
  <2>5. ~(kind[v] # "dm" /\ kind[w] # "dm")
    BY <1>2, <1>7, <2>1, WhichDMs DEF Opens
  <2>6. QED
    BY <1>2, <2>1, <2>2, <2>3, <2>4, <2>5, WhichDMs
<1>8. QED
  <2>1. TwinsOnlyFromOverlap'
    BY <1>7 DEF TwinsOnlyFromOverlap
  <2>2. QED
    BY <1>4, <1>5, <1>6, <2>1 DEF TwinInv

LEMMA TwinsInitially ==
  ASSUME MembershipInit
  PROVE  TwinInv
<1>1. \A v \in Conversations, u \in Users : row[v][u].id = None
  BY DEF MembershipInit, NoRow
<1>2. \A q \in Requests : pc[q] = "new" /\ req[q].op = "none"
  BY DEF MembershipInit, NoRequest
<1>3. QED
  BY <1>1, <1>2 DEF TwinInv, FoundedOnce, NoneBefore, TwinsOnlyFromOverlap, Participants

\* Who founded a dm is known, and who asks for one has looked at those there were.
THEOREM TwinsInvariant == MembershipSpec => []TwinInv
<1>1. MembershipInit => TwinInv
  BY TwinsInitially
<1>2. TInv /\ TInv' /\ KInv /\ TwinInv /\ [MembershipNext]_membershipVars => TwinInv'
  <2>1. SUFFICES ASSUME TInv, TInv', KInv, TwinInv, [MembershipNext]_membershipVars
                 PROVE  TwinInv'
    OBVIOUS
  <2>2. CASE \E q \in Requests : Check(q) \/ Commit(q) \/ UpdateCache(q) \/ Abort(q)
    <3>1. PICK q \in Requests : Check(q) \/ Commit(q) \/ UpdateCache(q) \/ Abort(q)
      BY <2>2
    <3>2. QED
      BY <2>1, <3>1, StepKeepsTwins
  <2>3. CASE LoseCache \/ UNCHANGED membershipVars
    <3>1. UNCHANGED <<kind, row, pc, req>>
      BY <2>3 DEF LoseCache, membershipVars, database
    <3>2. \A v \in Conversations : kind'[v] = "dm" => FoundedOnce(v)'
      BY <2>1, <3>1 DEF TwinInv, FoundedOnce, Participants, Participates, Past
    <3>3. \A q \in Requests : NoneBefore(q)' /\ (req'[q].op = "dm" => req'[q].after \subseteq Ended')
      BY <2>1, <3>1 DEF TwinInv, NoneBefore, Shared, Participates, Ended
    <3>4. TwinsOnlyFromOverlap'
      BY <2>1, <3>1 DEF TwinInv, TwinsOnlyFromOverlap, Shared, Participates
    <3>5. QED
      BY <3>2, <3>3, <3>4 DEF TwinInv
  <2>4. QED
    BY <2>1, <2>2, <2>3 DEF MembershipNext
<1>3. QED
  BY <1>1, <1>2, MembershipInvariant, RolesInvariant, PTL DEF MembershipSpec

\* However many requests for a dm of the same two users there are, two are made only
\* if neither request had ended when the other looked.
THEOREM TwinsOnlyOverlap == MembershipSpec => []TwinsOnlyFromOverlap
<1>1. TwinInv => TwinsOnlyFromOverlap
  BY DEF TwinInv
<1>2. QED
  BY <1>1, TwinsInvariant, PTL
==============================================================================

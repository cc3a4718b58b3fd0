------------------------------ MODULE Membership ------------------------------
(***************************************************************************)
(* Who takes part in a conversation: the rows of conversation_participants *)
(* (router/chat.py) and the two indexes of them in Redis                   *)
(* (services/cache_management/conversation.py), by which every message is  *)
(* authorised and every socket finds its conversations.                    *)
(*                                                                         *)
(* A request reads what it checks, commits, and then brings the cache up   *)
(* to date; other requests run between any two of these steps.  A request  *)
(* that is turned down changes nothing and is not modelled.                *)
(***************************************************************************)
EXTENDS FiniteSets

CONSTANTS
  Users,
  Conversations,
  Requests,   \* requests ever made
  FirstKind,  \* the conversations that exist at the beginning,
  FirstRole,  \* and the roles in them
  None        \* no role, no participant, no conversation

Roles == {"OWNER", "ADMIN", "MEMBER"}
Managers == {"OWNER", "ADMIN"}

\* A group with is_deleted set is "deleted"; an "erased" dm has no row left.
Kinds == {"absent", "group", "deleted", "dm", "erased"}
Groups == {"group", "deleted"}

ASSUME NoneAssumption == None \notin Users \cup Conversations \cup Requests \cup Roles
ASSUME FirstAssumption ==
  /\ FirstKind \in [Conversations -> Kinds]
  /\ FirstRole \in [Conversations -> [Users -> Roles \cup {None}]]
ASSUME FirstRoleAssumption ==
  \A v \in Conversations :
    LET first == {u \in Users : FirstRole[v][u] # None}
    IN /\ \A u, w \in first : FirstRole[v][u] = "OWNER" /\ FirstRole[v][w] = "OWNER" => u = w
       /\ FirstKind[v] \in {"absent", "erased"} => first = {}
       /\ FirstKind[v] = "dm" =>
            Cardinality(first) = 2 /\ \A u \in first : FirstRole[v][u] = "MEMBER"

VARIABLES
  \* PostgreSQL
  kind,     \* Conversations -> Kinds
  row,      \* Conversations -> Users -> the participant's row
  \* Redis, as <<conversation, user>>
  members,  \* the sets conversation:{id}:members
  listed,   \* the sets user:{id}:conversations
  \* the requests
  pc,       \* Requests -> the next step
  req,      \* Requests -> what is asked, and what has been read
  \* history
  owed,     \* Requests -> the pairs it has changed and not yet written to the cache
  late,     \* Requests -> the pairs changed by others since its commit or its reading
  excused   \* the pairs of which nothing is expected, in members and in listed

database == <<kind, row>>
cache == <<members, listed>>
membershipVars == <<database, cache, pc, req, owed, late, excused>>

Pairs == Conversations \X Users

\* A row is known by the request that inserted it (its id) and has a role.
Rows == [id : Requests \cup {None}, role : Roles]
NoRow == [id |-> None, role |-> None]

\* check: in front of the second reading; commit; cache, unlist: the cache is
\* updated by value; read, write: by a synchronisation of one conversation, or
\* readall, writeall: of all.
Steps == {"new", "check", "commit", "cache", "unlist",
          "read", "write", "readall", "writeall", "done"}

Request == [op : {"none", "create", "join", "add", "leave", "remove", "promote",
                  "dismiss", "dm", "delgroup", "deldm", "sync", "patch"},
            by : Users \cup {None},
            conv : Conversations \cup {None},
            on : SUBSET Users,           \* the users it is about
            row : Rows \cup {NoRow},     \* the row read of the only one
            seen : SUBSET Pairs,         \* the participants read to be written
            after : SUBSET Requests]     \* history: those that had ended before

NoRequest == [op |-> "none", by |-> None, conv |-> None, on |-> {},
              row |-> NoRow, seen |-> {}, after |-> {}]

-----------------------------------------------------------------------------

Participates(v, u) == row[v][u] # NoRow
Participants(v) == {u \in Users : Participates(v, u)}
IsManager(v, u) == row[v][u].role \in Managers
RowsOf(C) == {p \in C \X Users : Participates(p[1], p[2])}

MembershipInit ==
  /\ kind = FirstKind
  /\ row = [v \in Conversations |-> [u \in Users |->
              IF FirstRole[v][u] = None THEN NoRow
              ELSE [id |-> None, role |-> FirstRole[v][u]]]]
  /\ members = RowsOf(Conversations)
  /\ listed = RowsOf(Conversations)
  /\ pc = [q \in Requests |-> "new"]
  /\ req = [q \in Requests |-> NoRequest]
  /\ owed = [q \in Requests |-> {}]
  /\ late = [q \in Requests |-> {}]
  /\ excused = [members |-> {}, listed |-> {}]

Goto(q, step) == pc' = [pc EXCEPT ![q] = step]

\* Who asked for a dm, and when, is kept as history.
Kept(r) ==
  IF r.op = "dm" THEN [NoRequest EXCEPT !.op = "dm", !.by = r.by, !.after = r.after]
  ELSE NoRequest

\* The end of a request.
Finish(q) ==
  /\ Goto(q, "done")
  /\ req' = [req EXCEPT ![q] = Kept(@)]
  /\ owed' = [owed EXCEPT ![q] = {}]
  /\ late' = [late EXCEPT ![q] = {}]

-----------------------------------------------------------------------------
(* The checks.  Ended is recorded for the history of create_dm.            *)

Ended == {p \in Requests : pc[p] = "done"}

Ask(q, r, step) ==
  /\ pc[q] = "new"
  /\ req' = [req EXCEPT ![q] = r]
  /\ pc' = [pc EXCEPT ![q] = step]
  /\ UNCHANGED <<database, cache, owed, late, excused>>

Asks(op, u, v, P) == [op |-> op, by |-> u, conv |-> v, on |-> P,
                      row |-> NoRow, seen |-> {}, after |-> {}]

\* The creator is not recognised among the participants (an id is compared with
\* a string): naming oneself is a unique violation, and nothing is created.
CreateConversation(q, u, P) ==
  /\ u \notin P
  /\ Ask(q, Asks("create", u, None, P), "commit")

\* A deleted group can still be joined.
JoinGroup(q, u, v) ==
  /\ kind[v] \in Groups
  /\ ~Participates(v, u)
  /\ Ask(q, Asks("join", u, v, {u}), "commit")

AddMember(q, u, v, P) ==
  /\ P # {}
  /\ IsManager(v, u)
  /\ Ask(q, Asks("add", u, v, P), "check")

LeaveGroup(q, u, v) ==
  /\ kind[v] \in Groups
  /\ Participates(v, u)
  /\ Ask(q, [Asks("leave", u, v, {u}) EXCEPT !.row = row[v][u]], "commit")

RemoveMember(q, u, v, t) ==
  /\ IsManager(v, u)
  /\ Ask(q, Asks("remove", u, v, {t}), "check")

MakeAdmin(q, u, v, t) ==
  /\ IsManager(v, u)
  /\ Ask(q, Asks("promote", u, v, {t}), "check")

DismissAdmin(q, u, v, t) ==
  /\ row[v][u].role = "OWNER"
  /\ Ask(q, Asks("dismiss", u, v, {t}), "check")

\* A dm of the two users.
Shared(v, u, t) == kind[v] = "dm" /\ Participates(v, u) /\ Participates(v, t)

\* MUTANT of NoneShared: dms that were made by the other user are not found.
NoneSharedOwn(u, t) ==
  \A v \in Conversations : Shared(v, u, t) =>
    row[v][u].id # None /\ req[row[v][u].id].by # u

NoneShared(u, t) == \A v \in Conversations : ~Shared(v, u, t)

CreateDM(q, u, t) ==
  /\ u # t
  /\ NoneShared(u, t)
  /\ Ask(q, [Asks("dm", u, None, {t}) EXCEPT !.after = Ended], "commit")

DeleteGroup(q, u, v) ==
  /\ kind[v] = "group"
  /\ IsManager(v, u)
  /\ Ask(q, Asks("delgroup", u, v, {}), "commit")

DeleteDM(q, u, v) ==
  /\ kind[v] = "dm"
  /\ Participates(v, u)
  /\ Ask(q, Asks("deldm", u, v, {}), "commit")

\* Name, description and avatar are not kept here: what remains of their commit
\* is the synchronisation that follows it.  For a dm an empty patch is accepted.
PatchConversation(q, u, v) ==
  /\ kind[v] \in {"group", "dm"}
  /\ Participates(v, u)
  /\ Ask(q, Asks("patch", u, v, {}), "read")

\* sync-conversations, and the start of an instance.
SyncConversations(q) == Ask(q, Asks("sync", None, None, {}), "readall")

-----------------------------------------------------------------------------
(* The second reading: the users the request is about.                     *)

\* add_member drops those who take part already.
FindNew(q) ==
  LET new == {t \in req[q].on : ~Participates(req[q].conv, t)}
  IN /\ pc[q] = "check"
     /\ req[q].op = "add"
     /\ IF new = {}
        THEN Finish(q)
        ELSE /\ req' = [req EXCEPT ![q].on = new]
             /\ Goto(q, "commit")
             /\ UNCHANGED <<owed, late>>
     /\ UNCHANGED <<database, cache, excused>>

\* The role the target must have.
MayBe(op) ==
  CASE op = "remove" -> {"ADMIN", "MEMBER"}
    [] op = "promote" -> {"MEMBER"}
    [] op = "dismiss" -> {"ADMIN"}

\* MUTANT of FindTarget: the owner is not spared.
FindAnyTarget(q) ==
  /\ pc[q] = "check"
  /\ req[q].op # "add"
  /\ \E t \in req[q].on :
       IF Participates(req[q].conv, t)
       THEN /\ req' = [req EXCEPT ![q].row = row[req[q].conv][t]]
            /\ Goto(q, "commit")
            /\ UNCHANGED <<owed, late>>
       ELSE Finish(q)
  /\ UNCHANGED <<database, cache, excused>>

FindTarget(q) ==
  /\ pc[q] = "check"
  /\ req[q].op # "add"
  /\ \E t \in req[q].on :
       IF row[req[q].conv][t].role \in MayBe(req[q].op)
       THEN /\ req' = [req EXCEPT ![q].row = row[req[q].conv][t]]
            /\ Goto(q, "commit")
            /\ UNCHANGED <<owed, late>>
       ELSE Finish(q)
  /\ UNCHANGED <<database, cache, excused>>

-----------------------------------------------------------------------------
(* The commits.                                                            *)

\* The pairs P are newer than what any request but q has committed or read.
Outdate(q, P) ==
  late' = [p \in Requests |->
             IF p # q /\ pc[p] \in {"cache", "unlist", "write", "writeall"}
             THEN late[p] \cup P ELSE late[p]]

Excuse(P) == excused' = [members |-> excused.members \cup P,
                         listed |-> excused.listed \cup P]

\* newRole: users -> roles.
Insert(q, v, newRole) ==
  row' = [row EXCEPT ![v] = [u \in Users |->
            IF u \in DOMAIN newRole THEN [id |-> q, role |-> newRole[u]] ELSE @[u]]]

\* The conversation that create_coversation or create_dm makes.
Found(q, v, k, newRole) ==
  LET P == {v} \X DOMAIN newRole
  IN /\ kind[v] = "absent"
     /\ kind' = [kind EXCEPT ![v] = k]
     /\ Insert(q, v, newRole)
     /\ req' = [req EXCEPT ![q].conv = v]
     /\ owed' = [owed EXCEPT ![q] = P]
     /\ Outdate(q, P)
     /\ Goto(q, "read")
     /\ UNCHANGED <<cache, excused>>

CommitCreate(q, v) ==
  LET r == req[q]
  IN /\ pc[q] = "commit"
     /\ r.op = "create"
     /\ Found(q, v, "group", [u \in {r.by} \cup r.on |->
                                IF u = r.by THEN "OWNER" ELSE "MEMBER"])

\* MUTANT of CommitDM: whoever opens a dm manages it.
CommitDMManaged(q, v) ==
  LET r == req[q]
  IN /\ pc[q] = "commit"
     /\ r.op = "dm"
     /\ Found(q, v, "dm", [u \in {r.by} \cup r.on |->
                             IF u = r.by THEN "ADMIN" ELSE "MEMBER"])

CommitDM(q, v) ==
  LET r == req[q]
  IN /\ pc[q] = "commit"
     /\ r.op = "dm"
     /\ Found(q, v, "dm", [u \in {r.by} \cup r.on |-> "MEMBER"])

\* A row inserted meanwhile is a unique violation: nothing is inserted.
InsertFails(q) ==
  /\ pc[q] = "commit"
  /\ req[q].op \in {"join", "add"}
  /\ \E t \in req[q].on : Participates(req[q].conv, t)
  /\ Finish(q)
  /\ UNCHANGED <<database, cache, excused>>

CommitInsert(q, op) ==
  LET r == req[q]
  IN /\ pc[q] = "commit"
     /\ r.op = op
     /\ \A t \in r.on : ~Participates(r.conv, t)
     /\ Insert(q, r.conv, [u \in r.on |-> "MEMBER"])
     /\ Outdate(q, {r.conv} \X r.on)
     /\ UNCHANGED <<kind, cache>>

CommitAdd(q) ==
  /\ CommitInsert(q, "add")
  /\ owed' = [owed EXCEPT ![q] = {req[q].conv} \X req[q].on]
  /\ Goto(q, "cache")
  /\ UNCHANGED <<req, excused>>

\* join_group calls conversation_cache.add_member, which does not exist: the
\* request fails after its commit, and the cache never learns of it.
CommitJoin(q) ==
  /\ CommitInsert(q, "join")
  /\ Excuse({req[q].conv} \X req[q].on)
  /\ Goto(q, "done")
  /\ req' = [req EXCEPT ![q] = NoRequest]
  /\ UNCHANGED owed

\* leave_group and remove_member.  The row is deleted by its id: if it has been
\* replaced meanwhile nothing is deleted, and the request goes on.
CommitDelete(q) ==
  LET r == req[q]
      P == {r.conv} \X r.on
      replaced == \E t \in r.on : Participates(r.conv, t) /\ row[r.conv][t].id # r.row.id
  IN /\ pc[q] = "commit"
     /\ r.op \in {"leave", "remove"}
     /\ IF replaced
        THEN /\ late' = [late EXCEPT ![q] = P]
             /\ UNCHANGED row
        ELSE /\ row' = [row EXCEPT ![r.conv] = [u \in Users |->
                          IF u \in r.on THEN NoRow ELSE @[u]]]
             /\ Outdate(q, P)
     /\ owed' = [owed EXCEPT ![q] = P]
     /\ Goto(q, "cache")
     /\ UNCHANGED <<kind, cache, req, excused>>

\* make_admin and dismiss_admin.  The update of a row that is gone fails.
CommitRole(q) ==
  LET r == req[q]
      role == IF r.op = "promote" THEN "ADMIN" ELSE "MEMBER"
  IN /\ pc[q] = "commit"
     /\ r.op \in {"promote", "dismiss"}
     /\ \E t \in r.on :
          IF Participates(r.conv, t) /\ row[r.conv][t].id = r.row.id
          THEN /\ row' = [row EXCEPT ![r.conv][t].role = role]
               /\ Goto(q, "read")
               /\ UNCHANGED <<req, owed, late>>
          ELSE /\ Finish(q)
               /\ UNCHANGED row
     /\ UNCHANGED <<kind, cache, excused>>

CommitDeleteGroup(q) ==
  /\ pc[q] = "commit"
  /\ req[q].op = "delgroup"
  /\ kind' = [kind EXCEPT ![req[q].conv] = "deleted"]
  /\ Finish(q)
  /\ UNCHANGED <<row, cache, excused>>

\* delete_dm leaves the cache alone.
CommitDeleteDM(q) ==
  LET v == req[q].conv
  IN /\ pc[q] = "commit"
     /\ req[q].op = "deldm"
     /\ kind' = [kind EXCEPT ![v] = "erased"]
     /\ row' = [row EXCEPT ![v] = [u \in Users |-> NoRow]]
     /\ Outdate(q, {v} \X Users)
     /\ Excuse({v} \X Users)
     /\ Goto(q, "done")
     /\ req' = [req EXCEPT ![q] = NoRequest]
     /\ UNCHANGED <<cache, owed>>

-----------------------------------------------------------------------------
(* The cache.                                                              *)

\* q writes the pairs W of members, or of listed.  What is older than the rows
\* is excused, what is not needs no excuse any more.
Excused(old, W, q) == (old \ W) \cup (W \cap late[q])

\* One pipeline, a transaction of Redis.
CacheMembers(q) ==
  LET P == {req[q].conv} \X req[q].on
  IN /\ pc[q] = "cache"
     /\ req[q].op = "add"
     /\ members' = members \cup P
     /\ listed' = listed \cup P
     /\ excused' = [members |-> Excused(excused.members, P, q),
                    listed |-> Excused(excused.listed, P, q)]
     /\ Finish(q)
     /\ UNCHANGED database

\* MUTANT of CacheRemove: a member who leaves by himself stays cached.
CacheRemoveOthers(q) ==
  LET P == {req[q].conv} \X req[q].on
  IN /\ pc[q] = "cache"
     /\ req[q].op \in {"leave", "remove"}
     /\ members' = IF req[q].op = "leave" THEN members ELSE members \ P
     /\ excused' = [excused EXCEPT !.members = Excused(@, P, q)]
     /\ Goto(q, "unlist")
     /\ UNCHANGED <<database, listed, req, owed, late>>

\* remove_member of the cache: two commands, one after the other.
CacheRemove(q) ==
  LET P == {req[q].conv} \X req[q].on
  IN /\ pc[q] = "cache"
     /\ req[q].op \in {"leave", "remove"}
     /\ members' = members \ P
     /\ excused' = [excused EXCEPT !.members = Excused(@, P, q)]
     /\ Goto(q, "unlist")
     /\ UNCHANGED <<database, listed, req, owed, late>>

Unlist(q) ==
  LET P == {req[q].conv} \X req[q].on
  IN /\ pc[q] = "unlist"
     /\ listed' = listed \ P
     /\ excused' = [excused EXCEPT !.listed = Excused(@, P, q)]
     /\ Finish(q)
     /\ UNCHANGED <<database, members>>

\* add_member and leave_group pass the id on to the cache as the client has spelled it.
\* A UUID has other spellings (capitals, no hyphens): then the commands are about keys
\* of that name, and those of the conversation stay as they are.
CacheElsewhere(q) ==
  /\ pc[q] = "cache"
  /\ req[q].op \in {"add", "leave"}
  /\ Excuse(owed[q])
  /\ Finish(q)
  /\ UNCHANGED <<database, cache>>

\* A synchronisation reads the rows, of one conversation or of all ...
ReadParticipants(q) ==
  /\ pc[q] \in {"read", "readall"}
  /\ req' = [req EXCEPT ![q].seen =
               RowsOf(IF pc[q] = "read" THEN {req[q].conv} ELSE Conversations)]
  /\ late' = [late EXCEPT ![q] = {}]
  /\ Goto(q, IF pc[q] = "read" THEN "write" ELSE "writeall")
  /\ UNCHANGED <<database, cache, owed, excused>>

\* ... and replaces what the cache holds of them, in one transaction of Redis.
SyncConversation(q) ==
  LET W == {req[q].conv} \X Users
      S == req[q].seen
  IN /\ pc[q] = "write"
     /\ members' = (members \ W) \cup S
     /\ listed' = listed \cup S
     /\ excused' = [members |-> Excused(excused.members, W, q),
                    listed |-> Excused(excused.listed, S, q)]
     /\ Finish(q)
     /\ UNCHANGED database

\* Conversations and users without any row keep what they have.
SyncAll(q) ==
  LET S == req[q].seen
      W == {p \in Pairs : \E s \in S : s[1] = p[1]}
      L == {p \in Pairs : \E s \in S : s[2] = p[2]}
  IN /\ pc[q] = "writeall"
     /\ members' = (members \ W) \cup S
     /\ listed' = (listed \ L) \cup S
     /\ excused' = [members |-> Excused(excused.members, W, q),
                    listed |-> Excused(excused.listed, L, q)]
     /\ Finish(q)
     /\ UNCHANGED database

\* Redis keeps nothing over a restart.
LoseCache ==
  /\ cache # <<{}, {}>>
  /\ members' = {}
  /\ listed' = {}
  /\ Excuse(RowsOf(Conversations))
  /\ UNCHANGED <<database, pc, req, owed, late>>

\* The process dies, or a call to Redis fails: what is committed stays.
Abort(q) ==
  /\ pc[q] \notin {"new", "done"}
  /\ Excuse(owed[q])
  /\ Finish(q)
  /\ UNCHANGED <<database, cache>>

-----------------------------------------------------------------------------

Check(q) ==
  \/ \E u \in Users, P \in SUBSET Users : CreateConversation(q, u, P)
  \/ \E u, t \in Users : CreateDM(q, u, t)
  \/ \E u \in Users, v \in Conversations :
       \/ JoinGroup(q, u, v) \/ LeaveGroup(q, u, v) \/ PatchConversation(q, u, v)
       \/ DeleteGroup(q, u, v) \/ DeleteDM(q, u, v)
       \/ \E P \in SUBSET Users : AddMember(q, u, v, P)
       \/ \E t \in Users :
            RemoveMember(q, u, v, t) \/ MakeAdmin(q, u, v, t) \/ DismissAdmin(q, u, v, t)
  \/ SyncConversations(q)
  \/ FindNew(q) \/ FindTarget(q)

Commit(q) ==
  \/ \E v \in Conversations : CommitCreate(q, v) \/ CommitDM(q, v)
  \/ InsertFails(q) \/ CommitAdd(q) \/ CommitJoin(q) \/ CommitDelete(q) \/ CommitRole(q)
  \/ CommitDeleteGroup(q) \/ CommitDeleteDM(q)

UpdateCache(q) ==
  \/ CacheMembers(q) \/ CacheRemove(q) \/ Unlist(q) \/ CacheElsewhere(q)
  \/ ReadParticipants(q) \/ SyncConversation(q) \/ SyncAll(q)

MembershipNext ==
  \/ \E q \in Requests : Check(q) \/ Commit(q) \/ UpdateCache(q) \/ Abort(q)
  \/ LoseCache

MembershipSpec == MembershipInit /\ [][MembershipNext]_membershipVars

-----------------------------------------------------------------------------

\* Every variable holds a value of its type.
MembershipTypeOK ==
  /\ kind \in [Conversations -> Kinds]
  /\ row \in [Conversations -> [Users -> Rows \cup {NoRow}]]
  /\ members \subseteq Pairs /\ listed \subseteq Pairs
  /\ pc \in [Requests -> Steps]
  /\ req \in [Requests -> Request]
  /\ owed \in [Requests -> SUBSET Pairs]
  /\ late \in [Requests -> SUBSET Pairs]
  /\ excused \in [members : SUBSET Pairs, listed : SUBSET Pairs]

\* No request has changed the rows of p and is still to write it to the cache.
Expected(p) == \A q \in Requests : p \notin owed[q]

\* Whatever requests run at the same time, the cache (members, by which messages
\* are authorised, and listed, by which a socket finds its conversations)
\* disagrees with the rows about a user only while the request that changed the
\* row is not yet done with the cache, or because that request was overtaken by
\* another, failed after its commit, was a join_group, deleted a dm, or was an
\* add_member or leave_group that spelled the id of the group in another way; or
\* because Redis restarted since.  Whatever is written to the cache afterwards, by
\* value or by a synchronisation that was not itself overtaken, is right again.
CacheFollowsRows ==
  \A p \in Pairs : Expected(p) =>
    /\ p \notin excused.members => (p \in members <=> Participates(p[1], p[2]))
    /\ p \notin excused.listed => (p \in listed <=> Participates(p[1], p[2]))

\* A dm has exactly its two participants, and no manager: add_member,
\* remove_member and make_admin do not ask for the type of the conversation, and
\* rest on nobody having the role for it.
DMIsForTwo ==
  \A v \in Conversations : kind[v] = "dm" =>
    /\ Cardinality(Participants(v)) = 2
    /\ \A u \in Users : ~IsManager(v, u)

\* The owner of a group loses the role only by leaving it himself, whatever was
\* read about him before: nobody else removes, promotes or dismisses him, and
\* nobody becomes the owner of a group that exists.
OwnerStays ==
  [][\A v \in Conversations, u \in Users : row'[v][u] # row[v][u] =>
       /\ row[v][u].role = "OWNER" =>
            \E q \in Requests : /\ req[q].op = "leave" /\ req[q].by = u
                                /\ pc[q] = "commit" /\ pc'[q] = "cache"
       /\ row'[v][u].role = "OWNER" => kind[v] = "absent"]_membershipVars

\* Two users have two dms only if the two requests overlapped: neither had ended
\* when the other looked for an existing one.
TwinsOnlyFromOverlap ==
  \A v, w \in Conversations : \A u, t \in Users :
    (v # w /\ u # t /\ Shared(v, u, t) /\ Shared(w, u, t) /\ row[w][u].id # None) =>
      row[v][u].id \notin req[row[w][u].id].after \cup {None}
==============================================================================

------------------------------- MODULE Sessions -------------------------------
(***************************************************************************)
(* The sessions of one account: a row of refresh_tokens per device, with   *)
(* the hash of the device's only valid refresh token (services/auth.py,    *)
(* router/auth.py, router/token.py, models/auth/refresh.py).               *)
(*                                                                         *)
(* A request reads rows and later commits: PostgreSQL is at READ           *)
(* COMMITTED, and of a row that was read only the columns whose value      *)
(* changes, compared with what was read, are written.  A request that is   *)
(* turned down changes nothing and is not modelled, and nor is the expiry. *)
(***************************************************************************)
EXTENDS FiniteSets

CONSTANTS
  Devices,  \* values of x-device-id
  Uses      \* requests ever made; a login's refresh token is named by the login

VARIABLES
  sessions,  \* rows [id, device, token, revoked]: id, the login that inserted it
  use,       \* Uses -> what a request does, and what it has read
  granted    \* <<request, token>>: access tokens issued for refresh tokens

sessionVars == <<sessions, use, granted>>

\* A login without x-device-id has a row of its own.
AnyDevice == Devices \cup {"none"}

SessionRows == [id : Uses, device : AnyDevice, token : Uses, revoked : BOOLEAN]

UseStates ==
  [op : {"none", "login", "revoke", "revoke_all", "hard_delete", "refresh"},
   step : {"new", "commit", "done"},
   device : AnyDevice,
   found : SUBSET SessionRows,   \* the rows as they were read
   before : SUBSET Uses,         \* history: the requests that had ended
   token : Uses \cup {"none"}]   \* the token a refresh presents

NewUse == [op |-> "none", step |-> "new", device |-> "none", found |-> {},
           before |-> {}, token |-> "none"]

SessionsInit ==
  /\ sessions = {}
  /\ use = [q \in Uses |-> NewUse]
  /\ granted = {}

\* The refresh tokens that /refresh_token accepts.
Accepts(rows) == {s.token : s \in {r \in rows : ~r.revoked}}

-----------------------------------------------------------------------------

EndedUses == {q \in Uses : use[q].step = "done"}

Read(q, op, device, found, token) ==
  /\ use[q].step = "new"
  /\ use' = [use EXCEPT ![q] =
               [op |-> op, step |-> "commit", device |-> device, found |-> found,
                before |-> EndedUses, token |-> token]]
  /\ UNCHANGED <<sessions, granted>>

\* store_refresh_token, behind the two rate limiters and the password: of the
\* device's rows it takes any one.
ReadLogin(q, d) ==
  LET own == {s \in sessions : d # "none" /\ s.device = d}
  IN IF own = {} THEN Read(q, "login", d, {}, "none")
     ELSE \E s \in own : Read(q, "login", d, {s}, "none")

\* By the token (logout) or by the id (tokens/me/{id}).
ReadRevoke(q) == \E s \in sessions : Read(q, "revoke", s.device, {s}, "none")

\* MUTANT of ReadRevokeAll: the first row found is taken for all.
ReadRevokeFirst(q) ==
  /\ sessions # {}
  /\ \E s \in sessions : Read(q, "revoke_all", "none", {s}, "none")

ReadRevokeAll(q) ==
  /\ sessions # {}
  /\ Read(q, "revoke_all", "none", sessions, "none")

HardDelete(q) ==
  /\ use[q].step = "new"
  /\ sessions' = {}
  /\ use' = [use EXCEPT ![q] = [NewUse EXCEPT !.op = "hard_delete", !.step = "done",
                                              !.before = EndedUses]]
  /\ UNCHANGED granted

ReadRefresh(q) ==
  \E t \in Accepts(sessions) : Read(q, "refresh", "none", {}, t)

-----------------------------------------------------------------------------

Finished(q) == use' = [use EXCEPT ![q] = [@ EXCEPT !.step = "done", !.found = {}]]

CommitNew(q) ==
  /\ use[q].step = "commit" /\ use[q].op = "login"
  /\ use[q].found = {}
  /\ sessions' = sessions \cup
       {[id |-> q, device |-> use[q].device, token |-> q, revoked |-> FALSE]}
  /\ Finished(q)
  /\ UNCHANGED granted

\* The rows of the ids that were read, as they are now.
Now(q) == {s \in sessions : \E r \in use[q].found : r.id = s.id}

\* MUTANT of Renewed: the token that the device holds is kept.
RenewedKept(q, s, old) == [s EXCEPT !.revoked = FALSE]

\* MUTANT of Renewed: revoked is left as it is.
RenewedRevoked(q, s, old) == [s EXCEPT !.token = q]

\* The new hash; revoked is written only if it was read as TRUE.
Renewed(q, s, old) ==
  [s EXCEPT !.token = q, !.revoked = IF old.revoked THEN FALSE ELSE @]

\* The update of a row that is gone fails: Abandon.
CommitRenewed(q) ==
  /\ use[q].step = "commit" /\ use[q].op = "login"
  /\ \E s \in Now(q), old \in use[q].found :
       sessions' = (sessions \ {s}) \cup {Renewed(q, s, old)}
  /\ Finished(q)
  /\ UNCHANGED granted

\* A row read as revoked is not written.
CommitRevoked(q) ==
  LET written == {s \in Now(q) : \E r \in use[q].found : r.id = s.id /\ ~r.revoked}
  IN /\ use[q].step = "commit" /\ use[q].op \in {"revoke", "revoke_all"}
     /\ \A r \in use[q].found : r.revoked \/ \E s \in Now(q) : s.id = r.id
     /\ sessions' = (sessions \ written) \cup {[s EXCEPT !.revoked = TRUE] : s \in written}
     /\ Finished(q)
     /\ UNCHANGED granted

\* The access token is valid for ACCESS_TOKEN_EXPIRE_DAYS whatever becomes of
\* the session.
Grant(q) ==
  /\ use[q].step = "commit" /\ use[q].op = "refresh"
  /\ granted' = granted \cup {<<q, use[q].token>>}
  /\ Finished(q)
  /\ UNCHANGED sessions

\* The process dies, or a commit fails.
Abandon(q) ==
  /\ use[q].step = "commit"
  /\ use' = [use EXCEPT ![q] = [NewUse EXCEPT !.step = "done"]]
  /\ UNCHANGED <<sessions, granted>>

SessionsNext ==
  \E q \in Uses :
    \/ \E d \in AnyDevice : ReadLogin(q, d)
    \/ ReadRevoke(q) \/ ReadRevokeAll(q) \/ HardDelete(q) \/ ReadRefresh(q)
    \/ CommitNew(q) \/ CommitRenewed(q) \/ CommitRevoked(q) \/ Grant(q) \/ Abandon(q)

SessionsSpec == SessionsInit /\ [][SessionsNext]_sessionVars

-----------------------------------------------------------------------------

\* Every variable holds a value of its type.
SessionsTypeOK ==
  /\ sessions \subseteq SessionRows
  /\ use \in [Uses -> UseStates]
  /\ granted \subseteq Uses \X Uses

\* A refresh token that was valid and is not any more (logged out, revoked, or
\* replaced by a newer login) never becomes valid again: a login makes the row
\* of its device valid in the same statement that replaces the token.
DeadStaysDead ==
  [][\A q \in Uses :
       (use[q].op = "login" /\ use[q].step = "done" /\ q \notin Accepts(sessions)) =>
         q \notin Accepts(sessions')]_sessionVars

\* The refresh token a login returns is valid, until a revocation or a login of
\* the same device that had not ended when the login began: a login that finds
\* its row revoked makes it valid again.
LoginWorks ==
  \A q \in Uses :
    (use[q].op = "login" /\ use[q].step = "done" /\ q \notin Accepts(sessions)) =>
      \E p \in Uses \ use[q].before :
        /\ p # q
        /\ \/ use[p].op \in {"revoke", "revoke_all", "hard_delete"}
           \/ use[p].op = "login" /\ use[p].device = use[q].device

\* After revoke-all, the only valid refresh tokens are those of logins that had
\* not ended when it began, whatever ran at the same time; for any other, no
\* request that begins later is granted an access token.
RevokeAllIsThorough ==
  \A p \in Uses : (use[p].op = "revoke_all" /\ use[p].step = "done") =>
    /\ Accepts(sessions) \cap use[p].before = {}
    /\ \A g \in granted : p \in use[g[1]].before => g[2] \notin use[p].before
===============================================================================

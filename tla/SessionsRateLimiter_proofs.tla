--------------------- MODULE SessionsRateLimiter_proofs ----------------------
(***************************************************************************)
(* Theorems about Sessions, for any number of devices and of requests that *)
(* run at the same time; and about RateLimiter, for any number of attempts,*)
(* any limit and any window.  The two share nothing.                       *)
(***************************************************************************)
EXTENDS Sessions, RateLimiter, FiniteSetTheorems, TLAPS

-----------------------------------------------------------------------------
(* What one request may change.                                            *)

\* The commits, and what each leaves of the rows.
Commits(q) ==
  CommitNew(q) \/ CommitRenewed(q) \/ CommitRevoked(q) \/ Grant(q) \/ Abandon(q)

Reads(q) ==
  \/ \E d \in AnyDevice : ReadLogin(q, d)
  \/ ReadRevoke(q) \/ ReadRevokeAll(q) \/ ReadRefresh(q)

\* A request that has not ended moves alone.
Moves(q) ==
  /\ use[q].step # "done"
  /\ \A p \in Uses \ {q} : use'[p] = use[p]

\* What a reading step of q found, on the rows there are.
ReadStep(q) ==
  /\ use[q].step = "new"
  /\ UNCHANGED <<sessions, granted>>
  /\ \E op \in {"login", "revoke", "revoke_all", "refresh"}, d \in AnyDevice,
        found \in SUBSET sessions, t \in Uses \cup {"none"} :
       /\ use' = [use EXCEPT ![q] =
                    [op |-> op, step |-> "commit", device |-> d, found |-> found,
                     before |-> EndedUses, token |-> t]]
       /\ op = "revoke_all" => found = sessions
       /\ op = "refresh" => t \in Accepts(sessions)
       /\ op = "login" => /\ \A r \in found : r.device = d
                          /\ \A r, s \in found : r = s

LEMMA ReadsAreSteps ==
  ASSUME SessionsTypeOK, NEW q \in Uses, Reads(q)
  PROVE  ReadStep(q)
<1>1. CASE \E d \in AnyDevice : ReadLogin(q, d)
  <2>1. PICK d \in AnyDevice : ReadLogin(q, d)
    BY <1>1
  <2>2. PICK found \in SUBSET sessions :
          /\ Read(q, "login", d, found, "none")
          /\ \A r \in found : r.device = d
          /\ \A r, s \in found : r = s
    <3>1. CASE {s \in sessions : d # "none" /\ s.device = d} = {}
      BY <2>1, <3>1 DEF ReadLogin
    <3>2. CASE {s \in sessions : d # "none" /\ s.device = d} # {}
      <4>1. PICK s \in sessions : s.device = d /\ Read(q, "login", d, {s}, "none")
        BY <2>1, <3>2 DEF ReadLogin
      <4>2. QED
        BY <4>1
    <3>3. QED
      BY <3>1, <3>2
  <2>3. QED
    BY <2>2 DEF ReadStep, Read
<1>2. CASE ReadRevoke(q)
  <2>1. PICK s \in sessions : Read(q, "revoke", s.device, {s}, "none")
    BY <1>2 DEF ReadRevoke
  <2>2. s.device \in AnyDevice /\ {s} \in SUBSET sessions
    BY <2>1 DEF SessionsTypeOK, SessionRows
  <2>3. QED
    BY <2>1, <2>2 DEF ReadStep, Read
<1>3. CASE ReadRevokeAll(q)
  BY <1>3 DEF ReadRevokeAll, ReadStep, Read, AnyDevice
<1>4. CASE ReadRefresh(q)
  <2>1. PICK t \in Accepts(sessions) : Read(q, "refresh", "none", {}, t)
    BY <1>4 DEF ReadRefresh
  <2>2. t \in Uses
    BY <2>1 DEF Accepts, SessionsTypeOK, SessionRows
  <2>3. QED
    BY <2>1, <2>2 DEF ReadStep, Read, AnyDevice
<1>5. QED
  BY <1>1, <1>2, <1>3, <1>4 DEF Reads

LEMMA StepCases ==
  ASSUME SessionsTypeOK, SessionsNext
  PROVE  \E q \in Uses : ReadStep(q) \/ HardDelete(q) \/ Commits(q)
<1>1. PICK q \in Uses : Reads(q) \/ HardDelete(q) \/ Commits(q)
  BY DEF SessionsNext, Reads, Commits
<1>2. QED
  BY <1>1, ReadsAreSteps

LEMMA OneMoves ==
  ASSUME SessionsTypeOK, NEW q \in Uses, ReadStep(q) \/ HardDelete(q) \/ Commits(q)
  PROVE  Moves(q)
BY DEF SessionsTypeOK, Moves, ReadStep, HardDelete, Commits, CommitNew, CommitRenewed,
       CommitRevoked, Grant, Abandon, Finished

-----------------------------------------------------------------------------
(* Types.                                                                  *)

LEMMA FinishedType ==
  ASSUME SessionsTypeOK, NEW q \in Uses, Finished(q)
  PROVE  /\ use' \in [Uses -> UseStates]
         /\ use'[q].step = "done" /\ use'[q].found = {}
         /\ use'[q].op = use[q].op /\ use'[q].device = use[q].device
         /\ use'[q].before = use[q].before /\ use'[q].token = use[q].token
<1>1. PICK u \in UseStates : u = use[q]
  BY DEF SessionsTypeOK
<1>2. [u EXCEPT !.step = "done", !.found = {}] \in UseStates
  BY <1>1 DEF UseStates
<1>3. use' = [use EXCEPT ![q] = [u EXCEPT !.step = "done", !.found = {}]]
  BY <1>1 DEF Finished
<1>4. use'[q] = [u EXCEPT !.step = "done", !.found = {}] /\ use' \in [Uses -> UseStates]
  BY <1>2, <1>3 DEF SessionsTypeOK
<1>5. QED
  BY <1>1, <1>4 DEF UseStates

\* A refresh presents a token.
TInv ==
  /\ SessionsTypeOK
  /\ \A q \in Uses : use[q].op = "refresh" /\ use[q].step = "commit" => use[q].token \in Uses

LEMMA StepType ==
  ASSUME TInv, NEW q \in Uses, ReadStep(q) \/ HardDelete(q) \/ Commits(q)
  PROVE  SessionsTypeOK'
<1>0. SessionsTypeOK
  BY DEF TInv
<1>1. CASE ReadStep(q)
  <2>1. EndedUses \in SUBSET Uses /\ sessions \subseteq SessionRows
    BY <1>0 DEF EndedUses, SessionsTypeOK
  <2>2. use' \in [Uses -> UseStates]
    BY <1>0, <1>1, <2>1 DEF ReadStep, SessionsTypeOK, UseStates
  <2>3. QED
    BY <1>0, <1>1, <2>2 DEF ReadStep, SessionsTypeOK
<1>2. CASE HardDelete(q)
  BY <1>0, <1>2 DEF HardDelete, SessionsTypeOK, UseStates, NewUse, AnyDevice, EndedUses
<1>3. CASE CommitNew(q)
  <2>1. [id |-> q, device |-> use[q].device, token |-> q, revoked |-> FALSE] \in SessionRows
    BY <1>0 DEF SessionsTypeOK, SessionRows, UseStates
  <2>2. QED
    BY <1>0, <1>3, <2>1, FinishedType DEF CommitNew, SessionsTypeOK
<1>4. CASE CommitRenewed(q)
  <2>1. PICK s \in Now(q), old \in use[q].found :
          sessions' = (sessions \ {s}) \cup {Renewed(q, s, old)}
    BY <1>4 DEF CommitRenewed
  <2>2. s \in SessionRows
    BY <1>0, <2>1 DEF Now, SessionsTypeOK
  <2>3. Renewed(q, s, old) \in SessionRows
    BY <2>2 DEF SessionRows, Renewed
  <2>4. QED
    BY <1>0, <1>4, <2>1, <2>3, FinishedType DEF CommitRenewed, SessionsTypeOK
<1>5. CASE CommitRevoked(q)
  <2>1. \A s \in SessionRows : [s EXCEPT !.revoked = TRUE] \in SessionRows
    BY DEF SessionRows
  <2>2. sessions' \subseteq SessionRows
    BY <1>0, <1>5, <2>1 DEF CommitRevoked, SessionsTypeOK, Now
  <2>3. QED
    BY <1>0, <1>5, <2>2, FinishedType DEF CommitRevoked, SessionsTypeOK
<1>6. CASE Grant(q)
  <2>1. use[q].token \in Uses
    BY <1>6 DEF Grant, TInv
  <2>2. QED
    BY <1>0, <1>6, <2>1, FinishedType DEF Grant, SessionsTypeOK
<1>7. CASE Abandon(q)
  BY <1>0, <1>7 DEF Abandon, SessionsTypeOK, UseStates, NewUse, AnyDevice
<1>8. QED
  BY <1>1, <1>2, <1>3, <1>4, <1>5, <1>6, <1>7 DEF Commits

-----------------------------------------------------------------------------
(* The inductive invariant.                                                *)

\* What a request knows to have ended has.
History == \A q \in Uses : use[q].before \subseteq EndedUses

\* A row has one id, and is of the device of the logins it is named after.
RowsOfLogins ==
  /\ \A s, r \in sessions : s.id = r.id => s = r
  /\ \A s \in sessions :
       /\ use[s.id].step = "done" /\ use[s.id].device = s.device
       /\ use[s.token].step = "done" /\ use[s.token].op = "login"
       /\ use[s.token].device = s.device

\* A login found at most one row, of its device.
FoundByLogin ==
  \A q \in Uses : use[q].op = "login" =>
    /\ \A r, s \in use[q].found : r = s
    /\ \A r \in use[q].found :
         use[r.id].step = "done" /\ use[r.id].device = use[q].device

\* A revoke-all knows, as valid, every row whose token it has to revoke.
KnownRows ==
  \A p \in Uses : (use[p].op = "revoke_all" /\ use[p].step = "commit") =>
    \A s \in sessions : (~s.revoked /\ s.token \in use[p].before) =>
      \E r \in use[p].found : r.id = s.id /\ ~r.revoked

AllRevoked ==
  \A p \in Uses : (use[p].op = "revoke_all" /\ use[p].step = "done") =>
    \A s \in sessions : s.revoked \/ s.token \notin use[p].before

\* A refresh that began after a revoke-all presents none of its tokens.
FreshTokens ==
  \A q \in Uses : (use[q].op = "refresh" /\ use[q].step = "commit") =>
    /\ use[q].token \in Uses
    /\ \A p \in use[q].before :
         use[p].op = "revoke_all" => use[q].token \notin use[p].before

FreshGrants ==
  \A g \in granted :
    /\ use[g[1]].step = "done"
    /\ \A p \in use[g[1]].before :
         use[p].op = "revoke_all" => g[2] \notin use[p].before

\* p ended after q began, and may have made its token invalid.
Excuse(q, p) ==
  /\ p \notin use[q].before /\ p # q
  /\ use[p].step = "done"
  /\ \/ use[p].op \in {"revoke", "revoke_all", "hard_delete"}
     \/ use[p].op = "login" /\ use[p].device = use[q].device

Excused(q) == \E p \in Uses : Excuse(q, p)

\* A row that a login read as valid and that is revoked now.
RevokedMeanwhile ==
  \A q \in Uses : (use[q].op = "login" /\ use[q].step = "commit") =>
    \A r \in use[q].found, s \in sessions :
      (r.id = s.id /\ ~r.revoked /\ s.revoked) => Excused(q)

LoginsExcused ==
  \A q \in Uses : (use[q].op = "login" /\ use[q].step = "done") =>
    (\E s \in sessions : ~s.revoked /\ s.token = q) \/ Excused(q)

SInv ==
  /\ SessionsTypeOK /\ History
  /\ RowsOfLogins /\ FoundByLogin
  /\ KnownRows /\ AllRevoked /\ FreshTokens /\ FreshGrants
  /\ RevokedMeanwhile /\ LoginsExcused

LEMMA InitInv ==
  ASSUME SessionsInit
  PROVE  SInv
<1>1. SessionsTypeOK
  BY DEF SessionsInit, SessionsTypeOK, UseStates, NewUse, AnyDevice
<1>2. QED
  BY <1>1 DEF SessionsInit, NewUse, SInv, History, RowsOfLogins, FoundByLogin, KnownRows,
              AllRevoked, FreshTokens, FreshGrants, RevokedMeanwhile, LoginsExcused

-----------------------------------------------------------------------------
(* What every step keeps.                                                  *)

\* The context of the lemmas below: one step of q.
StepOf(q) == SInv /\ (ReadStep(q) \/ HardDelete(q) \/ Commits(q))

LEMMA StepFacts ==
  ASSUME NEW q \in Uses, StepOf(q)
  PROVE  /\ SessionsTypeOK /\ SessionsTypeOK'
         /\ Moves(q)
         /\ EndedUses \subseteq EndedUses'
         /\ EndedUses' \subseteq EndedUses \cup {q}
<1>1. SessionsTypeOK /\ TInv
  BY DEF StepOf, SInv, TInv, FreshTokens
<1>2. Moves(q)
  BY <1>1, OneMoves DEF StepOf
<1>3. QED
  BY <1>1, <1>2, StepType DEF StepOf, Moves, EndedUses

LEMMA HistoryStep ==
  ASSUME NEW q \in Uses, StepOf(q)
  PROVE  History'
<1>1. History /\ Moves(q) /\ EndedUses \subseteq EndedUses'
  BY StepFacts DEF StepOf, SInv
<1>2. SessionsTypeOK
  BY DEF StepOf, SInv
<1>3. use'[q].before \subseteq EndedUses
  <2>1. CASE ReadStep(q)
    BY <1>2, <2>1 DEF ReadStep, SessionsTypeOK
  <2>2. CASE HardDelete(q)
    BY <1>2, <2>2 DEF HardDelete, SessionsTypeOK, NewUse
  <2>3. CASE CommitNew(q) \/ CommitRenewed(q) \/ CommitRevoked(q) \/ Grant(q)
    BY <1>1, <1>2, <2>3, FinishedType
       DEF CommitNew, CommitRenewed, CommitRevoked, Grant, History
  <2>4. CASE Abandon(q)
    BY <1>2, <2>4 DEF Abandon, SessionsTypeOK, NewUse
  <2>5. QED
    BY <2>1, <2>2, <2>3, <2>4 DEF StepOf, Commits
<1>4. QED
  BY <1>1, <1>3 DEF History, Moves

LEMMA ExcuseStays ==
  ASSUME NEW q \in Uses, Moves(q), NEW x \in Uses, Excused(x),
         use'[x].before = use[x].before, use'[x].device = use[x].device
  PROVE  Excused(x)'
<1>1. PICK p \in Uses : Excuse(x, p)
  BY DEF Excused
<1>2. use'[p] = use[p]
  BY <1>1 DEF Excuse, Moves
<1>3. Excuse(x, p)'
  BY <1>1, <1>2 DEF Excuse
<1>4. QED
  BY <1>3 DEF Excused

\* A commit that may make tokens invalid is an excuse for all that began before.
LEMMA NewExcuse ==
  ASSUME NEW q \in Uses, StepOf(q), NEW x \in Uses \ {q},
         use'[q].step = "done",
         \/ use'[q].op \in {"revoke", "revoke_all", "hard_delete"}
         \/ use'[q].op = "login" /\ use'[q].device = use[x].device
  PROVE  Excused(x)'
<1>1. use'[x] = use[x] /\ q \notin use[x].before
  BY StepFacts DEF Moves, StepOf, SInv, History, EndedUses
<1>2. Excuse(x, q)'
  BY <1>1 DEF Excuse
<1>3. QED
  BY <1>2 DEF Excused

-----------------------------------------------------------------------------
(* The steps, one by one.                                                  *)

LEMMA ReadInv ==
  ASSUME NEW q \in Uses, StepOf(q), ReadStep(q)
  PROVE  SInv'
<1>1. /\ SInv /\ SessionsTypeOK' /\ History' /\ Moves(q)
      /\ UNCHANGED <<sessions, granted>>
      /\ \A p \in Uses \ {q} : use'[p] = use[p]
  BY StepFacts, HistoryStep DEF StepOf, ReadStep, Moves
<1>2. PICK op \in {"login", "revoke", "revoke_all", "refresh"}, d \in AnyDevice,
           found \in SUBSET sessions, t \in Uses \cup {"none"} :
        /\ use' = [use EXCEPT ![q] =
                     [op |-> op, step |-> "commit", device |-> d, found |-> found,
                      before |-> EndedUses, token |-> t]]
        /\ op = "revoke_all" => found = sessions
        /\ op = "refresh" => t \in Accepts(sessions)
        /\ op = "login" => /\ \A r \in found : r.device = d
                           /\ \A r, s \in found : r = s
  BY DEF ReadStep
<1>3. /\ use'[q].op = op /\ use'[q].step = "commit" /\ use'[q].device = d
      /\ use'[q].found = found /\ use'[q].before = EndedUses /\ use'[q].token = t
  BY <1>1, <1>2 DEF SInv, SessionsTypeOK
<1>4. use[q].step = "new"
  BY DEF ReadStep
<1>5. RowsOfLogins /\ sessions \subseteq SessionRows
  BY <1>1 DEF SInv, SessionsTypeOK
<1>6. \A s \in sessions : /\ s.id \in Uses \ {q} /\ s.token \in Uses \ {q}
  BY <1>4, <1>5 DEF RowsOfLogins, SessionRows
<1>7. RowsOfLogins'
  BY <1>1, <1>5, <1>6 DEF RowsOfLogins
<1>8. FoundByLogin'
  <2>1. ASSUME NEW x \in Uses, use'[x].op = "login"
        PROVE  /\ \A r, s \in use'[x].found : r = s
               /\ \A r \in use'[x].found :
                    use'[r.id].step = "done" /\ use'[r.id].device = use'[x].device
    <3>1. CASE x = q
      BY <1>1, <1>2, <1>3, <1>5, <1>6, <2>1, <3>1 DEF RowsOfLogins
    <3>2. CASE x # q
      <4>1. use'[x] = use[x] /\ use[x].found \subseteq SessionRows
        BY <1>1, <3>2 DEF SInv, SessionsTypeOK, UseStates
      <4>2. \A r \in use[x].found : r.id \in Uses /\ r.id # q
        BY <1>1, <1>4, <2>1, <4>1 DEF SInv, FoundByLogin, SessionRows
      <4>3. QED
        BY <1>1, <2>1, <4>1, <4>2 DEF SInv, FoundByLogin
    <3>3. QED
      BY <3>1, <3>2
  <2>2. QED
    BY <2>1 DEF FoundByLogin
<1>9. KnownRows'
  BY <1>1, <1>2, <1>3 DEF SInv, KnownRows
<1>10. AllRevoked'
  BY <1>1, <1>3 DEF SInv, AllRevoked
<1>11. FreshTokens'
  <2>1. ASSUME NEW x \in Uses, use'[x].op = "refresh", use'[x].step = "commit"
        PROVE  /\ use'[x].token \in Uses
               /\ \A p \in use'[x].before :
                    use'[p].op = "revoke_all" => use'[x].token \notin use'[p].before
    <3>1. CASE x = q
      <4>1. PICK s \in sessions : ~s.revoked /\ s.token = t
        BY <1>2, <1>3, <2>1, <3>1 DEF Accepts
      <4>2. \A p \in EndedUses : p # q /\ use'[p] = use[p]
        BY <1>1, <1>4 DEF EndedUses
      <4>3. \A p \in EndedUses : use[p].op = "revoke_all" => t \notin use[p].before
        BY <1>1, <4>1 DEF SInv, AllRevoked, EndedUses
      <4>4. QED
        BY <1>3, <1>6, <3>1, <4>1, <4>2, <4>3
    <3>2. CASE x # q
      <4>1. use'[x] = use[x] /\ q \notin use[x].before /\ use[x].before \subseteq Uses
        BY <1>1, <1>4, <3>2 DEF SInv, History, EndedUses
      <4>2. QED
        BY <1>1, <2>1, <4>1 DEF SInv, FreshTokens
    <3>3. QED
      BY <3>1, <3>2
  <2>2. QED
    BY <2>1 DEF FreshTokens
<1>12. FreshGrants'
  <2>1. ASSUME NEW g \in granted
        PROVE  /\ use'[g[1]].step = "done"
               /\ \A p \in use'[g[1]].before :
                    use'[p].op = "revoke_all" => g[2] \notin use'[p].before
    <3>1. g[1] \in Uses /\ use[g[1]].step = "done"
      BY <1>1 DEF SInv, FreshGrants, SessionsTypeOK
    <3>2. use'[g[1]] = use[g[1]]
      BY <1>1, <1>4, <3>1
    <3>3. \A p \in use[g[1]].before : p \in Uses \ {q}
      BY <1>1, <1>4, <3>1 DEF SInv, History, EndedUses
    <3>4. QED
      BY <1>1, <3>1, <3>2, <3>3 DEF SInv, FreshGrants
  <2>2. QED
    BY <1>1, <2>1 DEF FreshGrants
<1>13. RevokedMeanwhile'
  <2>1. ASSUME NEW x \in Uses, use'[x].op = "login", use'[x].step = "commit",
               NEW r \in use'[x].found, NEW s \in sessions,
               r.id = s.id, ~r.revoked, s.revoked
        PROVE  Excused(x)'
    <3>1. x # q
      BY <1>2, <1>3, <1>5, <2>1 DEF RowsOfLogins
    <3>2. use'[x] = use[x]
      BY <1>1, <3>1
    <3>3. Excused(x)
      BY <1>1, <2>1, <3>2 DEF SInv, RevokedMeanwhile
    <3>4. QED
      BY <1>1, <3>2, <3>3, ExcuseStays
  <2>2. QED
    BY <1>1, <2>1 DEF RevokedMeanwhile
<1>14. LoginsExcused'
  <2>1. ASSUME NEW x \in Uses, use'[x].op = "login", use'[x].step = "done",
               ~ \E s \in sessions : ~s.revoked /\ s.token = x
        PROVE  Excused(x)'
    <3>1. x # q
      BY <1>3, <2>1
    <3>2. use'[x] = use[x]
      BY <1>1, <3>1
    <3>3. Excused(x)
      BY <1>1, <2>1, <3>2 DEF SInv, LoginsExcused
    <3>4. QED
      BY <1>1, <3>2, <3>3, ExcuseStays
  <2>2. QED
    BY <1>1, <2>1 DEF LoginsExcused
<1>15. QED
  BY <1>1, <1>7, <1>8, <1>9, <1>10, <1>11, <1>12, <1>13, <1>14 DEF SInv

-----------------------------------------------------------------------------
(* The steps that end a request.                                           *)

\* Of the rows after the step, those that are valid and new have q's token.
ValidRows(q) == \A s \in sessions' : s.revoked \/ s \in sessions \/ s.token = q

EndParts(q) ==
  /\ SessionsTypeOK' /\ History' /\ FoundByLogin' /\ FreshTokens' /\ KnownRows'
  /\ granted' = granted => FreshGrants'
  /\ use'[q].op # "revoke_all" => AllRevoked'

LEMMA EndStep ==
  ASSUME NEW q \in Uses, StepOf(q), use'[q].step = "done", use'[q].found = {}, ValidRows(q)
  PROVE  EndParts(q)
<1>1. /\ SInv /\ SessionsTypeOK' /\ History' /\ Moves(q)
      /\ \A p \in Uses \ {q} : use'[p] = use[p]
      /\ \A x \in Uses : q \notin use[x].before /\ use[x].before \subseteq EndedUses
  BY StepFacts, HistoryStep DEF StepOf, Moves, SInv, History, EndedUses
<1>2. FoundByLogin'
  <2>1. ASSUME NEW x \in Uses \ {q}, use[x].op = "login", NEW r \in use[x].found
        PROVE  use'[r.id].step = "done" /\ use'[r.id].device = use[x].device
    <3>1. r.id \in Uses
      BY <1>1 DEF SInv, SessionsTypeOK, UseStates, SessionRows
    <3>2. r.id # q /\ use[r.id].step = "done" /\ use[r.id].device = use[x].device
      BY <1>1, <2>1 DEF SInv, FoundByLogin, Moves
    <3>3. QED
      BY <1>1, <3>1, <3>2
  <2>2. QED
    BY <1>1, <2>1 DEF SInv, FoundByLogin
<1>3. FreshTokens'
  <2>1. ASSUME NEW x \in Uses, use'[x].op = "refresh", use'[x].step = "commit"
        PROVE  /\ use'[x].token \in Uses
               /\ \A p \in use'[x].before :
                    use'[p].op = "revoke_all" => use'[x].token \notin use'[p].before
    <3>1. x # q /\ use'[x] = use[x]
      BY <1>1, <2>1
    <3>2. \A p \in use[x].before : p \in Uses \ {q} /\ use'[p] = use[p]
      BY <1>1 DEF EndedUses
    <3>3. QED
      BY <1>1, <2>1, <3>1, <3>2 DEF SInv, FreshTokens
  <2>2. QED
    BY <2>1 DEF FreshTokens
<1>4. KnownRows'
  <2>1. ASSUME NEW x \in Uses, use'[x].op = "revoke_all", use'[x].step = "commit",
               NEW s \in sessions', ~s.revoked, s.token \in use'[x].before
        PROVE  \E r \in use'[x].found : r.id = s.id /\ ~r.revoked
    <3>1. use'[x] = use[x]
      BY <1>1, <2>1
    <3>2. s \in sessions
      BY <1>1, <2>1, <3>1 DEF ValidRows
    <3>3. QED
      BY <1>1, <2>1, <3>1, <3>2 DEF SInv, KnownRows
  <2>2. QED
    BY <2>1 DEF KnownRows
<1>5. ASSUME granted' = granted PROVE FreshGrants'
  <2>1. ASSUME NEW g \in granted
        PROVE  /\ use'[g[1]].step = "done"
               /\ \A p \in use'[g[1]].before :
                    use'[p].op = "revoke_all" => g[2] \notin use'[p].before
    <3>1. g[1] \in Uses /\ use[g[1]].step = "done"
      BY <1>1 DEF SInv, FreshGrants, SessionsTypeOK
    <3>2. g[1] # q /\ use'[g[1]] = use[g[1]]
      BY <1>1, <3>1 DEF Moves
    <3>3. \A p \in use[g[1]].before : p \in Uses \ {q} /\ use'[p] = use[p]
      BY <1>1, <3>1 DEF EndedUses
    <3>4. QED
      BY <1>1, <3>1, <3>2, <3>3 DEF SInv, FreshGrants
  <2>2. QED
    BY <1>5, <2>1 DEF FreshGrants
<1>6. ASSUME use'[q].op # "revoke_all" PROVE AllRevoked'
  <2>1. ASSUME NEW p \in Uses, use'[p].op = "revoke_all", use'[p].step = "done",
               NEW s \in sessions'
        PROVE  s.revoked \/ s.token \notin use'[p].before
    <3>1. use'[p] = use[p]
      BY <1>1, <1>6, <2>1
    <3>2. QED
      BY <1>1, <2>1, <3>1 DEF SInv, AllRevoked, ValidRows
  <2>2. QED
    BY <2>1 DEF AllRevoked
<1>7. QED
  BY <1>1, <1>2, <1>3, <1>4, <1>5, <1>6 DEF EndParts

\* Rows are left as they are: the parts about rows and their excuses stay.
LEMMA RowsStay ==
  ASSUME NEW q \in Uses, StepOf(q), use'[q].step = "done", use'[q].op # "login",
         sessions' = sessions
  PROVE  RowsOfLogins' /\ RevokedMeanwhile' /\ LoginsExcused'
<1>1. SInv /\ Moves(q) /\ \A p \in Uses \ {q} : use'[p] = use[p]
  BY StepFacts DEF StepOf, Moves
<1>2. \A s \in sessions : s.id \in Uses \ {q} /\ s.token \in Uses \ {q}
  BY <1>1 DEF SInv, SessionsTypeOK, SessionRows, RowsOfLogins, Moves
<1>3. RowsOfLogins'
  BY <1>1, <1>2 DEF SInv, RowsOfLogins
<1>4. RevokedMeanwhile'
  <2>1. ASSUME NEW x \in Uses, use'[x].op = "login", use'[x].step = "commit",
               NEW r \in use'[x].found, NEW s \in sessions, r.id = s.id, ~r.revoked, s.revoked
        PROVE  Excused(x)'
    <3>1. use'[x] = use[x]
      BY <1>1, <2>1
    <3>2. QED
      BY <1>1, <2>1, <3>1, ExcuseStays DEF SInv, RevokedMeanwhile
  <2>2. QED
    BY <2>1 DEF RevokedMeanwhile
<1>5. LoginsExcused'
  <2>1. ASSUME NEW x \in Uses, use'[x].op = "login", use'[x].step = "done",
               ~ \E s \in sessions : ~s.revoked /\ s.token = x
        PROVE  Excused(x)'
    <3>1. use'[x] = use[x]
      BY <1>1, <2>1
    <3>2. QED
      BY <1>1, <2>1, <3>1, ExcuseStays DEF SInv, LoginsExcused
  <2>2. QED
    BY <2>1 DEF LoginsExcused
<1>6. QED
  BY <1>3, <1>4, <1>5

LEMMA AbandonInv ==
  ASSUME NEW q \in Uses, StepOf(q), Abandon(q)
  PROVE  SInv'
<1>1. /\ use'[q].step = "done" /\ use'[q].found = {} /\ use'[q].op = "none"
      /\ sessions' = sessions /\ granted' = granted
  BY DEF StepOf, SInv, SessionsTypeOK, Abandon, NewUse
<1>2. EndParts(q)
  BY <1>1, EndStep DEF ValidRows
<1>3. QED
  BY <1>1, <1>2, RowsStay DEF EndParts, SInv

LEMMA GrantInv ==
  ASSUME NEW q \in Uses, StepOf(q), Grant(q)
  PROVE  SInv'
<1>1. SInv /\ Moves(q) /\ \A p \in Uses \ {q} : use'[p] = use[p]
  BY StepFacts DEF StepOf, Moves
<1>2. /\ use'[q].step = "done" /\ use'[q].found = {} /\ use'[q].op = "refresh"
      /\ use'[q].before = use[q].before
      /\ sessions' = sessions /\ granted' = granted \cup {<<q, use[q].token>>}
  BY <1>1, FinishedType DEF Grant, SInv
<1>3. EndParts(q)
  BY <1>2, EndStep DEF ValidRows
<1>4. FreshGrants'
  <2>1. ASSUME NEW g \in granted'
        PROVE  /\ use'[g[1]].step = "done"
               /\ \A p \in use'[g[1]].before :
                    use'[p].op = "revoke_all" => g[2] \notin use'[p].before
    <3>1. \A x \in Uses : \A p \in use[x].before : p \in Uses \ {q}
      BY <1>1 DEF SInv, History, EndedUses, Moves
    <3>2. CASE g = <<q, use[q].token>>
      BY <1>1, <1>2, <3>1, <3>2 DEF SInv, FreshTokens, Grant
    <3>3. CASE g \in granted
      <4>1. g[1] \in Uses /\ use[g[1]].step = "done" /\ g[1] # q
        BY <1>1, <3>3 DEF SInv, FreshGrants, SessionsTypeOK, Moves
      <4>2. QED
        BY <1>1, <3>1, <3>3, <4>1 DEF SInv, FreshGrants
    <3>4. QED
      BY <1>2, <2>1, <3>2, <3>3
  <2>2. QED
    BY <2>1 DEF FreshGrants
<1>5. QED
  BY <1>2, <1>3, <1>4, RowsStay DEF EndParts, SInv

LEMMA HardDeleteInv ==
  ASSUME NEW q \in Uses, StepOf(q), HardDelete(q)
  PROVE  SInv'
<1>1. /\ use'[q].step = "done" /\ use'[q].found = {} /\ use'[q].op = "hard_delete"
      /\ sessions' = {} /\ granted' = granted
  BY DEF StepOf, SInv, SessionsTypeOK, HardDelete, NewUse
<1>2. EndParts(q)
  BY <1>1, EndStep DEF ValidRows
<1>3. RowsOfLogins' /\ RevokedMeanwhile'
  BY <1>1 DEF RowsOfLogins, RevokedMeanwhile
<1>4. LoginsExcused'
  BY <1>1, NewExcuse DEF LoginsExcused
<1>5. QED
  BY <1>1, <1>2, <1>3, <1>4 DEF EndParts, SInv

LEMMA CommitNewInv ==
  ASSUME NEW q \in Uses, StepOf(q), CommitNew(q)
  PROVE  SInv'
<1> DEFINE new == [id |-> q, device |-> use[q].device, token |-> q, revoked |-> FALSE]
<1>1. SInv /\ Moves(q) /\ \A p \in Uses \ {q} : use'[p] = use[p]
  BY StepFacts DEF StepOf, Moves
<1>2. /\ use'[q].step = "done" /\ use'[q].found = {} /\ use'[q].op = "login"
      /\ use'[q].device = use[q].device
      /\ sessions' = sessions \cup {new} /\ granted' = granted
  BY <1>1, FinishedType DEF CommitNew, SInv
<1>0. new.id = q /\ new.token = q /\ new.device = use[q].device /\ ~new.revoked
  OBVIOUS
<1> HIDE DEF new
<1>3. EndParts(q)
  BY <1>0, <1>2, EndStep DEF ValidRows
<1>4. \A s \in sessions : s.id \in Uses \ {q} /\ s.token \in Uses \ {q}
  BY <1>1 DEF SInv, SessionsTypeOK, SessionRows, RowsOfLogins, Moves
<1>5. RowsOfLogins'
  BY <1>0, <1>1, <1>2, <1>4 DEF SInv, RowsOfLogins
<1>6. RevokedMeanwhile'
  <2>1. ASSUME NEW x \in Uses, use'[x].op = "login", use'[x].step = "commit",
               NEW r \in use'[x].found, NEW s \in sessions', r.id = s.id, ~r.revoked, s.revoked
        PROVE  Excused(x)'
    <3>1. use'[x] = use[x] /\ s \in sessions
      BY <1>0, <1>1, <1>2, <2>1
    <3>2. QED
      BY <1>1, <2>1, <3>1, ExcuseStays DEF SInv, RevokedMeanwhile
  <2>2. QED
    BY <2>1 DEF RevokedMeanwhile
<1>7. LoginsExcused'
  <2>1. ASSUME NEW x \in Uses, use'[x].op = "login", use'[x].step = "done",
               ~ \E s \in sessions' : ~s.revoked /\ s.token = x
        PROVE  Excused(x)'
    <3>1. x # q /\ use'[x] = use[x]
      BY <1>0, <1>1, <1>2, <2>1
    <3>2. QED
      BY <1>1, <1>2, <2>1, <3>1, ExcuseStays DEF SInv, LoginsExcused
  <2>2. QED
    BY <2>1 DEF LoginsExcused
<1>8. QED
  BY <1>2, <1>3, <1>5, <1>6, <1>7 DEF EndParts, SInv

LEMMA CommitRenewedInv ==
  ASSUME NEW q \in Uses, StepOf(q), CommitRenewed(q)
  PROVE  SInv'
<1>1. SInv /\ Moves(q) /\ \A p \in Uses \ {q} : use'[p] = use[p]
  BY StepFacts DEF StepOf, Moves
<1>2. PICK s \in Now(q), old \in use[q].found :
        sessions' = (sessions \ {s}) \cup {Renewed(q, s, old)}
  BY DEF CommitRenewed
<1> DEFINE new == Renewed(q, s, old)
<1>3. /\ use'[q].step = "done" /\ use'[q].found = {} /\ use'[q].op = "login"
      /\ use'[q].device = use[q].device /\ use'[q].before = use[q].before
      /\ granted' = granted /\ use[q].op = "login" /\ use[q].step = "commit"
  BY <1>1, FinishedType DEF CommitRenewed, SInv
<1>4. s \in sessions /\ s \in SessionRows /\ s.id = old.id
  BY <1>1, <1>2, <1>3 DEF Now, SInv, SessionsTypeOK, FoundByLogin
<1>5. /\ new.id = s.id /\ new.token = q /\ new.device = s.device
      /\ new.revoked = (IF old.revoked THEN FALSE ELSE s.revoked)
  BY <1>4 DEF Renewed, SessionRows
<1>6. EndParts(q)
  BY <1>2, <1>3, <1>5, EndStep DEF ValidRows
<1>7. \A r \in sessions : r.id \in Uses \ {q} /\ r.token \in Uses \ {q}
  BY <1>1 DEF SInv, SessionsTypeOK, SessionRows, RowsOfLogins, Moves
<1>8. s.device = use[q].device
  BY <1>1, <1>2, <1>3, <1>4 DEF SInv, RowsOfLogins, FoundByLogin
<1>9. RowsOfLogins'
  BY <1>1, <1>2, <1>3, <1>4, <1>5, <1>7, <1>8 DEF SInv, RowsOfLogins
<1>10. RevokedMeanwhile'
  <2>1. ASSUME NEW x \in Uses, use'[x].op = "login", use'[x].step = "commit",
               NEW r \in use'[x].found, NEW t \in sessions', r.id = t.id, ~r.revoked, t.revoked
        PROVE  Excused(x)'
    <3>1. use'[x] = use[x]
      BY <1>1, <1>3, <2>1
    <3>2. \E u \in sessions : u.id = t.id /\ u.revoked
      BY <1>2, <1>4, <1>5, <2>1
    <3>3. QED
      BY <1>1, <2>1, <3>1, <3>2, ExcuseStays DEF SInv, RevokedMeanwhile
  <2>2. QED
    BY <2>1 DEF RevokedMeanwhile
<1>11. LoginsExcused'
  <2>1. ASSUME NEW x \in Uses, use'[x].op = "login", use'[x].step = "done",
               ~ \E t \in sessions' : ~t.revoked /\ t.token = x
        PROVE  Excused(x)'
    <3>1. CASE x = q
      <4>1. new.revoked /\ ~old.revoked /\ s.revoked
        BY <1>2, <1>5, <2>1, <3>1
      <4>2. Excused(q)
        BY <1>1, <1>3, <1>4, <4>1 DEF SInv, RevokedMeanwhile
      <4>3. QED
        BY <1>1, <1>3, <3>1, <4>2, ExcuseStays
    <3>2. CASE x # q /\ s.token = x /\ ~s.revoked
      <4>1. use[x].device = s.device
        BY <1>1, <1>4, <3>2 DEF SInv, RowsOfLogins
      <4>2. QED
        BY <1>3, <1>8, <3>2, <4>1, NewExcuse
    <3>3. CASE x # q /\ ~(s.token = x /\ ~s.revoked)
      <4>1. use'[x] = use[x] /\ ~ \E t \in sessions : ~t.revoked /\ t.token = x
        BY <1>1, <1>2, <2>1, <3>3
      <4>2. QED
        BY <1>1, <2>1, <4>1, ExcuseStays DEF SInv, LoginsExcused
    <3>4. QED
      BY <3>1, <3>2, <3>3
  <2>2. QED
    BY <2>1 DEF LoginsExcused
<1>12. QED
  BY <1>3, <1>6, <1>9, <1>10, <1>11 DEF EndParts, SInv

LEMMA CommitRevokedInv ==
  ASSUME NEW q \in Uses, StepOf(q), CommitRevoked(q)
  PROVE  SInv'
<1> DEFINE written == {s \in Now(q) : \E r \in use[q].found : r.id = s.id /\ ~r.revoked}
<1>1. SInv /\ Moves(q) /\ \A p \in Uses \ {q} : use'[p] = use[p]
  BY StepFacts DEF StepOf, Moves
<1>2. /\ use'[q].step = "done" /\ use'[q].found = {}
      /\ use'[q].op = use[q].op /\ use[q].op \in {"revoke", "revoke_all"}
      /\ use'[q].before = use[q].before /\ use[q].step = "commit"
      /\ granted' = granted
  BY <1>1, FinishedType DEF CommitRevoked, SInv
<1>3. sessions' = (sessions \ written) \cup {[s EXCEPT !.revoked = TRUE] : s \in written}
  BY DEF CommitRevoked
<1>4. \A t \in sessions' :
        \/ t \in sessions /\ t \notin written
        \/ /\ t.revoked
           /\ \E s \in written : t.id = s.id /\ t.token = s.token /\ t.device = s.device
                                 /\ t = [s EXCEPT !.revoked = TRUE]
  BY <1>1, <1>3 DEF SInv, SessionsTypeOK, SessionRows, Now
<1>5. written \subseteq sessions
  BY DEF Now
<1>6. EndParts(q)
  BY <1>2, <1>4, EndStep DEF ValidRows
<1>7. \A r \in sessions : r.id \in Uses \ {q} /\ r.token \in Uses \ {q}
  BY <1>1 DEF SInv, SessionsTypeOK, SessionRows, RowsOfLogins, Moves
<1>8. RowsOfLogins'
  <2>1. ASSUME NEW t \in sessions', NEW u \in sessions', t.id = u.id
        PROVE  t = u
    <3>1. PICK s \in sessions : /\ t.id = s.id
                               /\ \/ t = s /\ s \notin written
                                  \/ t = [s EXCEPT !.revoked = TRUE] /\ s \in written
      BY <1>4, <1>5
    <3>2. PICK r \in sessions : /\ u.id = r.id
                               /\ \/ u = r /\ r \notin written
                                  \/ u = [r EXCEPT !.revoked = TRUE] /\ r \in written
      BY <1>4, <1>5
    <3>3. s = r
      BY <1>1, <2>1, <3>1, <3>2 DEF SInv, RowsOfLogins
    <3>4. QED
      BY <3>1, <3>2, <3>3
  <2>2. \A t \in sessions' : \E s \in sessions :
          t.id = s.id /\ t.token = s.token /\ t.device = s.device
    BY <1>4, <1>5
  <2>3. QED
    BY <1>1, <1>7, <2>1, <2>2 DEF SInv, RowsOfLogins
<1>9. AllRevoked'
  <2>1. ASSUME NEW p \in Uses, use'[p].op = "revoke_all", use'[p].step = "done",
               NEW t \in sessions', ~t.revoked
        PROVE  t.token \notin use'[p].before
    <3>1. t \in sessions /\ t \notin written
      BY <1>4, <2>1
    <3>2. CASE p = q
      <4>1. ~ \E r \in use[q].found : r.id = t.id /\ ~r.revoked
        BY <3>1 DEF Now
      <4>2. QED
        BY <1>1, <1>2, <2>1, <3>1, <3>2, <4>1 DEF SInv, KnownRows
    <3>3. CASE p # q
      BY <1>1, <2>1, <3>1, <3>3 DEF SInv, AllRevoked
    <3>4. QED
      BY <3>2, <3>3
  <2>2. QED
    BY <2>1 DEF AllRevoked
<1>10. RevokedMeanwhile'
  <2>1. ASSUME NEW x \in Uses, use'[x].op = "login"
        PROVE  x # q
    BY <1>2, <2>1
  <2>2. QED
    BY <1>2, <2>1, NewExcuse DEF RevokedMeanwhile
<1>11. LoginsExcused'
  BY <1>2, NewExcuse DEF LoginsExcused
<1>12. QED
  BY <1>2, <1>6, <1>8, <1>9, <1>10, <1>11 DEF EndParts, SInv

-----------------------------------------------------------------------------
(* The theorems.                                                           *)

LEMMA SInvStep ==
  ASSUME SInv, [SessionsNext]_sessionVars
  PROVE  SInv'
<1>1. CASE SessionsNext
  <2>1. PICK q \in Uses : ReadStep(q) \/ HardDelete(q) \/ Commits(q)
    BY <1>1, StepCases DEF SInv
  <2>2. StepOf(q)
    BY <2>1 DEF StepOf
  <2>3. QED
    BY <2>1, <2>2, ReadInv, HardDeleteInv, CommitNewInv, CommitRenewedInv,
       CommitRevokedInv, GrantInv, AbandonInv DEF Commits
<1>2. CASE UNCHANGED sessionVars
  BY <1>2 DEF sessionVars, SInv, SessionsTypeOK, History, EndedUses, RowsOfLogins,
     FoundByLogin, KnownRows, AllRevoked, FreshTokens, FreshGrants, RevokedMeanwhile,
     LoginsExcused, Excused, Excuse
<1>3. QED
  BY <1>1, <1>2

\* The inductive invariant: who has logged in, what each request has read, and what
\* the requests that overlapped it may have done to those rows meanwhile.
THEOREM SInvHolds == SessionsSpec => []SInv
<1>1. SessionsInit => SInv
  BY InitInv
<1>2. SInv /\ [SessionsNext]_sessionVars => SInv'
  BY SInvStep
<1>3. QED
  BY <1>1, <1>2, PTL DEF SessionsSpec

\* The types hold, of the rows, the requests and the grants.
THEOREM SessionsTypesCorrect == SessionsSpec => []SessionsTypeOK
<1>1. SInv => SessionsTypeOK
  BY DEF SInv
<1>2. QED
  BY <1>1, SInvHolds, PTL

\* services/auth.py:118 revokes every token of a login that had ended when it
\* began, however many logins, revocations and refreshes interleave with it, and
\* no request begun later is granted an access token for one of them.
THEOREM RevocationIsThorough == SessionsSpec => []RevokeAllIsThorough
<1>1. SInv => RevokeAllIsThorough
  <2>1. SUFFICES ASSUME SInv, NEW p \in Uses, use[p].op = "revoke_all", use[p].step = "done"
                 PROVE  /\ Accepts(sessions) \cap use[p].before = {}
                        /\ \A g \in granted : p \in use[g[1]].before => g[2] \notin use[p].before
    BY DEF RevokeAllIsThorough
  <2>2. Accepts(sessions) \cap use[p].before = {}
    BY <2>1 DEF SInv, AllRevoked, Accepts
  <2>3. \A g \in granted : p \in use[g[1]].before => g[2] \notin use[p].before
    BY <2>1 DEF SInv, FreshGrants
  <2>4. QED
    BY <2>2, <2>3
<1>2. QED
  BY <1>1, SInvHolds, PTL

\* The token that store_refresh_token returns is accepted, unless a revocation
\* or a login of the same device ended after the login had begun.
THEOREM LoginsWork == SessionsSpec => []LoginWorks
<1>1. SInv => LoginWorks
  BY DEF SInv, LoginsExcused, LoginWorks, Excused, Excuse, Accepts
<1>2. QED
  BY <1>1, SInvHolds, PTL

\* A refresh token that is not accepted any more never is again.
THEOREM DeadTokensStayDead == SessionsSpec => DeadStaysDead
<1> DEFINE Stays == \A q \in Uses :
             (use[q].op = "login" /\ use[q].step = "done" /\ q \notin Accepts(sessions)) =>
               q \notin Accepts(sessions')
<1>1. SInv /\ [SessionsNext]_sessionVars => [Stays]_sessionVars
  <2>1. SUFFICES ASSUME SInv, SessionsNext
                 PROVE  Stays
    OBVIOUS
  <2>2. PICK x \in Uses : ReadStep(x) \/ HardDelete(x) \/ Commits(x)
    BY <2>1, StepCases DEF SInv
  <2>3. \A s \in sessions' : s.revoked \/ s \in sessions \/ (s.token = x /\ use[x].step # "done")
    <3>1. CASE CommitRenewed(x)
      <4>1. PICK s \in Now(x), old \in use[x].found :
              sessions' = (sessions \ {s}) \cup {Renewed(x, s, old)}
        BY <3>1 DEF CommitRenewed
      <4>2. s \in SessionRows
        BY <2>1, <4>1 DEF Now, SInv, SessionsTypeOK
      <4>3. Renewed(x, s, old).token = x
        BY <4>2 DEF Renewed, SessionRows
      <4>4. QED
        BY <3>1, <4>1, <4>3 DEF CommitRenewed
    <3>2. CASE CommitRevoked(x)
      BY <2>1, <3>2 DEF CommitRevoked, SInv, SessionsTypeOK, SessionRows, Now
    <3>3. CASE ~CommitRenewed(x) /\ ~CommitRevoked(x)
      BY <2>2, <3>3 DEF ReadStep, HardDelete, Commits, CommitNew, Grant, Abandon
    <3>4. QED
      BY <3>1, <3>2, <3>3
  <2>4. QED
    BY <2>3 DEF Accepts
<1>2. QED
  BY <1>1, SInvHolds, PTL DEF SessionsSpec, DeadStaysDead

-----------------------------------------------------------------------------
(* The rate limiter.                                                       *)

\* Stamps are of the past.
StampsInv ==
  /\ Window <= clock
  /\ \A x \in Attempts :
       /\ attempt[x].step # "new" => attempt[x].stamp \in Window..clock
       /\ attempt[x].stray => attempt[x].step # "new"
  /\ executed \subseteq 0..clock

\* The log holds stamps of executed transactions, and every one that the window of
\* any attempt to come can reach: the key outlives it.
LogInv ==
  /\ log \subseteq executed
  /\ \A s \in executed : /\ s > clock - Window => s \in log
                         /\ s + Window <= expiry

LimiterInv == LimiterTypeOK /\ StampsInv /\ LogInv /\ RefusedByWindow

\* What RefusedByWindow says of an attempt.
Verdict(r) ==
  r.step \in {"admitted", "refused"} =>
    /\ r.step = "refused" => Cardinality(r.behind) > Limit
    /\ Cardinality(r.behind) > Limit /\ ~r.late => r.step = "refused"

LEMMA Verdicts == RefusedByWindow <=> \A a \in Attempts : Verdict(attempt[a])
BY DEF RefusedByWindow, Answered, Verdict

LEMMA InitLimiter == LimiterInit => LimiterInv
<1> SUFFICES ASSUME LimiterInit PROVE LimiterInv
  OBVIOUS
<1>1. LimiterTypeOK /\ StampsInv /\ LogInv
  BY LimiterAssumption DEF LimiterInit, LimiterTypeOK, AttemptStates, StampsInv, LogInv
<1>2. RefusedByWindow
  BY DEF LimiterInit, RefusedByWindow, Answered
<1>3. QED
  BY <1>1, <1>2 DEF LimiterInv

\* Types, in the form in which the proofs need them.
LEMMA AttemptTypes ==
  ASSUME LimiterInv
  PROVE  /\ Limit \in Nat /\ Window \in Nat /\ clock \in Nat /\ expiry \in Nat
         /\ log \subseteq Nat /\ executed \subseteq Nat /\ attempt \in [Attempts -> AttemptStates]
         /\ \A x \in Attempts :
              /\ attempt[x].step \in {"new", "stamped", "admitted", "refused", "failed"}
              /\ attempt[x].stamp \in Nat
<1>1. LimiterTypeOK
  BY DEF LimiterInv
<1>2. \A r \in AttemptStates :
        /\ r.step \in {"new", "stamped", "admitted", "refused", "failed"} /\ r.stamp \in Nat
  BY DEF AttemptStates
<1>3. QED
  BY <1>1, <1>2, LimiterAssumption DEF LimiterTypeOK

\* A step of one attempt, to the state r.
LEMMA OneAttempt ==
  ASSUME LimiterInv, NEW a \in Attempts, NEW r \in AttemptStates,
         attempt' = [attempt EXCEPT ![a] = r], Verdict(r), clock' = clock,
         r.step # "new", r.stamp \in Window..clock
  PROVE  /\ attempt' \in [Attempts -> AttemptStates] /\ RefusedByWindow'
         /\ \A x \in Attempts :
              /\ attempt'[x].step # "new" => attempt'[x].stamp \in Window..clock'
              /\ attempt'[x].stray => attempt'[x].step # "new"
<1>1. /\ attempt' \in [Attempts -> AttemptStates] /\ attempt'[a] = r
      /\ \A x \in Attempts \ {a} : attempt'[x] = attempt[x]
  BY AttemptTypes
<1>2. \A x \in Attempts : Verdict(attempt[x])
  BY Verdicts DEF LimiterInv
<1>3. \A x \in Attempts : Verdict(attempt'[x])
  BY <1>1, <1>2
<1>4. RefusedByWindow'
  BY <1>3 DEF RefusedByWindow, Answered, Verdict
<1>5. QED
  BY <1>1, <1>4 DEF LimiterInv, StampsInv

LEMMA TakeStampKeeps ==
  ASSUME LimiterInv, NEW a \in Attempts, TakeStamp(a)
  PROVE  LimiterInv'
<1>1. PICK q \in AttemptStates : q = attempt[a]
  BY AttemptTypes
<1> DEFINE r == [q EXCEPT !.step = "stamped", !.stamp = clock]
<1>2. /\ attempt' = [attempt EXCEPT ![a] = r] /\ UNCHANGED <<clock, log, expiry, executed>>
  BY <1>1 DEF TakeStamp
<1>3. r \in AttemptStates /\ r.step = "stamped" /\ r.stamp = clock
  BY AttemptTypes DEF AttemptStates
<1> HIDE DEF r
<1>4. Verdict(r) /\ r.stamp \in Window..clock
  BY <1>3, AttemptTypes DEF Verdict, LimiterInv, StampsInv
<1>5. /\ attempt' \in [Attempts -> AttemptStates] /\ RefusedByWindow'
      /\ \A x \in Attempts :
           /\ attempt'[x].step # "new" => attempt'[x].stamp \in Window..clock'
           /\ attempt'[x].stray => attempt'[x].step # "new"
  BY <1>2, <1>3, <1>4, OneAttempt
<1>6. QED
  BY <1>2, <1>5 DEF LimiterInv, LimiterTypeOK, StampsInv, LogInv

LEMMA GiveUpKeeps ==
  ASSUME LimiterInv, NEW a \in Attempts, GiveUp(a)
  PROVE  LimiterInv'
<1>1. PICK q \in AttemptStates : q = attempt[a]
  BY AttemptTypes
<1>2. PICK step \in {"stamped", "failed"} :
        attempt' = [attempt EXCEPT ![a].step = step, ![a].stray = TRUE]
  BY DEF GiveUp
<1> DEFINE r == [q EXCEPT !.step = step, !.stray = TRUE]
<1>3. /\ attempt' = [attempt EXCEPT ![a] = r] /\ UNCHANGED <<clock, log, expiry, executed>>
      /\ q.step = "stamped"
  BY <1>1, <1>2 DEF GiveUp
<1>4. r \in AttemptStates /\ r.step = step /\ r.stamp = q.stamp
  BY DEF AttemptStates
<1> HIDE DEF r
<1>5. Verdict(r) /\ r.step # "new" /\ r.stamp \in Window..clock
  BY <1>1, <1>3, <1>4 DEF Verdict, LimiterInv, StampsInv
<1>6. /\ attempt' \in [Attempts -> AttemptStates] /\ RefusedByWindow'
      /\ \A x \in Attempts :
           /\ attempt'[x].step # "new" => attempt'[x].stamp \in Window..clock'
           /\ attempt'[x].stray => attempt'[x].step # "new"
  BY <1>3, <1>4, <1>5, OneAttempt
<1>7. QED
  BY <1>3, <1>6 DEF LimiterInv, LimiterTypeOK, StampsInv, LogInv

\* The key is dropped only when no window reaches its stamps any more.
LEMMA TickKeeps ==
  ASSUME LimiterInv, Tick
  PROVE  LimiterInv'
<1>1. /\ clock' = clock + 1 /\ UNCHANGED <<expiry, attempt, executed>>
      /\ log' = IF clock + 1 >= expiry THEN {} ELSE log
  BY DEF Tick
<1>2. LimiterTypeOK'
  BY <1>1, AttemptTypes DEF LimiterInv, LimiterTypeOK
<1>3. StampsInv'
  BY <1>1, AttemptTypes DEF LimiterInv, StampsInv
<1>4. LogInv'
  <2>1. log' \subseteq executed'
    BY <1>1 DEF LimiterInv, LogInv
  <2>2. ASSUME NEW s \in executed
        PROVE  (s > clock' - Window => s \in log') /\ s + Window <= expiry'
    <3>1. s \in Nat /\ (s > clock - Window => s \in log) /\ s + Window <= expiry
      BY AttemptTypes DEF LimiterInv, LogInv
    <3>2. QED
      BY <1>1, <3>1, AttemptTypes
  <2>3. QED
    BY <1>1, <2>1, <2>2 DEF LogInv
<1>5. RefusedByWindow'
  BY <1>1 DEF LimiterInv, RefusedByWindow, Answered
<1>6. QED
  BY <1>2, <1>3, <1>4, <1>5 DEF LimiterInv

\* A Redis that has lost the key remembers nothing, and is not blamed for it.
LEMMA LoseLogKeeps ==
  ASSUME LimiterInv, LoseLog
  PROVE  LimiterInv'
<1>1. log' = {} /\ executed' = {} /\ UNCHANGED <<clock, expiry, attempt>>
  BY DEF LoseLog
<1>2. RefusedByWindow'
  BY <1>1 DEF LimiterInv, RefusedByWindow, Answered
<1>3. QED
  BY <1>1, <1>2 DEF LimiterInv, LimiterTypeOK, StampsInv, LogInv

-----------------------------------------------------------------------------
(* The transaction.                                                        *)

LEMMA TransactionKeeps ==
  ASSUME LimiterInv, NEW now \in Window..clock, Transaction(now)
  PROVE  /\ log' \cup executed' \subseteq Nat /\ expiry' \in Nat /\ clock' \in Nat
         /\ Window <= clock' /\ executed' \subseteq 0..clock' /\ LogInv'
<1>1. /\ log' = Recent(now) \cup {now} /\ executed' = executed \cup {now}
      /\ expiry' = clock + Window /\ clock' = clock
  BY DEF Transaction
<1>2. now \in Nat /\ now <= clock /\ Recent(now) \subseteq log
  BY AttemptTypes DEF Recent
<1>3. log \subseteq executed /\ executed \subseteq 0..clock /\ Window <= clock
  BY DEF LimiterInv, StampsInv, LogInv
<1>4. /\ log' \cup executed' \subseteq Nat /\ expiry' \in Nat /\ clock' \in Nat
      /\ executed' \subseteq 0..clock'
  <2>1. executed' \subseteq 0..clock
    BY <1>1, <1>2, <1>3, AttemptTypes
  <2>2. log' \subseteq Nat /\ clock + Window \in Nat
    BY <1>1, <1>2, AttemptTypes
  <2>3. 0..clock \subseteq Nat
    BY AttemptTypes
  <2>4. QED
    BY <1>1, <2>1, <2>2, <2>3, AttemptTypes
<1>5. log' \subseteq executed'
  BY <1>1, <1>2, <1>3
<1>6. ASSUME NEW s \in executed'
      PROVE  (s > clock' - Window => s \in log') /\ s + Window <= expiry'
  <2>1. CASE s = now
    BY <1>1, <1>2, <2>1, AttemptTypes
  <2>2. CASE s \in executed
    <3>1. s \in Nat /\ s <= clock /\ (s > clock - Window => s \in log)
      BY <1>3, <2>2, AttemptTypes DEF LimiterInv, LogInv
    <3>2. s > clock - Window => s > now - Window
      BY <1>2, <3>1, AttemptTypes
    <3>3. s > clock - Window => s \in Recent(now)
      BY <3>1, <3>2 DEF Recent
    <3>4. QED
      BY <1>1, <3>1, <3>3, AttemptTypes
  <2>3. QED
    BY <1>1, <2>1, <2>2
<1>7. QED
  BY <1>1, <1>3, <1>4, <1>5, <1>6 DEF LogInv

LEMMA ExecuteStrayKeeps ==
  ASSUME LimiterInv, NEW a \in Attempts, ExecuteStray(a)
  PROVE  LimiterInv'
<1>1. PICK q \in AttemptStates : q = attempt[a]
  BY AttemptTypes
<1> DEFINE r == [q EXCEPT !.stray = FALSE]
<1>2. attempt' = [attempt EXCEPT ![a] = r] /\ Transaction(q.stamp) /\ q.stray
  BY <1>1 DEF ExecuteStray
<1>3. q.step # "new" /\ q.stamp \in Window..clock /\ Verdict(q)
  BY <1>1, <1>2, Verdicts DEF LimiterInv, StampsInv
<1>4. /\ r \in AttemptStates /\ r.step = q.step /\ r.stamp = q.stamp
      /\ r.late = q.late /\ r.behind = q.behind
  BY DEF AttemptStates
<1> HIDE DEF r
<1>5. Verdict(r) /\ clock' = clock
  BY <1>2, <1>3, <1>4 DEF Verdict, Transaction
<1>6. /\ log' \cup executed' \subseteq Nat /\ expiry' \in Nat /\ clock' \in Nat
      /\ Window <= clock' /\ executed' \subseteq 0..clock' /\ LogInv'
  BY <1>2, <1>3, TransactionKeeps
<1>7. /\ attempt' \in [Attempts -> AttemptStates] /\ RefusedByWindow'
      /\ \A x \in Attempts :
           /\ attempt'[x].step # "new" => attempt'[x].stamp \in Window..clock'
           /\ attempt'[x].stray => attempt'[x].step # "new"
  BY <1>2, <1>3, <1>4, <1>5, OneAttempt
<1>8. QED
  BY <1>6, <1>7 DEF LimiterInv, LimiterTypeOK, StampsInv

\* What an attempt sees in the log was executed before it, within its window; and if
\* it is not late, that is all there was.
LEMMA ExecuteKeeps ==
  ASSUME LimiterInv, NEW a \in Attempts, Execute(a)
  PROVE  LimiterInv'
<1>1. PICK q \in AttemptStates : q = attempt[a]
  BY AttemptTypes
<1> DEFINE now == q.stamp
           step == IF Cardinality(Recent(now)) > Limit THEN "refused" ELSE "admitted"
           behind == {s \in executed : s > now - Window}
           late == now < clock
           r == [q EXCEPT !.step = step, !.late = late, !.behind = behind]
<1>2. /\ q.step = "stamped" /\ attempt' = [attempt EXCEPT ![a] = r] /\ Transaction(now)
  BY <1>1 DEF Execute
<1>3. now \in Window..clock
  BY <1>1, <1>2 DEF LimiterInv, StampsInv
<1>4. behind \in SUBSET Nat /\ step \in {"admitted", "refused"} /\ late \in BOOLEAN
  BY AttemptTypes
<1>5. Recent(now) \subseteq behind
  BY DEF LimiterInv, LogInv, Recent
<1>6. ~late => behind \subseteq Recent(now)
  <2>1. SUFFICES ASSUME ~late, NEW s \in behind PROVE s \in Recent(now)
    OBVIOUS
  <2>2. clock = now
    BY <1>3, <2>1, AttemptTypes
  <2>3. QED
    BY <2>1, <2>2 DEF LimiterInv, LogInv, Recent
<1>7. IsFiniteSet(behind) /\ Cardinality(behind) \in Nat
  <2>1. behind \subseteq 0..clock
    BY DEF LimiterInv, StampsInv
  <2>2. IsFiniteSet(0..clock)
    BY AttemptTypes, FS_Interval
  <2>3. QED
    BY <2>1, <2>2, FS_Subset, FS_CardinalityType
<1>8. /\ Cardinality(Recent(now)) \in Nat /\ Cardinality(Recent(now)) <= Cardinality(behind)
      /\ ~late => Cardinality(behind) = Cardinality(Recent(now))
  <2>1. Cardinality(Recent(now)) <= Cardinality(behind) /\ IsFiniteSet(Recent(now))
    BY <1>5, <1>7, FS_Subset
  <2>2. ~late => behind = Recent(now)
    BY <1>5, <1>6
  <2>3. QED
    BY <2>1, <2>2, FS_CardinalityType
<1> DEFINE seen == Cardinality(Recent(now))
           all == Cardinality(behind)
<1>9. /\ step = "refused" => all > Limit
      /\ all > Limit /\ ~late => step = "refused"
  <2>1. step = IF seen > Limit THEN "refused" ELSE "admitted"
    OBVIOUS
  <2> HIDE DEF seen, all, step, late, behind, now
  <2>2. seen \in Nat /\ all \in Nat /\ seen <= all /\ (~late => all = seen)
    BY <1>7, <1>8 DEF seen, all
  <2>3. QED
    BY <2>1, <2>2, AttemptTypes
<1> HIDE DEF step, behind, late
<1>10. /\ r \in AttemptStates /\ r.step = step /\ r.stamp = now /\ r.behind = behind
       /\ r.late = late
  BY <1>4 DEF AttemptStates
<1> HIDE DEF r, seen
<1>11. Verdict(r) /\ clock' = clock /\ r.step # "new"
  BY <1>2, <1>4, <1>9, <1>10 DEF Verdict, Transaction
<1>12. /\ log' \cup executed' \subseteq Nat /\ expiry' \in Nat /\ clock' \in Nat
       /\ Window <= clock' /\ executed' \subseteq 0..clock' /\ LogInv'
  BY <1>2, <1>3, TransactionKeeps
<1>13. /\ attempt' \in [Attempts -> AttemptStates] /\ RefusedByWindow'
       /\ \A x \in Attempts :
            /\ attempt'[x].step # "new" => attempt'[x].stamp \in Window..clock'
            /\ attempt'[x].stray => attempt'[x].step # "new"
  BY <1>2, <1>3, <1>10, <1>11, OneAttempt
<1>14. QED
  BY <1>12, <1>13 DEF LimiterInv, LimiterTypeOK, StampsInv

-----------------------------------------------------------------------------

LEMMA NextLimiter == LimiterInv /\ [LimiterNext]_limiterVars => LimiterInv'
<1> SUFFICES ASSUME LimiterInv, [LimiterNext]_limiterVars PROVE LimiterInv'
  OBVIOUS
<1>1. CASE Tick \/ LoseLog
  BY <1>1, TickKeeps, LoseLogKeeps
<1>2. ASSUME NEW a \in Attempts, TakeStamp(a) \/ Execute(a) \/ GiveUp(a) \/ ExecuteStray(a)
      PROVE  LimiterInv'
  BY <1>2, TakeStampKeeps, ExecuteKeeps, GiveUpKeeps, ExecuteStrayKeeps
<1>3. CASE UNCHANGED limiterVars
  BY <1>3 DEF limiterVars, LimiterInv, LimiterTypeOK, StampsInv, LogInv, RefusedByWindow, Answered
<1>4. QED
  BY <1>1, <1>2, <1>3 DEF LimiterNext

LEMMA LimiterInvariant == LimiterSpec => []LimiterInv
BY InitLimiter, NextLimiter, PTL DEF LimiterSpec

\* The variables of the limiter hold values of their types.
THEOREM LimiterTypesCorrect == LimiterSpec => []LimiterTypeOK
<1>1. LimiterInv => LimiterTypeOK
  BY DEF LimiterInv
<1>2. QED
  BY <1>1, LimiterInvariant, PTL

\* core/rate_limit.py, for any limit and window: who is refused had more than Limit
\* instants with a transaction behind it, and who runs at once and had them is
\* refused, whatever was sent twice, executed late, or lost before.
THEOREM WindowDecides == LimiterSpec => []RefusedByWindow
<1>1. LimiterInv => RefusedByWindow
  BY DEF LimiterInv
<1>2. QED
  BY <1>1, LimiterInvariant, PTL
==============================================================================

----------------------------- MODULE MCServices ------------------------------
(***************************************************************************)
(* Instances for TLC of the modules about the rest of the backend.  They   *)
(* share no variable, so a behaviour is one of one part, with the others   *)
(* at rest: what is explored is the sum of the parts, and every property   *)
(* speaks of one part only.                                                *)
(***************************************************************************)
EXTENDS Membership, MessageReceipts, Sessions, RateLimiter, Notifications, MediaStore, TLC

CONSTANTS o, a, b, g, d1, d2, q1, q2, q3, q4, e1, e2, m1, m2, m3

VARIABLE part

Parts == {"membership", "receipts", "sessions", "limiter", "notifications", "media"}

\* A group with its owner and an admin, and room for two new conversations.
MCFirstKind == [v \in Conversations |-> IF v = g THEN "group" ELSE "absent"]

MCFirstRole == [v \in Conversations |-> [u \in Users |->
  CASE v = g /\ u = o -> "OWNER"
    [] v = g /\ u = a -> "ADMIN"
    [] v # g -> None]]

MCSenderOf == [m \in Messages |-> o]

ServicesInit ==
  /\ part \in Parts
  /\ MembershipInit /\ ReceiptsInit /\ SessionsInit
  /\ LimiterInit /\ NotifyInit /\ MediaInit

Only(p) == part = p /\ part' = part

MembershipStep ==
  /\ Only("membership") /\ MembershipNext
  /\ UNCHANGED <<receiptVars, sessionVars, limiterVars, notifyVars, mediaVars>>

ReceiptsStep ==
  /\ Only("receipts") /\ ReceiptsNext
  /\ UNCHANGED <<membershipVars, sessionVars, limiterVars, notifyVars, mediaVars>>

SessionsStep ==
  /\ Only("sessions") /\ SessionsNext
  /\ UNCHANGED <<membershipVars, receiptVars, limiterVars, notifyVars, mediaVars>>

LimiterStep ==
  /\ Only("limiter") /\ LimiterNext
  /\ UNCHANGED <<membershipVars, receiptVars, sessionVars, notifyVars, mediaVars>>

NotifyStep ==
  /\ Only("notifications") /\ NotifyNext
  /\ UNCHANGED <<membershipVars, receiptVars, sessionVars, limiterVars, mediaVars>>

MediaStep ==
  /\ Only("media") /\ MediaNext
  /\ UNCHANGED <<membershipVars, receiptVars, sessionVars, limiterVars, notifyVars>>

\* The type invariant of the part that moves: the others are as at the beginning.
ServicesTypeOK ==
  CASE part = "membership" -> MembershipTypeOK
    [] part = "receipts" -> ReceiptsTypeOK
    [] part = "sessions" -> SessionsTypeOK
    [] part = "limiter" -> LimiterTypeOK
    [] part = "notifications" -> NotifyTypeOK
    [] part = "media" -> MediaTypeOK

\* Requests, calls and the like are interchangeable: they begin in this order.
Order == <<q1, q2, q3, q4>>

Begun ==
  {q \in Requests : pc[q] # "new"} \cup {q \in Calls : call[q].step # "new"}
  \cup {q \in Uses : use[q].step # "new"} \cup {q \in Attempts : attempt[q].step # "new"}
  \cup {q \in Registrations : reg[q].step # "new"} \cup {q \in Jobs : job[q].step # "new"}

BegunInOrder == \A i, j \in DOMAIN Order : i < j /\ Order[j] \in Begun => Order[i] \in Begun

\* A third request of Membership only where all three are about the group g; and the
\* cache is lost only where there is no third request and no other conversation yet.
ThirdAboutGroup ==
  pc[q3] # "new" =>
    /\ \A q \in Requests : req[q].conv \in {g, None} /\ req[q].op \notin {"create", "dm", "patch"}
    /\ \A v \in Conversations \ {g} : kind[v] = FirstKind[v]

CacheLostEarly ==
  (pc[q3] # "new" \/ \E v \in Conversations \ {g} : kind[v] # FirstKind[v]) =>
    cache # <<{}, {}>> \/ RowsOf(Conversations) = {}

\* Two attempts at most are sent again or given up.
ThirdAttemptAnswered == ~attempt[q3].stray /\ attempt[q3].step # "failed"

\* The second recipient of Notifications only subscribes; a second subscription is made
\* only where nobody has come online, a third only where nothing is sent.
SecondSubscribes ==
  /\ b \notin sockets /\ \A s \in Sends : send[s].to # b
  /\ reg[q2].step # "new" => sockets = {} /\ marked = {}
  /\ reg[q3].step # "new" => \A s \in Sends : send[s].step = "new"

\* The bounds are conjuncts of the steps: what lies behind them is not looked at.
ServicesNext ==
  /\ \/ MembershipStep \/ ReceiptsStep \/ SessionsStep
     \/ LimiterStep \/ NotifyStep \/ MediaStep
  /\ (BegunInOrder /\ ThirdAboutGroup /\ CacheLostEarly /\ SecondSubscribes
      /\ ThirdAttemptAnswered)'

ServicesSpec ==
  ServicesInit /\ [][ServicesNext]_<<part, membershipVars, receiptVars, sessionVars,
                                     limiterVars, notifyVars, mediaVars>>

MCSymmetry == Permutations({d1, d2})
==============================================================================

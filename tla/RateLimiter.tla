----------------------------- MODULE RateLimiter ------------------------------
(***************************************************************************)
(* core/rate_limit.py: the sliding window of one key, a sorted set of time *)
(* stamps in Redis.  An attempt takes its stamp from the clock of the      *)
(* process and then sends one transaction; attempts overtake each other    *)
(* and time passes in between.  Members of the set are the stamps as text, *)
(* so that attempts of the same instant are one member, and so is an       *)
(* attempt that the client library sends twice.                            *)
(***************************************************************************)
EXTENDS FiniteSets, Naturals

CONSTANTS
  Attempts,   \* attempts ever made with the key
  Limit,
  Window,
  MaxTime     \* bound: the clock stops here

ASSUME LimiterAssumption == Limit \in Nat /\ Window \in Nat /\ MaxTime \in Nat

VARIABLES
  clock,
  log,       \* the stamps in the sorted set of the key
  expiry,    \* when Redis drops the key
  attempt,   \* Attempts -> its step and its stamp
  executed   \* history: the stamps executed since Redis last lost the key

limiterVars == <<clock, log, expiry, attempt, executed>>

AttemptStates ==
  [step : {"new", "stamped", "admitted", "refused", "failed"},
   stamp : Nat,
   stray : BOOLEAN,      \* its transaction is left behind on a broken connection
   late : BOOLEAN,       \* history: the execution it was answered for was not at once
   behind : SUBSET Nat]  \* history: the stamps of its window executed before that

LimiterInit ==
  /\ clock = Window
  /\ log = {}
  /\ expiry = Window
  /\ attempt = [a \in Attempts |->
       [step |-> "new", stamp |-> 0, stray |-> FALSE, late |-> FALSE, behind |-> {}]]
  /\ executed = {}

TakeStamp(a) ==
  /\ attempt[a].step = "new"
  /\ attempt' = [attempt EXCEPT ![a].step = "stamped", ![a].stamp = clock]
  /\ UNCHANGED <<clock, log, expiry, executed>>

\* MUTANT of Recent: the first instant of the window is lost.
RecentShort(stamp) == {s \in log : s > stamp - Window + 1}

\* What zremrangebyscore leaves.
Recent(stamp) == {s \in log : s > stamp - Window}

\* The transaction in Redis: drop what is too old, (count,) add, set the expiry.
Transaction(now) ==
  /\ log' = Recent(now) \cup {now}
  /\ executed' = executed \cup {now}
  /\ expiry' = clock + Window
  /\ UNCHANGED clock

\* Executed and answered: the count, taken before the stamp is added, decides.
\* A refused attempt is in the log as well.
Execute(a) ==
  LET now == attempt[a].stamp
  IN /\ attempt[a].step = "stamped"
     /\ attempt' = [attempt EXCEPT
          ![a].step = IF Cardinality(Recent(now)) > Limit THEN "refused" ELSE "admitted",
          ![a].late = now < clock,
          ![a].behind = {s \in executed : s > now - Window}]
     /\ Transaction(now)

\* The connection breaks before the answer.  The client library sends the
\* transaction again, or the request fails; what was sent may still be executed.
GiveUp(a) ==
  /\ attempt[a].step = "stamped"
  /\ \E step \in {"stamped", "failed"} :
       attempt' = [attempt EXCEPT ![a].step = step, ![a].stray = TRUE]
  /\ UNCHANGED <<clock, log, expiry, executed>>

\* Redis executes it, and nobody reads the answer.
ExecuteStray(a) ==
  /\ attempt[a].stray
  /\ attempt' = [attempt EXCEPT ![a].stray = FALSE]
  /\ Transaction(attempt[a].stamp)

\* An instant; a key whose time has come is gone.
Tick ==
  /\ clock < MaxTime
  /\ clock' = clock + 1
  /\ log' = IF clock + 1 >= expiry THEN {} ELSE log
  /\ UNCHANGED <<expiry, attempt, executed>>

\* Redis restarts, which saves nothing, or evicts the key (allkeys-lru).
LoseLog ==
  /\ log # {}
  /\ log' = {}
  /\ executed' = {}
  /\ UNCHANGED <<clock, expiry, attempt>>

LimiterNext ==
  \/ Tick \/ LoseLog
  \/ \E a \in Attempts : TakeStamp(a) \/ Execute(a) \/ GiveUp(a) \/ ExecuteStray(a)

LimiterSpec == LimiterInit /\ [][LimiterNext]_limiterVars

-----------------------------------------------------------------------------

\* Every variable holds a value of its type.
LimiterTypeOK ==
  /\ {clock, expiry} \cup log \cup executed \subseteq Nat
  /\ attempt \in [Attempts -> AttemptStates]

Answered(a) == attempt[a].step \in {"admitted", "refused"}

\* What the code does at the limit, which is not what it says (AtMostLimit).  An
\* attempt is refused only if Redis had executed transactions of more than Limit
\* different instants of the window behind it, of attempts admitted or not, its own
\* among them if it was sent twice, and had not lost them since; and always if that
\* is so and it is executed in the instant of its stamp: however late the others
\* ran, and however often, neither their removals nor the expiry of the key forget
\* one too early.  (An attempt that is itself late can slip through.)
RefusedByWindow ==
  \A a \in Attempts : Answered(a) =>
    LET many == Cardinality(attempt[a].behind) > Limit
    IN /\ attempt[a].step = "refused" => many
       /\ many /\ ~attempt[a].late => attempt[a].step = "refused"

\* The docstring: limit is the "maximum allowed requests in the window".  Counted
\* here by the instants of their stamps, which is to the code's advantage.
AtMostLimit ==
  \A a \in Attempts : attempt[a].step = "admitted" =>
    Cardinality({attempt[b].stamp : b \in {x \in Attempts :
                   /\ attempt[x].step = "admitted"
                   /\ attempt[x].stamp \in attempt[a].stamp - Window + 1 .. attempt[a].stamp}})
      <= Limit
===============================================================================

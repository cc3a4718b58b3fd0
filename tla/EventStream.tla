----------------------------- MODULE EventStream -----------------------------
(***************************************************************************)
(* The Redis stream "stream:message-events", shared by the outbox workers  *)
(* that append to it and the listeners that read it through their own      *)
(* consumer groups.  Redis itself is outside the repository: what is kept  *)
(* here is the part of XADD and of a restart that the code can observe.    *)
(***************************************************************************)
EXTENDS Naturals, Sequences, FiniteSets

CONSTANT Events      \* the outbox rows, one real-time event each

VARIABLES
  log,    \* every entry ever appended, in the order Redis executed the XADDs
  base    \* how many of them a Redis restart has thrown away (0 at first)

streamVars == <<log, base>>

StreamInit ==
  /\ log = <<>>
  /\ base = 0

\* XADD: the entry gets the next id.  Nothing in the repository trims or
\* deletes entries, so the log only grows.
XAdd(e) ==
  /\ log' = Append(log, e)
  /\ UNCHANGED base

\* Redis runs with `--save ""` (docker-compose.yaml): a restart empties it.
LoseStream ==
  /\ base' = Len(log)
  /\ UNCHANGED log

Published == {log[k] : k \in DOMAIN log}

CopiesOf(e) == Cardinality({k \in DOMAIN log : log[k] = e})

StreamTypeOK ==
  /\ log \in Seq(Events)
  /\ base \in 0..Len(log)
==============================================================================

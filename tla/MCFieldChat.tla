----------------------------- MODULE MCFieldChat ------------------------------
(***************************************************************************)
(* Instances of FieldChat for TLC.                                         *)
(***************************************************************************)
EXTENDS FieldChat, TLC

CONSTANTS i1, r1, r2, u1, m1

\* Three events, one of them published twice.
MCShortLog == Len(log) <= 4

\* A request that clears the chat or forwards a message ends where it begins
\* (what these do to a message is MCMessageLifecycle's subject), and so does a
\* behaviour in which Redis restarts under a running instance (MCEventPipeline).
\* An edit has blanks to strip only if it is the third event: without an edit after
\* it, and after one that has none.
MCNarrow ==
  /\ \A r \in Requests : req[r].op \notin {"clear", "forward"}
  /\ \A k \in DOMAIN outbox : outbox[k].padded => k = MaxEvents
  /\ \A i \in Instances : lpc[i] # "down" => group[i]

MCSymmetry == Permutations(Requests)
==============================================================================

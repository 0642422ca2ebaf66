------------------------- MODULE MCAccessLifecycle -------------------------
(* Instances of AccessLifecycle for TLC: see the configurations.           *)
EXTENDS AccessLifecycle
CONSTANTS workload, mcp, visitor

\* The AccessRequests of users and those of the owner share nothing but the queue and
\* the worker of the AccessRequest controller: they need not exist at the same time.
Apart ==
  \/ \A x \in Timed : ar[x].state = "absent" /\ x \notin expired
  \/ \A r \in Own : cr[r].state = "absent" /\ ar[r].state = "absent"
=============================================================================

-------------------------- MODULE ClusterAllocation --------------------------
(***************************************************************************)
(* What the scheduler promises, without API calls, work queue or crashes:  *)
(* an allocator of slots on clusters.  A request holds a slot on at most   *)
(* one cluster, gets it only while the cluster has a slot left, is told    *)
(* which cluster only once it holds the slot, keeps the slot until it is   *)
(* deleted, and holds nothing when it is gone.                             *)
(***************************************************************************)
EXTENDS Naturals, FiniteSets

CONSTANTS
  Requests, Clusters, NoCluster,
  SlotLimit   \* per request: tenants its purpose allows on a cluster, 0 for any number

VARIABLES
  life,      \* of each request
  holders,   \* requests holding a slot on each cluster
  assigned   \* the cluster each request was told about

allocVars == <<life, holders, assigned>>

Init ==
  /\ life = [r \in Requests |-> "new"]
  /\ holders = [c \in Clusters |-> {}]
  /\ assigned = [r \in Requests |-> NoCluster]

Ask(r) ==
  /\ life[r] = "new"
  /\ life' = [life EXCEPT ![r] = "active"]
  /\ UNCHANGED <<holders, assigned>>

Acquire(r, c) ==
  /\ life[r] \in {"active", "deleting"}
  /\ \A d \in Clusters : r \notin holders[d]
  /\ SlotLimit[r] = 0 \/ Cardinality(holders[c]) < SlotLimit[r]
  /\ holders' = [holders EXCEPT ![c] = @ \cup {r}]
  /\ UNCHANGED <<life, assigned>>

Assign(r, c) ==
  /\ life[r] \in {"active", "deleting"}
  /\ r \in holders[c]
  /\ assigned[r] = NoCluster
  /\ assigned' = [assigned EXCEPT ![r] = c]
  /\ UNCHANGED <<life, holders>>

Withdraw(r) ==
  /\ life[r] = "active"
  /\ life' = [life EXCEPT ![r] = "deleting"]
  /\ UNCHANGED <<holders, assigned>>

Release(r, c) ==
  /\ life[r] = "deleting"
  /\ holders' = [holders EXCEPT ![c] = @ \ {r}]
  /\ UNCHANGED <<life, assigned>>

\* A request that never got a finalizer disappears at once; it holds nothing.
Leave(r) ==
  /\ life[r] \in {"active", "deleting"}
  /\ \A c \in Clusters : r \notin holders[c]
  /\ life' = [life EXCEPT ![r] = "gone"]
  /\ UNCHANGED <<holders, assigned>>

\* Outside the promise: the request is removed behind the scheduler's back.
Strip(r) ==
  /\ life[r] = "deleting"
  /\ life' = [life EXCEPT ![r] = "stripped"]
  /\ holders' = [c \in Clusters |-> holders[c] \ {r}]
  /\ UNCHANGED assigned

Next ==
  \E r \in Requests :
    \/ Ask(r) \/ Withdraw(r) \/ Leave(r) \/ Strip(r)
    \/ \E c \in Clusters : Acquire(r, c) \/ Assign(r, c) \/ Release(r, c)

Spec == Init /\ [][Next]_allocVars
=============================================================================

----------------------------- MODULE Scheduler -----------------------------
(***************************************************************************)
(* The cluster scheduler of the openMCP operator                           *)
(* (internal/controllers/scheduler): the controller that answers every     *)
(* ClusterRequest with a Cluster, either by creating one or by sharing one *)
(* that exists.                                                            *)
(*                                                                         *)
(* The controller keeps no state between two reconciliations.  What it     *)
(* knows is in the API server: the ClusterRequest carries one finalizer of *)
(* the scheduler and a status reference to its Cluster, and the Cluster    *)
(* carries one finalizer per request that uses it.  A reconciliation is a  *)
(* sequence of API calls, each an action of its own here, so that users,   *)
(* cluster providers, crashes and failing calls come between any two.  The *)
(* client reads the API server directly (no cache), but a merge patch      *)
(* replaces the whole finalizer list by one computed from what was read.   *)
(*                                                                         *)
(* Requests are identified by UID, because the finalizer on the Cluster    *)
(* is derived from it; the work queue and deterministic cluster names use  *)
(* the key (namespace and name), which a later request may use again.      *)
(***************************************************************************)
EXTENDS Naturals, FiniteSets

CONSTANTS
  Requests,           \* UIDs of ClusterRequests, each created at most once
  Keys,               \* namespace/name pairs of ClusterRequests
  KeyOf,              \* the key of each request
  Purposes,           \* values of spec.purpose
  PurposeOf,          \* the immutable spec.purpose of each request
  Clusters,           \* namespace/name pairs of Clusters
  Foreign,            \* finalizers on Clusters that belong to nobody's request
  Definitions,        \* purposeMappings of the configuration: see DefinitionType
  TemplateName,       \* the cluster name a template without generateName yields
  HashName,           \* GenerateClusterName: purpose and key to cluster name
  Randomized,         \* requests with the randomize-cluster-name label
  RandomNames,        \* the cluster names a generateName may yield
  Strategy,           \* "Balanced", "Random" or "Simple"
  Preexisting,        \* clusters created by an admin before the operator starts
  NoRequest, NoCluster, NoPurpose,
  AdminDeletes,       \* may an admin delete Clusters?
  ClustersMayVanish,  \* may a Cluster disappear in spite of its finalizers?
  RequestsMayVanish,  \* may a ClusterRequest lose the scheduler's finalizer?
  MaxFaults           \* bound: failing API calls and operator crashes

Mapped == DOMAIN Definitions

DefinitionType ==
  [tenancy: {"Exclusive", "Shared"}, tenancyCount: Nat,
   purposes: SUBSET Purposes, generateName: BOOLEAN, deletable: BOOLEAN]

ASSUME SchedulerAssumption ==
  /\ IsFiniteSet(Requests)
  /\ KeyOf \in [Requests -> Keys]
  /\ PurposeOf \in [Requests -> Purposes]
  /\ Requests \cap Foreign = {}
  /\ Mapped \subseteq Purposes
  /\ Definitions \in [Mapped -> DefinitionType]
  /\ \A p \in Mapped :
       Definitions[p].tenancy = "Exclusive" => Definitions[p].tenancyCount = 0
  /\ TemplateName \in [Purposes -> Clusters]
  /\ HashName \in [Purposes \X Keys -> Clusters]
  /\ Randomized \subseteq Requests
  /\ RandomNames \subseteq Clusters
  /\ Strategy \in {"Balanced", "Random", "Simple"}
  /\ Preexisting \subseteq Clusters
  /\ NoRequest \notin Requests
  /\ NoCluster \notin Clusters
  /\ NoPurpose \notin Purposes
  /\ AdminDeletes \in BOOLEAN
  /\ ClustersMayVanish \in BOOLEAN
  /\ RequestsMayVanish \in BOOLEAN
  /\ MaxFaults \in Nat

VARIABLES
  request,  \* ClusterRequests in the API server
  cluster,  \* Clusters in the API server
  queue,    \* keys waiting in the controller's work queue
  pc,       \* where the single worker is; "idle" between reconciliations
  cur,      \* the request being reconciled
  target,   \* the cluster the reconciliation is about to write or reference
  view,     \* Clusters as the reconciliation last read them
  drop,     \* finalizersToRemove
  todo,     \* clusters handleDelete still has to release
  failed,   \* has the current handleDelete collected an error?
  faults    \* failures so far

local == <<pc, cur, target, view, drop, todo, failed>>
vars == <<request, cluster, queue, pc, cur, target, view, drop, todo, failed, faults>>

-----------------------------------------------------------------------------
(* Objects *)

Finalizers == Requests \cup Foreign

\* "gone" requests were given up by the scheduler or never had its finalizer;
\* "stripped" ones lost it to somebody else.
RequestType ==
  {x \in [life: {"new", "active", "deleting", "gone", "stripped"}, finalizer: BOOLEAN,
          cluster: Clusters \cup {NoCluster}, phase: {"Pending", "Granted"}] :
     x.finalizer => x.life \in {"active", "deleting"}}

\* template is the purpose whose template gave the Cluster its spec.
ClusterType ==
  [state: {"absent", "active", "deleting"}, finalizers: SUBSET Finalizers,
   template: Mapped \cup {NoPurpose}, deletable: BOOLEAN]

Absent ==
  [state |-> "absent", finalizers |-> {}, template |-> NoPurpose, deletable |-> FALSE]

Steps ==
  {"idle", "addFinalizer", "getReferenced", "reclaim", "schedule", "join",
   "inspect", "create", "update", "status", "list", "release", "dispose"}

Existing == {r \in Requests : request[r].life \in {"active", "deleting"}}

Present == {c \in Clusters : cluster[c].state # "absent"}

\* GetRequestUIDs: the finalizers with the request prefix.
TenantsOf(obj) == obj.finalizers \cap Requests

Tenants(c) == TenantsOf(cluster[c])

\* GetTenancyCount.
TenancyCount(c) == Cardinality(Tenants(c))

\* spec.purposes: the ones of the template, and the purpose it is mapped to.
PurposesOf(obj) ==
  IF obj.template \in Mapped
    THEN Definitions[obj.template].purposes \cup {obj.template}
    ELSE {}

NewCluster(r) ==
  [state |-> "active", finalizers |-> {r}, template |-> PurposeOf[r],
   deletable |-> Definitions[PurposeOf[r]].deletable]

\* initializeNewCluster: a shared cluster without limit is named after its
\* template or purpose, every other cluster (and every cluster whose template
\* sets generateName) after the key of the request.
ClusterName(r) ==
  LET d == Definitions[PurposeOf[r]] IN
  IF d.tenancy = "Shared" /\ d.tenancyCount = 0 /\ ~d.generateName
    THEN TemplateName[PurposeOf[r]]
    ELSE HashName[<<PurposeOf[r], KeyOf[r]>>]

HasRandomName(r) ==
  LET d == Definitions[PurposeOf[r]] IN
  /\ r \in Randomized
  /\ ~(d.tenancy = "Shared" /\ d.tenancyCount = 0 /\ ~d.generateName)

-----------------------------------------------------------------------------
(* The API server, as far as finalizers go: an object in deletion accepts  *)
(* no new finalizer, and disappears with its last one.                     *)

Accepts(c, fins) ==
  /\ cluster[c].state # "absent"
  /\ cluster[c].state = "deleting" => fins \subseteq cluster[c].finalizers

WithFinalizers(obj, fins) ==
  IF obj.state = "deleting" /\ fins = {}
    THEN Absent
    ELSE [obj EXCEPT !.finalizers = fins]

Deleted(obj) ==
  IF obj.finalizers = {} THEN Absent ELSE [obj EXCEPT !.state = "deleting"]

PatchFinalizers(c, fins) ==
  cluster' = [cluster EXCEPT ![c] = WithFinalizers(@, fins)]

\* What a Get or List of the clusters S returns.
Snapshot(S) == [c \in Clusters |-> IF c \in S THEN cluster[c] ELSE Absent]

-----------------------------------------------------------------------------
Init ==
  /\ request = [r \in Requests |-> [life |-> "new", finalizer |-> FALSE,
                                    cluster |-> NoCluster, phase |-> "Pending"]]
  /\ \E p \in [Preexisting -> Mapped] :
       cluster = [c \in Clusters |->
                    IF c \in Preexisting
                      THEN [state |-> "active", finalizers |-> {},
                            template |-> p[c], deletable |-> FALSE]
                      ELSE Absent]
  /\ queue = {}
  /\ pc = "idle"
  /\ cur = NoRequest
  /\ target = NoCluster
  /\ view = [c \in Clusters |-> Absent]
  /\ drop = {}
  /\ todo = {}
  /\ failed = FALSE
  /\ faults = 0

-----------------------------------------------------------------------------
(* The worker *)

Idle ==
  /\ pc' = "idle"
  /\ cur' = NoRequest
  /\ target' = NoCluster
  /\ view' = [c \in Clusters |-> Absent]
  /\ drop' = {}
  /\ todo' = {}
  /\ failed' = FALSE

\* Merge patches address an object by name: they land on the request that has
\* the key now, which is another one if the request was created anew.
Addressed == {r \in Existing : KeyOf[r] = KeyOf[cur]}

\* Such a patch holds the fields that differ from what was read.  The schema of
\* ClusterRequest lets a reference be set once.
StatusPatch(c, phase) ==
  LET old == request[cur] IN
  request' = [r \in Requests |->
    IF r \notin Addressed
      THEN request[r]
      ELSE [request[r] EXCEPT !.cluster = IF c = old.cluster THEN @ ELSE c,
                              !.phase = IF phase = old.phase THEN @ ELSE phase]]

\* Mutant: errors are swallowed.
NoRequeue ==
  /\ UNCHANGED queue
  /\ Idle

Requeue ==
  /\ queue' = queue \cup {KeyOf[cur]}
  /\ Idle

\* A reconciliation that ends with an error: the status updater writes phase
\* Pending (the reference stays) and controller-runtime queues the key again.
Fail ==
  /\ StatusPatch(request[cur].cluster, "Pending")
  /\ Requeue

Goto(step, c) ==
  /\ pc' = step
  /\ target' = c
  /\ UNCHANGED <<cur, failed>>

AfterFinalizer(r) == IF request[r].cluster = NoCluster THEN "schedule" ELSE "getReferenced"

\* reconcile: Get the request by key, dispatch on its deletion timestamp.
Dequeue(k) ==
  /\ pc = "idle"
  /\ k \in queue
  /\ queue' = queue \ {k}
  /\ \/ /\ \A r \in Existing : KeyOf[r] # k
        /\ UNCHANGED local
     \/ \E r \in Existing :
          /\ KeyOf[r] = k
          /\ cur' = r
          /\ pc' = CASE request[r].life = "deleting" -> "list"
                     [] request[r].life = "active" /\ ~request[r].finalizer -> "addFinalizer"
                     [] OTHER -> AfterFinalizer(r)
          /\ UNCHANGED <<target, view, drop, todo, failed>>
  /\ UNCHANGED <<request, cluster, faults>>

\* Mutant: the reconciliation ends after the finalizer was added.
AddFinalizerAndStop ==
  /\ pc = "addFinalizer"
  /\ \/ /\ \E r \in Addressed :
             /\ request[r].life = "active"
             /\ request' = [request EXCEPT ![r].finalizer = TRUE]
        /\ UNCHANGED queue
        /\ Idle
     \/ /\ \A r \in Addressed : request[r].life = "deleting"
        /\ Fail
  /\ UNCHANGED <<cluster, faults>>

\* Merge patch; its response replaces the local copy.  The API server refuses a
\* new finalizer during deletion.
AddFinalizer ==
  /\ pc = "addFinalizer"
  /\ \/ \E r \in Addressed :
          /\ request[r].life = "active"
          /\ request' = [request EXCEPT ![r].finalizer = TRUE]
          /\ cur' = r
          /\ pc' = AfterFinalizer(r)
          /\ UNCHANGED <<queue, target, view, drop, todo, failed>>
     \/ /\ \A r \in Addressed : request[r].life = "deleting"
        /\ Fail
  /\ UNCHANGED <<cluster, faults>>

\* Mutant: a request whose cluster is gone is scheduled like a new one.
GetReferencedOrSchedule ==
  /\ pc = "getReferenced"
  /\ LET c == request[cur].cluster IN
     \/ /\ c \in Present
        /\ Goto(IF cur \in Tenants(c) THEN "status" ELSE "reclaim", c)
        /\ view' = Snapshot({c})
     \/ /\ c \notin Present
        /\ Goto("schedule", NoCluster)
        /\ UNCHANGED view
  /\ UNCHANGED <<request, cluster, queue, drop, todo, faults>>

\* The request has a reference: Get the cluster.  If it is gone, the request
\* takes over its name for a new one.
GetReferenced ==
  /\ pc = "getReferenced"
  /\ LET c == request[cur].cluster IN
     \/ /\ c \in Present
        /\ Goto(IF cur \in Tenants(c) THEN "status" ELSE "reclaim", c)
        /\ view' = Snapshot({c})
        /\ UNCHANGED <<request, queue, drop, todo>>
     \/ /\ c \notin Present
        /\ PurposeOf[cur] \in Mapped
        /\ Goto("inspect", c)
        /\ UNCHANGED <<request, queue, view, drop, todo>>
     \/ /\ c \notin Present
        /\ PurposeOf[cur] \notin Mapped
        /\ Fail
  /\ UNCHANGED <<cluster, faults>>

\* Both patches that put the request's finalizer on an existing cluster: for
\* a referenced cluster that lost it, and for one chosen by the scheduler.
PatchIn ==
  LET fins == view[target].finalizers \cup {cur} IN
  \/ /\ Accepts(target, fins)
     /\ PatchFinalizers(target, fins)
     /\ Goto("status", target)
     /\ UNCHANGED <<request, queue, view, drop, todo>>
  \/ /\ ~Accepts(target, fins)
     /\ Fail
     /\ UNCHANGED cluster

Reclaim ==
  /\ pc = "reclaim"
  /\ PatchIn
  /\ UNCHANGED faults

Relevant(r) == {c \in Present : PurposeOf[r] \in PurposesOf(cluster[c])}

\* Mutants: a lost status is not recovered; any relevant cluster is taken for one
\* that was assigned before.
NoRecovery(r) == {}
RecoverAny(r) == Relevant(r)

\* Clusters that carry the request's finalizer although its status was lost.
Recoverable(r) == {c \in Relevant(r) : r \in Tenants(c)}

\* Mutant: off by one at the tenancy limit.
CandidatesUpToLimit(r) ==
  LET d == Definitions[PurposeOf[r]] IN
  {c \in Relevant(r) :
     /\ d.tenancy = "Shared"
     /\ cluster[c].state = "active"
     /\ d.tenancyCount > 0 => TenancyCount(c) <= d.tenancyCount}

Candidates(r) ==
  LET d == Definitions[PurposeOf[r]] IN
  {c \in Relevant(r) :
     /\ d.tenancy = "Shared"
     /\ cluster[c].state = "active"
     /\ d.tenancyCount > 0 => TenancyCount(c) < d.tenancyCount}

\* List order is left open, so Simple and the tie-break of Balanced may
\* choose any of the clusters they could choose in some order.
Choices(S) ==
  IF Strategy = "Balanced"
    THEN {c \in S : \A d \in S : TenancyCount(c) <= TenancyCount(d)}
    ELSE S

Schedule ==
  /\ pc = "schedule"
  /\ \/ /\ PurposeOf[cur] \notin Mapped
        /\ Fail
     \/ /\ PurposeOf[cur] \in Mapped
        /\ \/ \E c \in Recoverable(cur) :
                /\ Goto("status", c)
                /\ UNCHANGED view
           \/ /\ Recoverable(cur) = {}
              /\ \E c \in Choices(Candidates(cur)) :
                   /\ Goto("join", c)
                   /\ view' = Snapshot({c})
           \/ /\ Recoverable(cur) = {}
              /\ Candidates(cur) = {}
              /\ IF HasRandomName(cur)
                   THEN \E c \in RandomNames : Goto("inspect", c)
                   ELSE Goto("inspect", ClusterName(cur))
              /\ UNCHANGED view
        /\ UNCHANGED <<request, queue, drop, todo>>
  /\ UNCHANGED <<cluster, faults>>

Join ==
  /\ pc = "join"
  /\ PatchIn
  /\ UNCHANGED faults

\* Conflict check before a cluster is created.  The code looks only at the
\* first request finalizer of the list that is not this request's: a conflict
\* if that request exists, otherwise the finalizer is marked for removal.  A
\* finalizer of this request resets the conflict.  List order is left open.
\* A randomized name is still empty at this point; whether a Get of an empty
\* name reports an error or a missing object is the API client's choice.
Inspect ==
  /\ pc = "inspect"
  /\ LET others == Tenants(target) \ {cur}
         random == request[cur].cluster = NoCluster /\ HasRandomName(cur) IN
     \/ /\ random \/ target \notin Present
        /\ Goto("create", target)
        /\ UNCHANGED <<request, queue, view, drop, todo>>
     \/ /\ random
        /\ Fail
     \/ /\ ~random
        /\ target \in Present
        /\ \/ \E f \in others :
                /\ f \in Existing /\ cur \notin Tenants(target)
                /\ Fail
           \/ \E d \in {{}} \cup {{f} : f \in others} :
                /\ d = {} => others = {} \/ cur \in Tenants(target)
                /\ d \cap Existing = {} \/ cur \in Tenants(target)
                /\ drop' = d
                /\ Goto("update", target)
                /\ view' = Snapshot({target})
                /\ UNCHANGED <<request, queue, todo>>
  /\ UNCHANGED <<cluster, faults>>

Create ==
  /\ pc = "create"
  /\ \/ /\ target \notin Present
        /\ cluster' = [cluster EXCEPT ![target] = NewCluster(cur)]
        /\ Goto("status", target)
        /\ UNCHANGED <<request, queue, view, drop, todo>>
     \/ /\ target \in Present
        /\ Fail
        /\ UNCHANGED cluster
  /\ UNCHANGED faults

\* Update carries the resource version, so it fails if the cluster changed.
Update ==
  /\ pc = "update"
  /\ LET fins == (view[target].finalizers \ drop) \cup {cur}
         new  == [NewCluster(cur) EXCEPT !.finalizers = fins, !.state = view[target].state]
         ok   == cluster[target] = view[target] /\ Accepts(target, fins) IN
     \/ /\ ok
        /\ cluster' = [cluster EXCEPT ![target] = new]
        /\ Goto("status", target)
        /\ UNCHANGED <<request, queue, view, drop, todo>>
     \/ /\ ~ok
        /\ Fail
        /\ UNCHANGED cluster
  /\ UNCHANGED faults

\* The status updater stores the reference and phase Granted.
UpdateStatus ==
  /\ pc = "status"
  /\ \/ /\ \E r \in Addressed : request[r].cluster \in {NoCluster, target}
        /\ StatusPatch(target, "Granted")
        /\ UNCHANGED queue
        /\ Idle
     \/ /\ \A r \in Addressed : request[r].cluster \notin {NoCluster, target}
        /\ UNCHANGED request
        /\ Requeue
  /\ UNCHANGED <<cluster, faults>>

-----------------------------------------------------------------------------
(* handleDelete *)

\* One List, filtered by the request's finalizer; the patches of the loop
\* are all computed from it.
ListOwned ==
  /\ pc = "list"
  /\ LET owned == {c \in Present : cur \in Tenants(c)} IN
     /\ todo' = owned
     /\ view' = Snapshot(owned)
  /\ pc' = "release"
  /\ UNCHANGED <<request, cluster, queue, cur, target, drop, failed, faults>>

\* Mutant: the count of requests is not looked at.
AfterReleaseUncounted(c, copy) ==
  IF copy.deletable
    THEN /\ pc' = "dispose"
         /\ target' = c
         /\ UNCHANGED todo
    ELSE /\ todo' = todo \ {c}
         /\ UNCHANGED <<pc, target>>

\* After the patch: delete the cluster if the local copy counts no requests
\* and carries the delete-without-requests label.
AfterRelease(c, copy) ==
  IF TenantsOf(copy) = {} /\ copy.deletable
    THEN /\ pc' = "dispose"
         /\ target' = c
         /\ UNCHANGED todo
    ELSE /\ todo' = todo \ {c}
         /\ UNCHANGED <<pc, target>>

\* Mutant: every request finalizer is removed.
ReleaseAll(c) ==
  /\ pc = "release"
  /\ c \in todo
  /\ LET fins == view[c].finalizers \ Requests IN
     /\ Accepts(c, fins)
     /\ PatchFinalizers(c, fins)
     /\ AfterRelease(c, [cluster[c] EXCEPT !.finalizers = fins])
  /\ UNCHANGED <<request, queue, cur, view, drop, failed, faults>>

\* Merge patch of the finalizers.  The response refreshes the local copy; a
\* failed patch is remembered, and the loop goes on with the local copy.
Release(c) ==
  /\ pc = "release"
  /\ c \in todo
  /\ LET fins == view[c].finalizers \ {cur} IN
     \/ /\ Accepts(c, fins)
        /\ PatchFinalizers(c, fins)
        /\ AfterRelease(c, [cluster[c] EXCEPT !.finalizers = fins])
        /\ UNCHANGED failed
     \/ /\ ~Accepts(c, fins)
        /\ AfterRelease(c, [view[c] EXCEPT !.finalizers = fins])
        /\ failed' = TRUE
        /\ UNCHANGED cluster
  /\ UNCHANGED <<request, queue, cur, view, drop, faults>>

Dispose ==
  /\ pc = "dispose"
  /\ cluster' = [cluster EXCEPT ![target] = Deleted(@)]
  /\ pc' = "release"
  /\ target' = NoCluster
  /\ todo' = todo \ {target}
  /\ UNCHANGED <<request, queue, cur, view, drop, failed, faults>>

\* Mutant: the finalizer stays on a request that is given up.
FinishDeleteKeepingFinalizer ==
  /\ pc = "release"
  /\ todo = {}
  /\ ~failed
  /\ \E r \in Addressed : request' = [request EXCEPT ![r].life = "gone"]
  /\ UNCHANGED <<queue, cluster, faults>>
  /\ Idle

\* The loop is over: report the errors, or give up the request by a merge patch
\* that removes the scheduler's finalizer.
FinishDelete ==
  /\ pc = "release"
  /\ todo = {}
  /\ \/ /\ ~failed
        /\ \E r \in Addressed :
             request' = [request EXCEPT ![r].finalizer = FALSE,
                           ![r].life = IF @ = "deleting" THEN "gone" ELSE @]
        /\ UNCHANGED queue
        /\ Idle
     \/ /\ failed \/ Addressed = {}
        /\ Fail
  /\ UNCHANGED <<cluster, faults>>

-----------------------------------------------------------------------------
(* Failures, at most MaxFaults of them *)

FaultBudget ==
  /\ faults < MaxFaults
  /\ faults' = faults + 1

\* An API call outside the loop of handleDelete fails without effect, and the
\* reconciliation returns the error; the call of the status updater also.
CallFails ==
  /\ FaultBudget
  /\ \/ /\ pc \notin {"idle", "status", "dispose"}
        /\ pc = "release" => todo = {}
        /\ Fail
     \/ /\ pc = "status"
        /\ UNCHANGED request
        /\ Requeue
  /\ UNCHANGED cluster

\* Mutant: the error is dropped.
ReleaseFailsSilently(c) ==
  /\ FaultBudget
  /\ pc = "release"
  /\ c \in todo
  /\ AfterRelease(c, [view[c] EXCEPT !.finalizers = @ \ {cur}])
  /\ UNCHANGED <<request, cluster, queue, cur, view, drop, failed>>

\* A finalizer patch of the deletion loop fails; the loop goes on.
ReleaseFails(c) ==
  /\ FaultBudget
  /\ pc = "release"
  /\ c \in todo
  /\ AfterRelease(c, [view[c] EXCEPT !.finalizers = @ \ {cur}])
  /\ failed' = TRUE
  /\ UNCHANGED <<request, cluster, queue, cur, view, drop>>

\* A Delete of the deletion loop fails; the loop goes on.
DisposeFails ==
  /\ FaultBudget
  /\ pc = "dispose"
  /\ pc' = "release"
  /\ target' = NoCluster
  /\ todo' = todo \ {target}
  /\ failed' = TRUE
  /\ UNCHANGED <<request, cluster, queue, cur, view, drop>>

\* The operator stops; the informers of its successor queue every request.
Crash ==
  /\ FaultBudget
  /\ Idle
  /\ queue' = {KeyOf[r] : r \in Existing}
  /\ UNCHANGED <<request, cluster>>

-----------------------------------------------------------------------------
(* Everybody else *)

CreateRequest(r) ==
  /\ request[r].life = "new"
  /\ \A s \in Existing : KeyOf[s] # KeyOf[r]
  /\ request' = [request EXCEPT ![r].life = "active"]
  /\ queue' = queue \cup {KeyOf[r]}
  /\ UNCHANGED <<cluster, local, faults>>

DeleteRequest(r) ==
  /\ request[r].life = "active"
  /\ request' = [request EXCEPT ![r].life = IF request[r].finalizer THEN "deleting" ELSE "gone"]
  /\ queue' = queue \cup {KeyOf[r]}
  /\ UNCHANGED <<cluster, local, faults>>

\* The reconcile annotation queues a request.
Trigger(r) ==
  /\ r \in Existing
  /\ queue' = queue \cup {KeyOf[r]}
  /\ UNCHANGED <<request, cluster, local, faults>>

\* Somebody strips the finalizers of a request in deletion.
RequestVanishes(r) ==
  /\ RequestsMayVanish
  /\ request[r].life = "deleting"
  /\ request' = [request EXCEPT ![r].life = "stripped", ![r].finalizer = FALSE]
  /\ UNCHANGED <<cluster, queue, local, faults>>

DeleteCluster(c) ==
  /\ AdminDeletes
  /\ cluster[c].state = "active"
  /\ cluster' = [cluster EXCEPT ![c] = Deleted(@)]
  /\ UNCHANGED <<request, queue, local, faults>>

ClusterVanishes(c) ==
  /\ ClustersMayVanish
  /\ c \in Present
  /\ cluster' = [cluster EXCEPT ![c] = Absent]
  /\ UNCHANGED <<request, queue, local, faults>>

\* A cluster provider protects the clusters it manages and lets go of them
\* once it has torn them down.
ProviderTakes(c, f) ==
  /\ cluster[c].state = "active"
  /\ f \notin cluster[c].finalizers
  /\ PatchFinalizers(c, cluster[c].finalizers \cup {f})
  /\ UNCHANGED <<request, queue, local, faults>>

ProviderLeaves(c, f) ==
  /\ cluster[c].state = "deleting"
  /\ f \in cluster[c].finalizers
  /\ PatchFinalizers(c, cluster[c].finalizers \ {f})
  /\ UNCHANGED <<request, queue, local, faults>>

-----------------------------------------------------------------------------
HandleCreateOrUpdate ==
  AddFinalizer \/ GetReferenced \/ Reclaim \/ Schedule \/ Join \/ Inspect
    \/ Create \/ Update \/ UpdateStatus

HandleDelete ==
  ListOwned \/ (\E c \in Clusters : Release(c)) \/ Dispose \/ FinishDelete

Reconcile == HandleCreateOrUpdate \/ HandleDelete

Failure == CallFails \/ (\E c \in Clusters : ReleaseFails(c)) \/ DisposeFails \/ Crash

Users ==
  \E r \in Requests : CreateRequest(r) \/ DeleteRequest(r) \/ Trigger(r) \/ RequestVanishes(r)

Providers ==
  \/ \E c \in Clusters : DeleteCluster(c) \/ ClusterVanishes(c)
  \/ \E c \in Clusters, f \in Foreign : ProviderTakes(c, f) \/ ProviderLeaves(c, f)

Next ==
  \/ \E k \in Keys : Dequeue(k)
  \/ Reconcile
  \/ Failure
  \/ Users
  \/ Providers

Spec == Init /\ [][Next]_vars

\* The worker takes every step it can; the work queue serves every key that
\* keeps coming back (strong, since the worker is busy in between); a provider
\* finishes every teardown.
Fairness ==
  /\ WF_vars(Reconcile)
  /\ \A k \in Keys : SF_vars(Dequeue(k))
  /\ \A c \in Clusters, f \in Foreign : WF_vars(ProviderLeaves(c, f))

FairSpec == Spec /\ Fairness
-----------------------------------------------------------------------------
(* Properties *)

TypeOK ==
  /\ request \in [Requests -> RequestType]
  /\ cluster \in [Clusters -> ClusterType]
  /\ queue \subseteq Keys
  /\ pc \in Steps
  /\ cur \in Requests \cup {NoRequest}
  /\ target \in Clusters \cup {NoCluster}
  /\ view \in [Clusters -> ClusterType]
  /\ drop \subseteq Requests
  /\ todo \subseteq Clusters
  /\ failed \in BOOLEAN
  /\ faults \in 0 .. MaxFaults

\* A request that was told about a cluster and is not being deleted keeps the
\* finalizer that protects the cluster, whatever fails or is deleted around it
\* (status is written after the finalizer; releases touch only own finalizers).
GrantedIsHeld ==
  \A r \in Requests :
    request[r].life = "active" /\ request[r].cluster # NoCluster
      => /\ request[r].cluster \in Present
         /\ r \in Tenants(request[r].cluster)

\* A request never occupies slots of two clusters, although the finalizer and
\* the status are written by two calls and the operator may stop in between
\* (the next reconciliation finds the cluster by its finalizer).
AtMostOneCluster ==
  \A r \in Requests, c, d \in Clusters : r \in Tenants(c) \cap Tenants(d) => c = d

\* Exclusive clusters have one tenant, limited ones at most tenancyCount, also
\* when a cluster is taken over by name or joined long after it was read.
WithinCapacity ==
  \A c \in Present :
    LET d == Definitions[cluster[c].template] IN
    /\ d.tenancy = "Exclusive" => TenancyCount(c) <= 1
    /\ d.tenancyCount > 0 => TenancyCount(c) <= d.tenancyCount

\* The scheduler never tries to replace a reference by another one, which the
\* schema refuses, so that the reconciliation would fail for ever: a referenced
\* cluster that disappeared is created anew under its name, and nothing else
\* hands a request a second cluster.
ReferenceIsKept ==
  pc = "status" => \A r \in Addressed : request[r].cluster \in {NoCluster, target}

\* When the scheduler has given up a request, no cluster carries its finalizer:
\* partial failures of the release loop never leak one, which would block the
\* deletion of the cluster and occupy a slot for ever.
NoLeftovers ==
  \A r \in Requests : request[r].life = "gone" => \A c \in Clusters : r \notin Tenants(c)

\* The scheduler deletes a cluster only when no other request uses it, although
\* it decides on a copy read several calls before the Delete.
DeletesOnlyUnused ==
  [][pc = "dispose" /\ cluster' # cluster => Tenants(target) \subseteq {cur}]_vars

\* The scheduler implements the slot allocator: slots are taken within the limit
\* of the request's purpose, by requests that hold none, and assigned when held.
Allocation ==
  INSTANCE ClusterAllocation WITH
    life <- [r \in Requests |-> request[r].life],
    holders <- [c \in Clusters |->
                  {r \in Tenants(c) : request[r].life # "stripped"}],
    assigned <- [r \in Requests |-> request[r].cluster],
    SlotLimit <- [r \in Requests |->
                    CASE PurposeOf[r] \notin Mapped -> 0
                      [] Definitions[PurposeOf[r]].tenancy = "Exclusive" -> 1
                      [] OTHER -> Definitions[PurposeOf[r]].tenancyCount]

ImplementsAllocation == Allocation!Spec

\* A cluster in deletion that waits for a request somebody has stripped of its
\* finalizer: nobody lets it go.
Stuck(c) ==
  /\ cluster[c].state = "deleting"
  /\ \E r \in Tenants(c) : request[r].life = "stripped"

\* Every request whose purpose is configured is granted or withdrawn, although
\* calls fail, clusters vanish and the cluster name it needs may still be in
\* deletion, unless that deletion is stuck.
EventuallyGranted ==
  \A r \in Requests :
    request[r].life = "active" /\ PurposeOf[r] \in Mapped
      ~> \/ request[r].phase = "Granted"
         \/ request[r].life # "active"
         \/ \E c \in Clusters : Stuck(c)

\* Every request in deletion is let go.
EventuallyGone ==
  \A r \in Requests : request[r].life = "deleting" ~> r \notin Existing

\* docs/controller/scheduler.md:120: "if it was the last request finalizer on
\* that cluster and the cluster has the aforementioned label, the scheduler will
\* delete the cluster" - so no request that is gone leaves an unused cluster.
LastRequestDeletesCluster ==
  \A c \in Present :
    cluster[c].deletable /\ Tenants(c) = {} /\ Existing = {} => cluster[c].state = "deleting"

\* controller.go:321-326: "A conflict occurs if a cluster with the same name and
\* namespace already exists, and it does not have a finalizer referencing this
\* ClusterRequest, but it has a finalizer referencing another ClusterRequest, and
\* this other ClusterRequest still exists" - then the cluster is not taken over.
NoTakeoverOfUsedCluster ==
  [][pc = "update" /\ cluster' # cluster
       => cur \in Tenants(target) \/ Tenants(target) \cap Existing \subseteq {cur}]_vars
=============================================================================

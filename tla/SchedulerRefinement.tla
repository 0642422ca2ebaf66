------------------------- MODULE SchedulerRefinement -------------------------
(***************************************************************************)
(* The scheduler implements the slot allocator of ClusterAllocation, for   *)
(* every configuration and any number of requests, clusters and failures,  *)
(* as long as nobody strips finalizers: every API call of the scheduler is *)
(* one step of the allocator, or none.                                     *)
(***************************************************************************)
EXTENDS SchedulerCapacity

\* What the refinement mapping of Allocation computes.
Lives == [r \in Requests |-> request[r].life]

Slots == [c \in Clusters |-> {r \in Tenants(c) : request[r].life # "stripped"}]

Told == [r \in Requests |-> request[r].cluster]

Limit ==
  [r \in Requests |->
     CASE PurposeOf[r] \notin Mapped -> 0
       [] Definitions[PurposeOf[r]].tenancy = "Exclusive" -> 1
       [] OTHER -> Definitions[PurposeOf[r]].tenancyCount]

RefinementInv == DisciplineInv /\ JoinRoom

-----------------------------------------------------------------------------
(* The state of the allocator *)

\* While nobody strips requests, the slots are the finalizers on the clusters.
LEMMA SlotsAreTenants ==
  ASSUME DisciplineInv
  PROVE  Slots = [c \in Clusters |-> Tenants(c)]
<1>1. \A c \in Clusters : \A r \in Tenants(c) : request[r].life # "stripped"
  BY DEF DisciplineInv, TypeInv, TypeOK, RequestType, Store, Holding, Tenants, TenantsOf
<1>2. QED
  BY <1>1 DEF Slots

\* The same of the next state.
LEMMA SlotsAreTenantsNext ==
  ASSUME DisciplineInv'
  PROVE  Slots' = [c \in Clusters |-> TenantsOf(cluster'[c])]
<1>1. \A c \in Clusters : \A r \in TenantsOf(cluster'[c]) : request'[r].life # "stripped"
  BY DEF DisciplineInv, TypeInv, TypeOK, RequestType, Store, Holding, Tenants, TenantsOf
<1>2. QED
  BY <1>1 DEF Slots, Tenants

\* A step that touches neither what requests are told nor who is on a cluster is
\* none of the allocator.
LEMMA Stutter ==
  ASSUME DisciplineInv, DisciplineInv',
         \A r \in Requests : /\ request'[r].life = request[r].life
                             /\ request'[r].cluster = request[r].cluster,
         \A c \in Clusters : TenantsOf(cluster'[c]) = Tenants(c)
  PROVE  UNCHANGED Allocation!allocVars
<1>1. Slots' = Slots
  BY SlotsAreTenants, SlotsAreTenantsNext
<1>2. Lives' = Lives /\ Told' = Told
  BY DEF Lives, Told
<1>3. QED
  BY <1>1, <1>2 DEF Allocation!allocVars, Lives, Slots, Told

\* The allocator counts as the scheduler does.
LEMMA SameCount == \A S : Allocation!Cardinality(S) = Cardinality(S)
BY DEF Cardinality, Allocation!Cardinality

\* A request gains a slot.
LEMMA AcquireStep ==
  ASSUME DisciplineInv, DisciplineInv', NEW r \in Existing, NEW c \in Clusters,
         HoldsNothing(r), UNCHANGED request,
         Limit[r] = 0 \/ Cardinality(Tenants(c)) < Limit[r],
         TenantsOf(cluster'[c]) = Tenants(c) \cup {r},
         \A d \in Clusters \ {c} : cluster'[d] = cluster[d]
  PROVE  Allocation!Next
<1>1. r \in Requests /\ Lives[r] \in {"active", "deleting"}
  BY DEF Existing, Lives
<1>2. Slots = [d \in Clusters |-> Tenants(d)]
  BY SlotsAreTenants
<1>3. (\A d \in Clusters : r \notin Slots[d]) /\ Slots[c] = Tenants(c)
  BY <1>2 DEF HoldsNothing
<1>4. Slots' = [Slots EXCEPT ![c] = @ \cup {r}]
  BY <1>2, SlotsAreTenantsNext DEF Tenants
<1>5. Lives' = Lives /\ Told' = Told
  BY DEF Lives, Told
<1>6. Allocation!Acquire(r, c)
  BY <1>1, <1>3, <1>4, <1>5, SameCount
  DEF Allocation!Acquire, Lives, Slots, Told, Limit
<1>7. QED
  BY <1>1, <1>6 DEF Allocation!Next
\* A request is asked for, withdrawn or let go: its lifecycle moves on, and it is let
\* go only when it holds no slot.
LEMMA LifeStep ==
  ASSUME DisciplineInv, DisciplineInv', NEW r \in Requests, NEW life, UNCHANGED cluster,
         request'[r].life = life, request'[r].cluster = request[r].cluster,
         \A q \in Requests \ {r} : /\ request'[q].life = request[q].life
                                   /\ request'[q].cluster = request[q].cluster,
         \/ request[r].life = "new" /\ life = "active"
         \/ request[r].life = "active" /\ life = "deleting"
         \/ request[r].life \in {"active", "deleting"} /\ life = "gone" /\ HoldsNothing(r)
  PROVE  Allocation!Next
<1>1. Lives' = [Lives EXCEPT ![r] = life] /\ Lives[r] = request[r].life
  BY DEF Lives
<1>2. Told' = Told
  BY DEF Told
<1>3. Slots' = Slots /\ Slots = [d \in Clusters |-> Tenants(d)]
  BY SlotsAreTenants, SlotsAreTenantsNext DEF Tenants
<1>4. CASE Lives[r] = "new" /\ life = "active"
  <2>1. Allocation!Ask(r)
    BY <1>1, <1>2, <1>3, <1>4 DEF Allocation!Ask, Lives, Slots, Told
  <2>2. QED
    BY <2>1 DEF Allocation!Next
<1>5. CASE Lives[r] = "active" /\ life = "deleting"
  <2>1. Allocation!Withdraw(r)
    BY <1>1, <1>2, <1>3, <1>5 DEF Allocation!Withdraw, Lives, Slots, Told
  <2>2. QED
    BY <2>1 DEF Allocation!Next
<1>6. CASE Lives[r] \in {"active", "deleting"} /\ life = "gone" /\ HoldsNothing(r)
  <2>1. \A d \in Clusters : r \notin Slots[d]
    BY <1>3, <1>6 DEF HoldsNothing
  <2>2. Allocation!Leave(r)
    BY <1>1, <1>2, <1>3, <1>6, <2>1 DEF Allocation!Leave, Lives, Slots, Told
  <2>3. QED
    BY <2>2 DEF Allocation!Next
<1>7. QED
  BY <1>1, <1>4, <1>5, <1>6

\* A request that holds a slot is told on which cluster.
LEMMA AssignStep ==
  ASSUME DisciplineInv, DisciplineInv', NEW r \in Existing, NEW c \in Clusters,
         UNCHANGED cluster, r \in Tenants(c), request[r].cluster = NoCluster,
         request'[r].cluster = c, request'[r].life = request[r].life,
         \A q \in Requests \ {r} : /\ request'[q].life = request[q].life
                                   /\ request'[q].cluster = request[q].cluster
  PROVE  Allocation!Next
<1>1. r \in Requests /\ Lives[r] \in {"active", "deleting"} /\ Lives' = Lives
  BY DEF Existing, Lives
<1>2. Told[r] = NoCluster /\ Told' = [Told EXCEPT ![r] = c]
  BY <1>1 DEF Told
<1>3. Slots' = Slots /\ r \in Slots[c]
  BY SlotsAreTenants, SlotsAreTenantsNext DEF Tenants
<1>4. Allocation!Assign(r, c)
  BY <1>1, <1>2, <1>3 DEF Allocation!Assign, Lives, Slots, Told
<1>5. QED
  BY <1>1, <1>4 DEF Allocation!Next

\* A request in deletion gives its slot back.
LEMMA GiveBackStep ==
  ASSUME DisciplineInv, DisciplineInv', NEW r \in Requests, NEW c \in Clusters,
         UNCHANGED request, request[r].life = "deleting",
         TenantsOf(cluster'[c]) = Tenants(c) \ {r},
         \A d \in Clusters \ {c} : cluster'[d] = cluster[d]
  PROVE  Allocation!Next
<1>1. Lives[r] = "deleting" /\ Lives' = Lives /\ Told' = Told
  BY DEF Lives, Told
<1>2. Slots' = [Slots EXCEPT ![c] = @ \ {r}]
  BY SlotsAreTenants, SlotsAreTenantsNext DEF Tenants
<1>3. Allocation!Release(r, c)
  BY <1>1, <1>2 DEF Allocation!Release, Lives, Slots, Told
<1>4. QED
  BY <1>3 DEF Allocation!Next

-----------------------------------------------------------------------------
(* The steps of the scheduler *)

Abstractly == Allocation!Next \/ UNCHANGED Allocation!allocVars

\* A reconciliation that fails tells requests nothing and moves no slot.
LEMMA FailAbstractly ==
  ASSUME DisciplineInv, DisciplineInv', Fail, UNCHANGED cluster
  PROVE  UNCHANGED Allocation!allocVars
<1>1. \A r \in Requests : /\ request'[r].life = request[r].life
                          /\ request'[r].cluster = request[r].cluster
  BY DEF Fail, StatusPatch, DisciplineInv, TypeInv, TypeOK, RequestType
<1>2. QED
  BY <1>1, Stutter DEF Tenants

\* Joining: the request takes one of the slots counted before.
LEMMA JoinAbstractly ==
  ASSUME RefinementInv, DisciplineInv', Join
  PROVE  Abstractly
<1> DEFINE fins == view[target].finalizers \cup {cur}
<1> USE DEF RefinementInv, DisciplineInv, Abstractly
<1>1. pc = "join" /\ cur \in Requests /\ target \in Clusters /\ TypeOK
  BY DEF Join, TypeInv, WorkerTyped, Targeting
<1>2. CASE Fail /\ UNCHANGED cluster
  BY <1>2, FailAbstractly
<1>3. CASE /\ Accepts(target, fins)
           /\ PatchFinalizers(target, fins)
           /\ UNCHANGED request
  <2>1. cluster[target].state # "absent" /\ target \in Present
    BY <1>1, <1>3 DEF Accepts, Present
  <2>2. HoldsNothing(cur) /\ TenantsOf(view[target]) = Tenants(target)
    BY <1>1, <2>1 DEF WorkerInv, InCreateOrUpdate
  <2>3. fins \in SUBSET Finalizers
    BY <1>1 DEF TypeOK, ClusterType, Finalizers
  <2>4. /\ \A d \in Clusters \ {target} : cluster'[d] = cluster[d]
        /\ cluster'[target].finalizers = fins
    BY <1>1, <1>3, <2>1, <2>3, PatchEffect DEF TypeOK
  <2>5. TenantsOf(cluster'[target]) = Tenants(target) \cup {cur}
    BY <1>1, <2>2, <2>4 DEF Tenants, TenantsOf
  <2>6. /\ PurposeOf[cur] \in Mapped
        /\ Definitions[PurposeOf[cur]].tenancy = "Shared"
        /\ Definitions[PurposeOf[cur]].tenancyCount > 0
             => Cardinality(Tenants(target)) < Definitions[PurposeOf[cur]].tenancyCount
        /\ Definitions[PurposeOf[cur]].tenancyCount \in Nat
    BY <1>1, <2>1, SchedulerAssumption DEF JoinRoom, TenancyCount, DefinitionType
  <2>7. Limit[cur] = Definitions[PurposeOf[cur]].tenancyCount
    BY <1>1, <2>6 DEF Limit
  <2>8. cur \in Existing
    BY <1>1, AddressesItself
  <2>9. QED
    BY <1>1, <1>3, <2>2, <2>4, <2>5, <2>6, <2>7, <2>8, AcquireStep
<1>4. QED
  BY <1>2, <1>3 DEF Join, PatchIn

\* Creating a cluster, or taking one over: the request takes the first slot, which
\* every purpose has.
LEMMA PlaceAbstractly ==
  ASSUME RefinementInv, DisciplineInv', Create \/ Update
  PROVE  Abstractly
<1> DEFINE fins == (view[target].finalizers \ drop) \cup {cur}
           new  == [NewCluster(cur) EXCEPT !.finalizers = fins, !.state = view[target].state]
<1> USE DEF RefinementInv, DisciplineInv, Abstractly
<1>1. /\ pc \in {"create", "update"} /\ cur \in Requests /\ target \in Clusters /\ TypeOK
      /\ cur \in Existing /\ HoldsNothing(cur) /\ PurposeOf[cur] \in Mapped
  BY AddressesItself
  DEF Create, Update, TypeInv, WorkerTyped, Targeting, WorkerInv, InCreateOrUpdate
<1>2. CASE Fail /\ UNCHANGED cluster
  BY <1>2, FailAbstractly
<1>3. Limit[cur] = 0 \/ Cardinality({}) < Limit[cur]
  <2>1. Limit[cur] \in Nat
    BY <1>1, SchedulerAssumption DEF Limit, DefinitionType
  <2>2. QED
    BY <2>1, FS_EmptySet
<1>4. ASSUME Tenants(target) = {}, TenantsOf(cluster'[target]) = {cur}, UNCHANGED request,
             \A d \in Clusters \ {target} : cluster'[d] = cluster[d]
      PROVE  Abstractly
  BY <1>1, <1>3, <1>4, AcquireStep
<1>5. CASE /\ pc = "create" /\ target \notin Present
           /\ cluster' = [cluster EXCEPT ![target] = NewCluster(cur)]
           /\ UNCHANGED request
  <2>1. Tenants(target) = {}
    BY <1>1, <1>5 DEF Present, Store, Objects, Tenants, TenantsOf
  <2>2. /\ \A d \in Clusters \ {target} : cluster'[d] = cluster[d]
        /\ TenantsOf(cluster'[target]) = {cur}
    BY <1>1, <1>5 DEF TypeOK, NewCluster, TenantsOf
  <2>3. QED
    BY <1>4, <1>5, <2>1, <2>2
<1>6. CASE /\ pc = "update" /\ cluster[target] = view[target]
           /\ cluster' = [cluster EXCEPT ![target] = new]
           /\ UNCHANGED request
  <2>1. TenantsOf(view[target]) = {} /\ Tenants(target) = {}
    BY <1>1, <1>6 DEF WorkerInv, InCreateOrUpdate, Tenants
  <2>2. /\ \A d \in Clusters \ {target} : cluster'[d] = cluster[d]
        /\ cluster'[target] = new
    BY <1>1, <1>6 DEF TypeOK
  <2>3. new.finalizers = fins
    BY DEF NewCluster
  <2>4. TenantsOf(cluster'[target]) = {cur}
    BY <1>1, <2>1, <2>2, <2>3 DEF TenantsOf
  <2>5. QED
    BY <1>4, <1>6, <2>1, <2>2, <2>4
<1>7. QED
  BY <1>2, <1>5, <1>6 DEF Create, Update

\* Writing the status: the request is told, or already was.
LEMMA StatusAbstractly ==
  ASSUME Lossless, RefinementInv, DisciplineInv', UpdateStatus
  PROVE  Abstractly
<1> USE DEF RefinementInv, DisciplineInv, Abstractly
<1>1. /\ pc = "status" /\ UNCHANGED cluster /\ TypeOK /\ target \in Clusters
      /\ cur \in Requests /\ cur \in Existing /\ Addressed = {cur}
      /\ cur \in Tenants(target) /\ request[cur].cluster \in {NoCluster, target}
  BY AddressesItself, NoRecoveryNeeded
  DEF UpdateStatus, TypeInv, WorkerTyped, Targeting, WorkerInv, InCreateOrUpdate
<1>2. StatusPatch(target, "Granted")
  BY <1>1 DEF UpdateStatus
<1>3. /\ \A q \in Requests \ {cur} : request'[q] = request[q]
      /\ request'[cur].life = request[cur].life
      /\ request'[cur].cluster = target
  BY <1>1, <1>2 DEF StatusPatch, TypeOK, RequestType
<1>4. CASE request[cur].cluster = NoCluster
  BY <1>1, <1>3, <1>4, AssignStep
<1>5. CASE request[cur].cluster = target
  BY <1>1, <1>3, <1>5, Stutter DEF Tenants
<1>6. QED
  BY <1>1, <1>4, <1>5

\* Releasing a cluster: the request gives the slot back, or the patch fails.
LEMMA ReleaseAbstractly ==
  ASSUME RefinementInv, DisciplineInv', NEW c \in Clusters, Release(c)
  PROVE  Abstractly
<1> DEFINE fins == view[c].finalizers \ {cur}
<1> USE DEF RefinementInv, DisciplineInv, Abstractly
<1>1. /\ c \in todo /\ cur \in Requests /\ TypeOK /\ request[cur].life = "deleting"
      /\ pc = "release" /\ UNCHANGED request
      /\ c \notin Present \/ TenantsOf(view[c]) = Tenants(c)
  BY DEF Release, WorkerInv, InDelete, TypeInv, WorkerTyped
<1>2. CASE UNCHANGED cluster
  BY <1>1, <1>2, Stutter DEF Tenants
<1>3. CASE Accepts(c, fins) /\ PatchFinalizers(c, fins)
  <2>1. cluster[c].state # "absent" /\ TenantsOf(view[c]) = Tenants(c)
    BY <1>1, <1>3 DEF Accepts, Present
  <2>2. fins \in SUBSET Finalizers
    BY <1>1 DEF TypeOK, ClusterType
  <2>3. /\ \A d \in Clusters \ {c} : cluster'[d] = cluster[d]
        /\ cluster'[c].finalizers = fins
    BY <1>1, <1>3, <2>1, <2>2, PatchEffect DEF TypeOK
  <2>4. TenantsOf(cluster'[c]) = Tenants(c) \ {cur}
    BY <2>1, <2>3 DEF TenantsOf
  <2>5. QED
    BY <1>1, <2>3, <2>4, GiveBackStep
<1>4. QED
  BY <1>2, <1>3 DEF Release

\* Deleting a cluster, whoever does it, frees no slot.
LEMMA DeletedTenants ==
  ASSUME TypeOK, NEW c \in Clusters, cluster' = [cluster EXCEPT ![c] = Deleted(@)]
  PROVE  \A d \in Clusters : TenantsOf(cluster'[d]) = Tenants(d)
<1>1. cluster'[c] = Deleted(cluster[c]) /\ \A d \in Clusters \ {c} : cluster'[d] = cluster[d]
  BY DEF TypeOK
<1>2. Deleted(cluster[c]).finalizers = cluster[c].finalizers
  BY DeletedEffect DEF TypeOK
<1>3. QED
  BY <1>1, <1>2 DEF Tenants, TenantsOf

\* Listing, and deleting the cluster, are no steps of the allocator.
LEMMA DisposeAbstractly ==
  ASSUME RefinementInv, DisciplineInv', ListOwned \/ Dispose
  PROVE  Abstractly
<1> USE DEF RefinementInv, DisciplineInv, Abstractly
<1>1. UNCHANGED request
  BY DEF ListOwned, Dispose
<1>2. CASE ListOwned
  BY <1>1, <1>2, Stutter DEF ListOwned, Tenants
<1>3. CASE Dispose
  <2>1. /\ TypeOK /\ target \in Clusters
        /\ cluster' = [cluster EXCEPT ![target] = Deleted(@)]
    BY <1>3 DEF Dispose, TypeInv, WorkerTyped, Targeting
  <2>2. QED
    BY <1>1, <2>1, DeletedTenants, Stutter
<1>4. QED
  BY <1>2, <1>3

\* A request is let go once it holds nothing.
LEMMA FinishDeleteAbstractly ==
  ASSUME RefinementInv, DisciplineInv', FinishDelete
  PROVE  Abstractly
<1> USE DEF RefinementInv, DisciplineInv, Abstractly
<1>1. CASE Fail
  BY <1>1, FailAbstractly DEF FinishDelete
<1>2. ASSUME ~failed, NEW r \in Addressed,
             request' = [request EXCEPT ![r].finalizer = FALSE,
                           ![r].life = IF @ = "deleting" THEN "gone" ELSE @]
      PROVE  Abstractly
  <2>1. r = cur /\ cur \in Requests /\ TypeOK
    BY <1>2, AddressesItself DEF FinishDelete, Existing, TypeInv
  <2>2. HoldsNothing(cur) /\ request[cur].life = "deleting" /\ UNCHANGED cluster
    BY <1>2 DEF FinishDelete, HoldsNothing, WorkerInv, InDelete
  <2>3. request' = [request EXCEPT ![cur] =
                      [request[cur] EXCEPT !.finalizer = FALSE, !.life = "gone"]]
    BY <1>2, <2>1, <2>2 DEF TypeOK
  <2>4. /\ \A q \in Requests \ {cur} : request'[q] = request[q]
        /\ request'[cur].life = "gone" /\ request'[cur].cluster = request[cur].cluster
    BY <2>1, <2>3 DEF TypeOK, RequestType
  <2>5. QED
    BY <2>1, <2>2, <2>4, LifeStep
<1>3. QED
  BY <1>1, <1>2 DEF FinishDelete

\* Failing calls and crashes are no steps of the allocator.
LEMMA FailureAbstractly ==
  ASSUME RefinementInv, DisciplineInv', Failure
  PROVE  Abstractly
<1> USE DEF RefinementInv, DisciplineInv, Abstractly
<1>1. CASE UNCHANGED <<request, cluster>>
  BY <1>1, Stutter DEF Tenants
<1>2. CASE Fail /\ UNCHANGED cluster
  BY <1>2, FailAbstractly
<1>3. QED
  BY <1>1, <1>2 DEF Failure, CallFails, ReleaseFails, DisposeFails, Crash

\* Steps that only read clusters, or put the scheduler's finalizer on a request.
LEMMA ReadAbstractly ==
  ASSUME RefinementInv, DisciplineInv',
         \/ \E k \in Keys : Dequeue(k)
         \/ AddFinalizer \/ GetReferenced \/ Schedule \/ Inspect
  PROVE  Abstractly
<1> USE DEF RefinementInv, DisciplineInv, Abstractly
<1>1. UNCHANGED cluster /\ TypeOK
  BY DEF Dequeue, AddFinalizer, GetReferenced, Schedule, Inspect, TypeInv
<1>2. CASE UNCHANGED request
  BY <1>1, <1>2, Stutter DEF Tenants
<1>3. CASE Fail
  BY <1>1, <1>3, FailAbstractly
<1>4. CASE \E r \in Requests : request' = [request EXCEPT ![r].finalizer = TRUE]
  <2>1. \A q \in Requests : /\ request'[q].life = request[q].life
                            /\ request'[q].cluster = request[q].cluster
    BY <1>1, <1>4 DEF TypeOK, RequestType
  <2>2. QED
    BY <1>1, <2>1, Stutter DEF Tenants
<1>5. QED
  BY <1>2, <1>3, <1>4
  DEF Dequeue, AddFinalizer, Addressed, Existing, GetReferenced, Schedule, Inspect

\* Users ask for clusters and withdraw; a request without the scheduler's finalizer
\* disappears at once, and holds nothing.
LEMMA UsersAbstractly ==
  ASSUME Discipline, RefinementInv, DisciplineInv', Users
  PROVE  Abstractly
<1> USE DEF RefinementInv, DisciplineInv, Abstractly
<1>1. PICK r \in Requests : CreateRequest(r) \/ DeleteRequest(r) \/ Trigger(r)
  BY DEF Users, RequestVanishes, Discipline
<1>2. UNCHANGED cluster /\ TypeOK
  BY <1>1 DEF CreateRequest, DeleteRequest, Trigger, TypeInv
<1>3. \A q \in Requests : /\ request'[q].cluster = request[q].cluster
                          /\ q # r => request'[q] = request[q]
  BY <1>1, <1>2 DEF CreateRequest, DeleteRequest, Trigger, TypeOK, RequestType
<1>4. CASE Trigger(r)
  BY <1>2, <1>4, Stutter DEF Trigger, Tenants
<1>5. CASE CreateRequest(r)
  <2>1. request[r].life = "new" /\ request'[r].life = "active"
    BY <1>2, <1>5 DEF CreateRequest, TypeOK, RequestType
  <2>2. QED
    BY <1>2, <1>3, <2>1, LifeStep
<1>6. CASE DeleteRequest(r)
  <2>1. /\ request[r].life = "active"
        /\ request'[r].life = IF request[r].finalizer THEN "deleting" ELSE "gone"
    BY <1>2, <1>6 DEF DeleteRequest, TypeOK, RequestType
  <2>2. ~request[r].finalizer => HoldsNothing(r)
    BY DEF Store, Holding, HoldsNothing
  <2>3. QED
    BY <1>2, <1>3, <2>1, <2>2, LifeStep
<1>7. QED
  BY <1>1, <1>4, <1>5, <1>6

\* Providers and administrators move no slot.
LEMMA ProvidersAbstractly ==
  ASSUME Lossless, RefinementInv, DisciplineInv', Providers
  PROVE  Abstractly
<1> USE DEF RefinementInv, DisciplineInv, Abstractly
<1>1. UNCHANGED request /\ TypeOK
  BY DEF Providers, DeleteCluster, ClusterVanishes, ProviderTakes, ProviderLeaves, TypeInv
<1>2. ASSUME NEW c \in Clusters, DeleteCluster(c)
      PROVE  \A d \in Clusters : TenantsOf(cluster'[d]) = Tenants(d)
  BY <1>1, <1>2, DeletedTenants DEF DeleteCluster
<1>3. ASSUME NEW c \in Clusters, NEW f \in Foreign, ProviderTakes(c, f) \/ ProviderLeaves(c, f)
      PROVE  \A d \in Clusters : TenantsOf(cluster'[d]) = Tenants(d)
  <2>1. PICK fins \in {cluster[c].finalizers \cup {f}, cluster[c].finalizers \ {f}} :
          PatchFinalizers(c, fins)
    BY <1>3 DEF ProviderTakes, ProviderLeaves
  <2>2. cluster[c].state # "absent" /\ fins \in SUBSET Finalizers
    BY <1>1, <1>3, <2>1 DEF ProviderTakes, ProviderLeaves, TypeOK, ClusterType, Finalizers
  <2>3. fins \cap Requests = cluster[c].finalizers \cap Requests
    BY <2>1, SchedulerAssumption
  <2>4. /\ \A d \in Clusters \ {c} : cluster'[d] = cluster[d]
        /\ cluster'[c].finalizers = fins
    BY <1>1, <2>1, <2>2, PatchEffect DEF TypeOK
  <2>5. QED
    BY <2>3, <2>4 DEF Tenants, TenantsOf
<1>4. QED
  BY <1>1, <1>2, <1>3, Stutter DEF Providers, ClusterVanishes, Lossless

-----------------------------------------------------------------------------
(* The refinement *)

\* The allocator starts without requests and without tenants.
LEMMA InitAbstractly == Init => Allocation!Init
<1> SUFFICES ASSUME Init PROVE Allocation!Init
  OBVIOUS
<1>1. \A c \in Clusters : Tenants(c) = {}
  BY DEF Init, Absent, Tenants, TenantsOf
<1>2. /\ Lives = [r \in Requests |-> "new"]
      /\ Told = [r \in Requests |-> NoCluster]
  BY DEF Init, Lives, Told
<1>3. Slots = [c \in Clusters |-> {}]
  BY <1>1 DEF Slots
<1>4. QED
  BY <1>2, <1>3 DEF Allocation!Init, Lives, Slots, Told

\* Every step is one of the allocator, or none.
THEOREM StepAbstractly ==
  ASSUME Lossless, RefinementInv, DisciplineInv', [Next]_vars
  PROVE  Abstractly
<1>1. CASE UNCHANGED vars
  BY <1>1, Stutter DEF vars, Tenants, RefinementInv, Abstractly
<1>2. CASE HandleCreateOrUpdate
  <2>1. ~Reclaim
    BY NoRecoveryNeeded DEF Reclaim, RefinementInv
  <2>2. QED
    BY <1>2, <2>1, ReadAbstractly, JoinAbstractly, PlaceAbstractly, StatusAbstractly
    DEF HandleCreateOrUpdate
<1>3. CASE HandleDelete
  BY <1>3, DisposeAbstractly, ReleaseAbstractly, FinishDeleteAbstractly DEF HandleDelete
<1>4. CASE Failure
  BY <1>4, FailureAbstractly
<1>5. CASE Users \/ Providers
  BY <1>5, UsersAbstractly, ProvidersAbstractly DEF Lossless
<1>6. CASE \E k \in Keys : Dequeue(k)
  BY <1>6, ReadAbstractly
<1>7. QED
  BY <1>1, <1>2, <1>3, <1>4, <1>5, <1>6 DEF Next, Reconcile

\* ImplementsAllocation: while nobody strips finalizers, the scheduler with its API
\* calls, work queue, failures and crashes implements the allocator of slots: it gives a
\* slot only to a request that has none, within the limit of its purpose counted several
\* calls before, tells only what is held, and takes back only what was deleted.
THEOREM ImplementsAllocationAlways == Lossless => (Spec => ImplementsAllocation)
<1> SUFFICES ASSUME Lossless PROVE Spec => ImplementsAllocation
  OBVIOUS
<1>1. Init => RefinementInv
  BY DisciplineInit DEF Init, JoinRoom, RefinementInv
<1>2. RefinementInv /\ [Next]_vars => RefinementInv'
  BY DisciplineNext, RoomStep DEF RefinementInv, Lossless
<1>3. RefinementInv /\ RefinementInv' /\ [Next]_vars => [Allocation!Next]_Allocation!allocVars
  BY StepAbstractly DEF RefinementInv, Abstractly
<1>4. QED
  BY <1>1, <1>2, <1>3, InitAbstractly, PTL DEF Spec, ImplementsAllocation, Allocation!Spec

=============================================================================

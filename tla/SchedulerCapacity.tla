------------------------- MODULE SchedulerCapacity -------------------------
(***************************************************************************)
(* No cluster of the scheduler has more tenants than its template allows,  *)
(* for every number of requests and every configuration in which each      *)
(* template serves one purpose only.  (The configuration may give a        *)
(* template several purposes: candidates for a purpose are then chosen     *)
(* whatever the tenancy of the template they were made from.)              *)
(***************************************************************************)
EXTENDS SchedulerProofs, FiniteSetTheorems

SeparatePurposes == \A p \in Mapped : Definitions[p].purposes \subseteq {p}

WithinLimit(p, S) ==
  /\ Definitions[p].tenancy = "Exclusive" => Cardinality(S) <= 1
  /\ Definitions[p].tenancyCount > 0 => Cardinality(S) <= Definitions[p].tenancyCount

Templated == \A c \in Present : cluster[c].template \in Mapped

\* What was true of the chosen cluster when it was read still is when it is joined.
JoinRoom ==
  pc = "join" /\ target \in Present =>
    /\ PurposeOf[cur] \in Mapped
    /\ Definitions[PurposeOf[cur]].tenancy = "Shared"
    /\ Definitions[PurposeOf[cur]].tenancyCount > 0
         => TenancyCount(target) < Definitions[PurposeOf[cur]].tenancyCount

CapacityInv == DisciplineInv /\ Templated /\ WithinCapacity /\ JoinRoom

\* No cluster appears, changes its template or gains a tenant.
Shrinks ==
  \A c \in Clusters : c \in Present' =>
    /\ c \in Present
    /\ cluster'[c].template = cluster[c].template
    /\ TenantsOf(cluster'[c]) \subseteq Tenants(c)

\* The tenants of a cluster are finitely many, so that counting them makes sense.
LEMMA FiniteTenants ==
  ASSUME NEW obj
  PROVE  IsFiniteSet(TenantsOf(obj)) /\ Cardinality(TenantsOf(obj)) \in Nat
<1>1. TenantsOf(obj) \in SUBSET Requests
  BY DEF TenantsOf
<1>2. IsFiniteSet(TenantsOf(obj))
  BY <1>1, SchedulerAssumption, FS_Subset
<1>3. QED
  BY <1>2, FS_CardinalityType

\* Fewer tenants stay within the limit.
LEMMA LimitOfSubset ==
  ASSUME NEW p \in Mapped, NEW S, IsFiniteSet(S), NEW T \in SUBSET S, WithinLimit(p, S)
  PROVE  WithinLimit(p, T)
<1>1. /\ Cardinality(T) <= Cardinality(S)
      /\ Cardinality(S) \in Nat /\ Cardinality(T) \in Nat
  BY FS_Subset, FS_CardinalityType
<1>2. Definitions[p].tenancyCount \in Nat
  BY SchedulerAssumption DEF DefinitionType
<1>3. QED
  BY <1>1, <1>2 DEF WithinLimit

\* WithinCapacity says of every cluster that its tenants are within the limit of
\* its template.
LEMMA CapacityIsLimit ==
  WithinCapacity <=> \A c \in Present : WithinLimit(cluster[c].template, Tenants(c))
BY DEF WithinCapacity, WithinLimit, TenancyCount

\* A step that adds no tenant leaves the worker the slot it was going to join.
LEMMA ShrinkRoom ==
  ASSUME JoinRoom, Shrinks, pc' = "join" => pc = "join" /\ UNCHANGED <<cur, target>>
  PROVE  JoinRoom'
<1>1. \A c \in Present' : c \in Clusters /\ c \in Present
  BY DEF Present, Shrinks
<1> SUFFICES ASSUME pc' = "join", target' \in Present'
             PROVE  JoinRoom'
  BY DEF JoinRoom
<1>2. pc = "join" /\ UNCHANGED <<cur, target>> /\ target \in Present
  BY <1>1
<1>3. TenantsOf(cluster'[target]) \in SUBSET Tenants(target)
  BY <1>1, <1>2 DEF Shrinks
<1>4. /\ Cardinality(TenantsOf(cluster'[target])) <= Cardinality(Tenants(target))
      /\ Cardinality(TenantsOf(cluster'[target])) \in Nat
      /\ Cardinality(Tenants(target)) \in Nat
  BY <1>3, FiniteTenants, FS_Subset DEF Tenants
<1>5. Definitions[PurposeOf[cur]].tenancyCount \in Nat
  BY <1>2, SchedulerAssumption DEF JoinRoom, DefinitionType
<1>6. QED
  BY <1>2, <1>4, <1>5 DEF JoinRoom, TenancyCount, Tenants

\* A step that adds no tenant and moves no worker into the join keeps the limits.
LEMMA ShrinkCapacity ==
  ASSUME CapacityInv, Shrinks, pc' = "join" => pc = "join" /\ UNCHANGED <<cur, target>>
  PROVE  Templated' /\ WithinCapacity' /\ JoinRoom'
<1>1. \A c \in Present' : c \in Clusters /\ c \in Present
  BY DEF Present, Shrinks
<1>2. Templated'
  BY <1>1 DEF Templated, Shrinks, CapacityInv
<1>3. ASSUME NEW c \in Present'
      PROVE  WithinLimit(cluster'[c].template, TenantsOf(cluster'[c]))
  <2>1. /\ c \in Present /\ cluster'[c].template = cluster[c].template
        /\ TenantsOf(cluster'[c]) \in SUBSET Tenants(c) /\ cluster[c].template \in Mapped
    BY <1>1, <1>3 DEF Shrinks, CapacityInv, Templated
  <2>2. WithinLimit(cluster[c].template, Tenants(c)) /\ IsFiniteSet(Tenants(c))
    BY <2>1, CapacityIsLimit, FiniteTenants DEF CapacityInv, Tenants
  <2>3. QED
    BY <2>1, <2>2, LimitOfSubset
<1>4. WithinCapacity'
  BY <1>3 DEF WithinCapacity, WithinLimit, TenancyCount, Tenants
<1>5. JoinRoom'
  BY ShrinkRoom DEF CapacityInv
<1>6. QED
  BY <1>2, <1>4, <1>5

\* One cluster gets new contents, within the limit of its template.
LEMMA PlaceCapacity ==
  ASSUME CapacityInv, NEW c \in Clusters, pc' # "join",
         \A d \in Clusters \ {c} : cluster'[d] = cluster[d],
         cluster'[c].template \in Mapped,
         WithinLimit(cluster'[c].template, TenantsOf(cluster'[c]))
  PROVE  Templated' /\ WithinCapacity' /\ JoinRoom'
<1>1. Templated'
  BY DEF CapacityInv, Templated, Present
<1>2. WithinCapacity'
  <2>1. ASSUME NEW d \in Present'
        PROVE  WithinLimit(cluster'[d].template, TenantsOf(cluster'[d]))
    <3>1. CASE d = c
      BY <3>1
    <3>2. CASE d # c
      <4>1. d \in Present /\ cluster'[d] = cluster[d]
        BY <2>1, <3>2 DEF Present
      <4>2. QED
        BY <4>1, CapacityIsLimit DEF CapacityInv, Tenants
    <3>3. QED
      BY <3>1, <3>2
  <2>2. QED
    BY <2>1 DEF WithinCapacity, WithinLimit, TenancyCount, Tenants
<1>3. QED
  BY <1>1, <1>2 DEF JoinRoom

\* A single tenant fits every template.
LEMMA OneTenantFits ==
  ASSUME NEW p \in Mapped, NEW r
  PROVE  WithinLimit(p, {r})
<1>1. Cardinality({r}) = 1
  BY FS_Singleton
<1>2. Definitions[p].tenancyCount \in Nat
  BY SchedulerAssumption DEF DefinitionType
<1>3. QED
  BY <1>1, <1>2 DEF WithinLimit

\* Joining a cluster: the worker counted the tenants before, and nobody else adds one.
LEMMA JoinCapacity ==
  ASSUME SeparatePurposes, CapacityInv, Join
  PROVE  Templated' /\ WithinCapacity' /\ JoinRoom'
<1> DEFINE fins == view[target].finalizers \cup {cur}
<1>1. /\ pc = "join" /\ cur \in Requests /\ target \in Clusters /\ TypeOK
  BY DEF Join, CapacityInv, DisciplineInv, TypeInv, WorkerTyped, Targeting
<1>2. CASE Fail /\ UNCHANGED cluster
  BY <1>2, ShrinkCapacity DEF Fail, Requeue, Idle, Shrinks, Present, Tenants
<1>3. CASE /\ Accepts(target, fins)
           /\ PatchFinalizers(target, fins)
           /\ Goto("status", target)
  <2>1. cluster[target].state # "absent" /\ target \in Present
    BY <1>1, <1>3 DEF Accepts, Present
  <2>2. /\ cur \notin Tenants(target)
        /\ TenantsOf(view[target]) = Tenants(target)
        /\ PurposeOf[cur] \in PurposesOf(cluster[target])
    BY <1>1, <2>1 DEF CapacityInv, DisciplineInv, WorkerInv, InCreateOrUpdate, HoldsNothing
  <2>3. cluster[target].template \in Mapped /\ PurposeOf[cur] = cluster[target].template
    BY <2>1, <2>2 DEF CapacityInv, Templated, PurposesOf, SeparatePurposes
  <2>4. fins \in SUBSET Finalizers /\ fins # {}
    BY <1>1 DEF TypeOK, ClusterType, Finalizers
  <2>5. /\ \A d \in Clusters \ {target} : cluster'[d] = cluster[d]
        /\ cluster'[target].finalizers = fins
        /\ cluster'[target].template = cluster[target].template
    BY <1>1, <1>3, <2>1, <2>4, PatchEffect DEF TypeOK
  <2>6. TenantsOf(cluster'[target]) = Tenants(target) \cup {cur}
    BY <1>1, <2>2, <2>5 DEF Tenants, TenantsOf
  <2>7. /\ Cardinality(Tenants(target) \cup {cur}) = Cardinality(Tenants(target)) + 1
        /\ Cardinality(Tenants(target)) \in Nat
    BY <2>2, FiniteTenants, FS_AddElement DEF Tenants
  <2>8. /\ Definitions[cluster[target].template].tenancy = "Shared"
        /\ Definitions[cluster[target].template].tenancyCount > 0
             => Cardinality(Tenants(target)) < Definitions[cluster[target].template].tenancyCount
    BY <1>1, <2>1, <2>3 DEF CapacityInv, JoinRoom, TenancyCount
  <2>9. Definitions[cluster[target].template].tenancyCount \in Nat
    BY <2>3, SchedulerAssumption DEF DefinitionType
  <2>10. WithinLimit(cluster'[target].template, TenantsOf(cluster'[target]))
    BY <2>5, <2>6, <2>7, <2>8, <2>9 DEF WithinLimit
  <2>11. pc' # "join"
    BY <1>3 DEF Goto
  <2>12. QED
    BY <1>1, <2>3, <2>5, <2>10, <2>11, PlaceCapacity
<1>4. QED
  BY <1>2, <1>3 DEF Join, PatchIn

\* A cluster that is created, or taken over without tenants, has a single one.
LEMMA PlaceOneCapacity ==
  ASSUME CapacityInv, Create \/ Update
  PROVE  Templated' /\ WithinCapacity' /\ JoinRoom'
<1> DEFINE fins == (view[target].finalizers \ drop) \cup {cur}
           new  == [NewCluster(cur) EXCEPT !.finalizers = fins, !.state = view[target].state]
<1>1. /\ pc \in {"create", "update"} /\ cur \in Requests /\ target \in Clusters
      /\ TypeOK /\ PurposeOf[cur] \in Mapped
  BY DEF Create, Update, CapacityInv, DisciplineInv, TypeInv, WorkerTyped, Targeting
<1>2. CASE Fail /\ UNCHANGED cluster
  BY <1>2, ShrinkCapacity DEF Fail, Requeue, Idle, Shrinks, Present, Tenants
<1>3. CASE /\ cluster' = [cluster EXCEPT ![target] = NewCluster(cur)]
           /\ Goto("status", target)
  <2>1. cluster'[target] = NewCluster(cur) /\ \A d \in Clusters \ {target} : cluster'[d] = cluster[d]
    BY <1>1, <1>3 DEF TypeOK
  <2>2. cluster'[target].template = PurposeOf[cur] /\ TenantsOf(cluster'[target]) = {cur}
    BY <1>1, <2>1 DEF NewCluster, TenantsOf
  <2>3. pc' # "join"
    BY <1>3 DEF Goto
  <2>4. QED
    BY <1>1, <2>1, <2>2, <2>3, OneTenantFits, PlaceCapacity
<1>4. CASE /\ pc = "update" /\ cluster[target] = view[target]
           /\ cluster' = [cluster EXCEPT ![target] = new]
           /\ Goto("status", target)
  <2>1. cluster'[target] = new /\ \A d \in Clusters \ {target} : cluster'[d] = cluster[d]
    BY <1>1, <1>4 DEF TypeOK
  <2>2. new.finalizers = fins /\ new.template = PurposeOf[cur]
    BY DEF NewCluster
  <2>3. TenantsOf(view[target]) = {}
    BY <1>4 DEF CapacityInv, DisciplineInv, WorkerInv, InCreateOrUpdate
  <2>4. cluster'[target].template = PurposeOf[cur] /\ TenantsOf(cluster'[target]) = {cur}
    BY <1>1, <2>1, <2>2, <2>3 DEF TenantsOf
  <2>5. pc' # "join"
    BY <1>4 DEF Goto
  <2>6. QED
    <3>1. WithinLimit(PurposeOf[cur], {cur})
      BY <1>1, OneTenantFits
    <3>2. QED
      BY <1>1, <2>1, <2>4, <2>5, <3>1, PlaceCapacity
<1>5. QED
  BY <1>2, <1>3, <1>4 DEF Create, Update

\* The scheduling decision moves the worker to the join only of a cluster on which
\* it counted a slot for the purpose of the request.
LEMMA ScheduleRoom ==
  ASSUME Schedule, pc' = "join"
  PROVE  JoinRoom'
<1>1. UNCHANGED cluster
  BY DEF Schedule
<1>2. \A S : Choices(S) \subseteq S
  BY DEF Choices
<1>3. ~Idle /\ \A c : Goto("status", c) \/ Goto("inspect", c) => FALSE
  BY DEF Idle, Goto
<1>4. PICK c \in Choices(Candidates(cur)) : Goto("join", c) /\ PurposeOf[cur] \in Mapped
  BY <1>3 DEF Schedule, Fail, Requeue
<1>5. cur' = cur /\ target' \in Candidates(cur) /\ PurposeOf[cur] \in Mapped
  BY <1>2, <1>4 DEF Goto
<1>6. QED
  BY <1>1, <1>5 DEF JoinRoom, Candidates, TenancyCount, Tenants

\* The scheduling decision looks for a slot before the worker moves to the join.
LEMMA ScheduleCapacity ==
  ASSUME CapacityInv, Schedule
  PROVE  Templated' /\ WithinCapacity' /\ JoinRoom'
<1>1. UNCHANGED cluster
  BY DEF Schedule
<1>2. Shrinks
  BY <1>1 DEF Shrinks, Present, Tenants
<1>3. CASE pc' # "join"
  BY <1>2, <1>3, ShrinkCapacity
<1>4. CASE pc' = "join"
  <2>2. JoinRoom'
    BY <1>4, ScheduleRoom
  <2>3. Templated' /\ WithinCapacity'
    BY <1>1 DEF CapacityInv, Templated, WithinCapacity, TenancyCount, Tenants, Present
  <2>4. QED
    BY <2>2, <2>3
<1>5. QED
  BY <1>3, <1>4

\* Releases, deletions and the finalizers of providers add no tenant.
LEMMA DeleteShrinks ==
  ASSUME DisciplineInv, HandleDelete \/ Failure
  PROVE  Shrinks /\ (pc' = "join" => FALSE)
<1>1. TypeOK /\ Present \subseteq Clusters
  BY DEF DisciplineInv, TypeInv, Present
<1>2. ASSUME UNCHANGED cluster PROVE Shrinks
  BY <1>1, <1>2 DEF Shrinks, Present, Tenants
<1>3. ASSUME NEW c \in Clusters, Release(c), ~UNCHANGED cluster
      PROVE  Shrinks
  <2> DEFINE fins == view[c].finalizers \ {cur}
  <2>1. /\ pc = "release" /\ c \in todo /\ Accepts(c, fins) /\ PatchFinalizers(c, fins)
    BY <1>3 DEF Release
  <2>2. c \in Present /\ TenantsOf(view[c]) = Tenants(c)
    BY <1>3, <2>1 DEF Accepts, Present, DisciplineInv, WorkerInv, InDelete
  <2>3. fins \in SUBSET Finalizers
    BY <1>1 DEF TypeOK, ClusterType
  <2>4. /\ \A d \in Clusters \ {c} : cluster'[d] = cluster[d]
        /\ cluster'[c].finalizers = fins
        /\ cluster'[c].state # "absent" => cluster'[c].template = cluster[c].template
    BY <1>1, <2>1, <2>3 DEF PatchFinalizers, WithFinalizers, Absent, TypeOK, ClusterType
  <2>5. TenantsOf(cluster'[c]) \subseteq Tenants(c)
    BY <2>2, <2>4 DEF TenantsOf
  <2>6. QED
    BY <2>2, <2>4, <2>5 DEF Shrinks, Present, Tenants
<1>4. ASSUME Dispose PROVE Shrinks
  <2>1. target \in Clusters /\ cluster' = [cluster EXCEPT ![target] = Deleted(@)]
    BY <1>4 DEF Dispose, DisciplineInv, TypeInv, WorkerTyped, Targeting
  <2>2. /\ cluster'[target] = Deleted(cluster[target])
        /\ \A d \in Clusters \ {target} : cluster'[d] = cluster[d]
    BY <1>1, <2>1 DEF TypeOK
  <2>3. cluster[target].state = "absent" => cluster[target].finalizers = {}
    BY <2>1 DEF DisciplineInv, Store, Objects
  <2>4. /\ cluster'[target].finalizers = cluster[target].finalizers
        /\ cluster'[target].state # "absent" => /\ cluster[target].state # "absent"
                                               /\ cluster'[target].template = cluster[target].template
    BY <1>1, <2>1, <2>2, <2>3 DEF Deleted, Absent, TypeOK, ClusterType
  <2>5. QED
    BY <2>1, <2>2, <2>4 DEF Shrinks, Present, Tenants, TenantsOf
<1>5. Shrinks
  BY <1>2, <1>3, <1>4
  DEF HandleDelete, Failure, ListOwned, FinishDelete, CallFails, ReleaseFails, DisposeFails, Crash
<1>6. CASE HandleDelete
  BY <1>5, <1>6 DEF HandleDelete, ListOwned, Release, AfterRelease, Dispose, FinishDelete,
                    Fail, Requeue, Idle
<1>7. CASE Failure
  BY <1>5, <1>7 DEF Failure, CallFails, ReleaseFails, AfterRelease, DisposeFails, Crash,
                    Fail, Requeue, Idle
<1>8. QED
  BY <1>6, <1>7

\* Users have no access to finalizers of clusters; providers touch only their own.
LEMMA OthersShrink ==
  ASSUME DisciplineInv, Users \/ Providers
  PROVE  Shrinks /\ UNCHANGED <<pc, cur, target>>
<1>1. TypeOK
  BY DEF DisciplineInv, TypeInv
<1>2. CASE Users
  BY <1>2 DEF Users, CreateRequest, DeleteRequest, Trigger, RequestVanishes, local,
              Shrinks, Present, Tenants
<1>3. ASSUME NEW c \in Clusters, DeleteCluster(c) \/ ClusterVanishes(c)
      PROVE  Shrinks /\ UNCHANGED <<pc, cur, target>>
  <2>1. /\ c \in Present
        /\ cluster' = [cluster EXCEPT ![c] = Deleted(@)] \/ cluster' = [cluster EXCEPT ![c] = Absent]
        /\ UNCHANGED <<pc, cur, target>>
    BY <1>3 DEF DeleteCluster, ClusterVanishes, Present, local
  <2>2. /\ cluster'[c] \in {Deleted(cluster[c]), Absent}
        /\ \A d \in Clusters \ {c} : cluster'[d] = cluster[d]
    BY <1>1, <2>1 DEF TypeOK
  <2>3. cluster'[c].state # "absent" => /\ cluster'[c].template = cluster[c].template
                                        /\ cluster'[c].finalizers = cluster[c].finalizers
    BY <1>1, <2>2 DEF Deleted, Absent, TypeOK, ClusterType
  <2>4. QED
    BY <2>1, <2>2, <2>3 DEF Shrinks, Present, Tenants, TenantsOf
<1>4. ASSUME NEW c \in Clusters, NEW f \in Foreign, ProviderTakes(c, f) \/ ProviderLeaves(c, f)
      PROVE  Shrinks /\ UNCHANGED <<pc, cur, target>>
  <2>1. PICK fins \in {cluster[c].finalizers \cup {f}, cluster[c].finalizers \ {f}} :
          cluster' = [cluster EXCEPT ![c] = WithFinalizers(cluster[c], fins)]
    BY <1>4 DEF ProviderTakes, ProviderLeaves, PatchFinalizers
  <2>2. c \in Present /\ UNCHANGED <<pc, cur, target>>
    BY <1>4 DEF ProviderTakes, ProviderLeaves, Present, local
  <2>3. /\ cluster'[c] = WithFinalizers(cluster[c], fins)
        /\ \A d \in Clusters \ {c} : cluster'[d] = cluster[d]
    BY <1>1, <2>1 DEF TypeOK
  <2>4. fins \cap Requests = cluster[c].finalizers \cap Requests
    BY <2>1, SchedulerAssumption
  <2>5. cluster'[c].state # "absent" => /\ cluster'[c].template = cluster[c].template
                                        /\ cluster'[c].finalizers = fins
    BY <1>1, <2>3 DEF WithFinalizers, Absent, TypeOK, ClusterType
  <2>6. QED
    BY <2>2, <2>3, <2>4, <2>5 DEF Shrinks, Present, Tenants, TenantsOf
<1>5. QED
  BY <1>2, <1>3, <1>4 DEF Providers

\* Steps of the worker that only read the clusters.
LEMMA ReadShrinks ==
  ASSUME \/ \E k \in Keys : Dequeue(k)
         \/ AddFinalizer \/ GetReferenced \/ Inspect \/ UpdateStatus
  PROVE  Shrinks /\ (pc' = "join" => pc = "join" /\ UNCHANGED <<cur, target>>)
<1>1. UNCHANGED cluster
  BY DEF Dequeue, AddFinalizer, GetReferenced, Inspect, UpdateStatus
<1>2. Shrinks
  BY <1>1 DEF Shrinks, Present, Tenants
<1>3. pc' = "join" => pc = "join" /\ UNCHANGED <<cur, target>>
  <2>1. CASE \E k \in Keys : Dequeue(k)
    BY <2>1 DEF Dequeue, AfterFinalizer, local
  <2>2. CASE AddFinalizer \/ GetReferenced
    BY <2>2 DEF AddFinalizer, AfterFinalizer, GetReferenced, Fail, Requeue, Idle, Goto
  <2>3. CASE Inspect \/ UpdateStatus
    BY <2>3 DEF Inspect, UpdateStatus, Fail, Requeue, Idle, Goto
  <2>4. QED
    BY <2>1, <2>2, <2>3
<1>4. QED
  BY <1>2, <1>3

\* The slot the worker is going to join stays free, whatever the purposes of the
\* templates: nobody but the worker adds tenants.
LEMMA RoomStep ==
  ASSUME DisciplineInv, JoinRoom, [Next]_vars
  PROVE  JoinRoom'
<1>1. CASE UNCHANGED vars
  BY <1>1, ShrinkRoom DEF vars, Shrinks, Present, Tenants
<1>2. CASE Schedule
  BY <1>2, ShrinkRoom, ScheduleRoom DEF JoinRoom
<1>3. CASE Reclaim \/ Join \/ Create \/ Update
  BY <1>3 DEF Reclaim, Join, PatchIn, Create, Update, Goto, Fail, Requeue, Idle, JoinRoom
<1>4. CASE HandleDelete \/ Failure
  BY <1>4, DeleteShrinks, ShrinkRoom
<1>5. CASE Users \/ Providers
  BY <1>5, OthersShrink, ShrinkRoom
<1>6. CASE (\E k \in Keys : Dequeue(k)) \/ AddFinalizer \/ GetReferenced \/ Inspect \/ UpdateStatus
  BY <1>6, ReadShrinks, ShrinkRoom
<1>7. QED
  BY <1>1, <1>2, <1>3, <1>4, <1>5, <1>6 DEF Next, Reconcile, HandleCreateOrUpdate

\* Clusters of an administrator have a template of the configuration and no tenant.
THEOREM CapacityInit == Init => CapacityInv
<1> SUFFICES ASSUME Init PROVE CapacityInv
  OBVIOUS
<1>1. \A c \in Present : cluster[c].template \in Mapped /\ Tenants(c) = {}
  BY DEF Init, Present, Absent, Tenants, TenantsOf
<1>2. Cardinality({}) = 0
  BY FS_EmptySet
<1>3. WithinCapacity
  <2> SUFFICES ASSUME NEW c \in Present PROVE WithinLimit(cluster[c].template, Tenants(c))
    BY CapacityIsLimit
  <2>1. Definitions[cluster[c].template].tenancyCount \in Nat
    BY <1>1, SchedulerAssumption DEF DefinitionType
  <2>2. QED
    BY <1>1, <1>2, <2>1 DEF WithinLimit
<1>4. JoinRoom
  BY DEF Init, JoinRoom
<1>5. QED
  BY <1>1, <1>3, <1>4, DisciplineInit DEF CapacityInv, Templated

\* Every step keeps the limits, since the worker is the only one to add tenants and
\* adds one only to a cluster it found a slot on, or that has none.
THEOREM CapacityNext ==
  ASSUME SeparatePurposes, Lossless, CapacityInv, [Next]_vars
  PROVE  CapacityInv'
<1>1. DisciplineInv'
  BY DisciplineNext DEF CapacityInv, Lossless
<1>2. Templated' /\ WithinCapacity' /\ JoinRoom'
  <2>1. CASE UNCHANGED vars
    BY <2>1, ShrinkCapacity DEF vars, Shrinks, Present, Tenants
  <2>2. CASE HandleCreateOrUpdate
    <3>1. ~Reclaim
      BY NoRecoveryNeeded DEF Reclaim, CapacityInv
    <3>2. QED
      BY <2>2, <3>1, ReadShrinks, ShrinkCapacity, JoinCapacity, PlaceOneCapacity, ScheduleCapacity
      DEF HandleCreateOrUpdate
  <2>3. CASE HandleDelete \/ Failure
    BY <2>3, DeleteShrinks, ShrinkCapacity DEF CapacityInv
  <2>4. CASE Users \/ Providers
    BY <2>4, OthersShrink, ShrinkCapacity DEF CapacityInv
  <2>5. CASE \E k \in Keys : Dequeue(k)
    BY <2>5, ReadShrinks, ShrinkCapacity
  <2>6. QED
    BY <2>1, <2>2, <2>3, <2>4, <2>5 DEF Next, Reconcile
<1>3. QED
  BY <1>1, <1>2 DEF CapacityInv

\* No cluster ever has more tenants than its template allows, provided that each
\* template serves one purpose only and nobody strips finalizers.
THEOREM WithinCapacityAlways ==
  SeparatePurposes /\ Lossless => (Spec => []WithinCapacity)
<1> SUFFICES ASSUME SeparatePurposes, Lossless PROVE Spec => []WithinCapacity
  OBVIOUS
<1>1. Init => CapacityInv
  BY CapacityInit
<1>2. CapacityInv /\ [Next]_vars => CapacityInv'
  BY CapacityNext
<1>3. CapacityInv => WithinCapacity
  BY DEF CapacityInv
<1>4. QED
  BY <1>1, <1>2, <1>3, PTL DEF Spec
=============================================================================

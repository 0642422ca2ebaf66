-------------------------- MODULE SchedulerProofs --------------------------
(***************************************************************************)
(* Theorems about the cluster scheduler, for every number of requests,     *)
(* clusters, keys and purposes, every configuration and any number of      *)
(* failures.                                                               *)
(***************************************************************************)
EXTENDS Scheduler, TLAPS

-----------------------------------------------------------------------------
(* Types.  TypeOK alone is not inductive: a patch of cluster `target' on   *)
(* behalf of `cur' keeps the types only when both exist.                   *)

Targeting == {"reclaim", "join", "inspect", "create", "update", "status", "dispose"}

WorkerTyped ==
  /\ pc # "idle" => cur \in Requests
  /\ pc \in Targeting => target \in Clusters
  /\ pc = "getReferenced" => request[cur].cluster \in Clusters
  /\ pc \in {"inspect", "create", "update"} => PurposeOf[cur] \in Mapped

TypeInv == TypeOK /\ WorkerTyped

\* The finalizers a patch may leave behind keep a Cluster well-typed.
LEMMA PatchType ==
  ASSUME NEW obj \in ClusterType, NEW fins \in SUBSET Finalizers
  PROVE  WithFinalizers(obj, fins) \in ClusterType
BY DEF WithFinalizers, ClusterType, Absent

\* A cluster somebody deletes stays well-typed, whether it disappears or waits.
LEMMA DeletedType ==
  ASSUME NEW obj \in ClusterType
  PROVE  Deleted(obj) \in ClusterType
BY DEF Deleted, ClusterType, Absent

\* The record that stands for a missing Cluster is well-typed.
LEMMA AbsentType == Absent \in ClusterType
BY DEF Absent, ClusterType

\* What the scheduler creates is a well-typed Cluster.
LEMMA NewClusterType ==
  ASSUME NEW r \in Requests, PurposeOf[r] \in Mapped
  PROVE  NewCluster(r) \in ClusterType
BY SchedulerAssumption DEF NewCluster, ClusterType, Finalizers, DefinitionType

\* Copies of clusters, and their absence, are well-typed views.
LEMMA SnapshotType ==
  ASSUME cluster \in [Clusters -> ClusterType], NEW S
  PROVE  Snapshot(S) \in [Clusters -> ClusterType]
BY AbsentType DEF Snapshot

\* The reset of the worker's locals.
LEMMA IdleType ==
  ASSUME Idle
  PROVE  /\ pc' = "idle" /\ pc' \in Steps
         /\ cur' \in Requests \cup {NoRequest}
         /\ target' \in Clusters \cup {NoCluster}
         /\ view' \in [Clusters -> ClusterType]
         /\ drop' \subseteq Requests
         /\ todo' \subseteq Clusters
         /\ failed' \in BOOLEAN
BY AbsentType DEF Idle, Steps

\* A status patch keeps lifecycle and finalizers.
LEMMA StatusPatchType ==
  ASSUME request \in [Requests -> RequestType], NEW c \in Clusters \cup {NoCluster},
         NEW phase \in {"Pending", "Granted"}, StatusPatch(c, phase)
  PROVE  request' \in [Requests -> RequestType]
BY DEF StatusPatch, RequestType

\* A reconciliation that ends with an error writes a well-typed status and leaves
\* an idle worker.
LEMMA FailType ==
  ASSUME TypeOK, cur \in Requests, Fail
  PROVE  /\ request' \in [Requests -> RequestType]
         /\ queue' \subseteq Keys
<1>1. request[cur].cluster \in Clusters \cup {NoCluster}
  BY DEF TypeOK, RequestType
<1>2. request' \in [Requests -> RequestType]
  BY <1>1, StatusPatchType DEF Fail, TypeOK
<1>3. QED
  BY <1>2, SchedulerAssumption DEF Fail, Requeue, TypeOK

\* The operator starts well-typed and idle.
THEOREM TypeInit == Init => TypeInv
<1> SUFFICES ASSUME Init PROVE TypeInv
  OBVIOUS
<1>1. request \in [Requests -> RequestType]
  BY DEF Init, RequestType
<1>2. cluster \in [Clusters -> ClusterType]
  BY AbsentType DEF Init, ClusterType
<1>3. view \in [Clusters -> ClusterType]
  BY AbsentType DEF Init
<1>4. faults \in 0 .. MaxFaults
  BY SchedulerAssumption DEF Init
<1>5. TypeOK
  BY <1>1, <1>2, <1>3, <1>4 DEF Init, TypeOK, Steps
<1>6. WorkerTyped
  BY DEF Init, WorkerTyped, Targeting
<1>7. QED
  BY <1>5, <1>6 DEF TypeInv

\* A finalizer patch keeps the types of all clusters.
LEMMA PatchFinalizersType ==
  ASSUME cluster \in [Clusters -> ClusterType], NEW c \in Clusters,
         NEW fins \in SUBSET Finalizers, PatchFinalizers(c, fins)
  PROVE  cluster' \in [Clusters -> ClusterType]
BY PatchType DEF PatchFinalizers

\* Ending a reconciliation, with or without an error, keeps the types.
LEMMA EndType ==
  ASSUME TypeInv, Idle, request' \in [Requests -> RequestType],
         cluster' \in [Clusters -> ClusterType], queue' \subseteq Keys,
         faults' \in 0 .. MaxFaults
  PROVE  TypeInv'
BY IdleType DEF TypeInv, TypeOK, WorkerTyped, Targeting

\* A reconciliation that ends with an error keeps the types.
LEMMA FailEndType ==
  ASSUME TypeInv, pc # "idle", Fail, UNCHANGED cluster, faults' \in 0 .. MaxFaults
  PROVE  TypeInv'
<1>1. cur \in Requests /\ TypeOK
  BY DEF TypeInv, WorkerTyped
<1>2. Idle
  BY DEF Fail, Requeue
<1>3. QED
  BY <1>1, <1>2, FailType, EndType DEF TypeOK

\* So does one that ends without writing a status.
LEMMA RequeueType ==
  ASSUME TypeInv, pc # "idle", Requeue
  PROVE  queue' \subseteq Keys /\ Idle
BY SchedulerAssumption DEF Requeue, TypeInv, TypeOK, WorkerTyped

\* Putting the request's finalizer on an existing cluster keeps the types.
LEMMA PatchInType ==
  ASSUME TypeInv, pc \in {"reclaim", "join"}, PatchIn, UNCHANGED faults
  PROVE  TypeInv'
<1> DEFINE fins == view[target].finalizers \cup {cur}
<1>1. target \in Clusters /\ cur \in Requests
  BY DEF TypeInv, WorkerTyped, Targeting
<1>2. fins \in SUBSET Finalizers
  BY <1>1 DEF TypeInv, TypeOK, ClusterType, Finalizers
<1>3. CASE Fail /\ UNCHANGED cluster
  BY <1>3, FailEndType DEF TypeInv, TypeOK
<1>4. CASE /\ PatchFinalizers(target, fins)
           /\ Goto("status", target)
           /\ UNCHANGED <<request, queue, view, drop, todo>>
  <2>1. cluster' \in [Clusters -> ClusterType]
    BY <1>1, <1>2, <1>4, PatchFinalizersType DEF TypeInv, TypeOK
  <2>2. QED
    BY <1>1, <1>4, <2>1 DEF Goto, TypeInv, TypeOK, WorkerTyped, Targeting, Steps
<1>5. QED
  BY <1>3, <1>4 DEF PatchIn

\* Each step of a create or update reconciliation keeps the types.
LEMMA CreateOrUpdateType ==
  ASSUME TypeInv, HandleCreateOrUpdate
  PROVE  TypeInv'
<1> USE DEF TypeInv
<1>1. CASE AddFinalizer
  <2>1. CASE Fail /\ UNCHANGED <<cluster, faults>>
    BY <1>1, <2>1, FailEndType DEF AddFinalizer, TypeOK
  <2>2. ASSUME NEW r \in Addressed, request[r].life = "active",
               request' = [request EXCEPT ![r].finalizer = TRUE],
               cur' = r, pc' = AfterFinalizer(r),
               UNCHANGED <<queue, target, view, drop, todo, failed, cluster, faults>>
        PROVE  TypeInv'
    <3>1. r \in Requests
      BY DEF Addressed, Existing
    <3>2. request' \in [Requests -> RequestType]
      BY <2>2, <3>1 DEF TypeOK, RequestType
    <3>3. request'[r].cluster = request[r].cluster
      BY <2>2, <3>1 DEF TypeOK, RequestType
    <3>4. QED
      BY <2>2, <3>1, <3>2, <3>3 DEF TypeOK, WorkerTyped, Targeting, AfterFinalizer, Steps, RequestType
  <2>3. QED
    BY <1>1, <2>1, <2>2 DEF AddFinalizer
<1>2. CASE GetReferenced
  <2> DEFINE c == request[cur].cluster
  <2>1. c \in Clusters /\ cur \in Requests /\ pc # "idle"
    BY <1>2 DEF GetReferenced, WorkerTyped
  <2>2. CASE /\ Goto(IF cur \in Tenants(c) THEN "status" ELSE "reclaim", c)
             /\ view' = Snapshot({c})
             /\ UNCHANGED <<request, cluster, queue, drop, todo, faults>>
    BY <2>1, <2>2, SnapshotType DEF Goto, TypeOK, WorkerTyped, Targeting, Steps
  <2>3. CASE /\ PurposeOf[cur] \in Mapped
             /\ Goto("inspect", c)
             /\ UNCHANGED <<request, cluster, queue, view, drop, todo, faults>>
    BY <2>1, <2>3 DEF Goto, TypeOK, WorkerTyped, Targeting, Steps
  <2>4. CASE Fail /\ UNCHANGED <<cluster, faults>>
    BY <2>1, <2>4, FailEndType DEF TypeOK
  <2>5. QED
    BY <1>2, <2>2, <2>3, <2>4 DEF GetReferenced
<1>3. CASE Reclaim
  BY <1>3, PatchInType DEF Reclaim
<1>4. CASE Schedule
  <2>1. cur \in Requests /\ pc # "idle"
    BY <1>4 DEF Schedule, WorkerTyped
  <2>2. CASE Fail /\ UNCHANGED <<cluster, faults>>
    BY <2>1, <2>2, FailEndType DEF TypeOK
  <2>3. ASSUME NEW c \in Clusters, NEW step \in {"status", "join", "inspect"}, Goto(step, c),
               PurposeOf[cur] \in Mapped, view' \in [Clusters -> ClusterType],
               UNCHANGED <<request, queue, drop, todo, cluster, faults>>
        PROVE  TypeInv'
    BY <2>1, <2>3 DEF Goto, TypeOK, WorkerTyped, Targeting, Steps
  <2>4. ClusterName(cur) \in Clusters
    BY <2>1, SchedulerAssumption DEF ClusterName
  <2>5. RandomNames \subseteq Clusters
    BY SchedulerAssumption
  <2>6. Recoverable(cur) \subseteq Clusters /\ Choices(Candidates(cur)) \subseteq Clusters
    BY DEF Recoverable, Relevant, Present, Choices, Candidates
  <2>7. \A c \in Clusters : Snapshot({c}) \in [Clusters -> ClusterType]
    BY SnapshotType DEF TypeOK
  <2>8. view \in [Clusters -> ClusterType]
    BY DEF TypeOK
  <2>9. QED
    BY <1>4, <2>2, <2>3, <2>4, <2>5, <2>6, <2>7, <2>8 DEF Schedule
<1>5. CASE Join
  BY <1>5, PatchInType DEF Join
<1>6. CASE Inspect
  <2>1. cur \in Requests /\ pc # "idle" /\ target \in Clusters /\ PurposeOf[cur] \in Mapped
    BY <1>6 DEF Inspect, WorkerTyped, Targeting
  <2>2. CASE Fail /\ UNCHANGED <<cluster, faults>>
    BY <2>1, <2>2, FailEndType DEF TypeOK
  <2>3. ASSUME NEW step \in {"create", "update"}, Goto(step, target),
               drop' \subseteq Requests, view' \in [Clusters -> ClusterType],
               UNCHANGED <<request, queue, todo, cluster, faults>>
        PROVE  TypeInv'
    BY <2>1, <2>3 DEF Goto, TypeOK, WorkerTyped, Targeting, Steps
  <2>4. Snapshot({target}) \in [Clusters -> ClusterType] /\ view \in [Clusters -> ClusterType]
    BY SnapshotType DEF TypeOK
  <2>5. drop \subseteq Requests
    BY DEF TypeOK
  <2>6. \A d \in {{}} \cup {{f} : f \in Tenants(target) \ {cur}} : d \subseteq Requests
    BY DEF Tenants, TenantsOf
  <2>7. QED
    BY <1>6, <2>2, <2>3, <2>4, <2>5, <2>6 DEF Inspect
<1>7. CASE Create
  <2>1. cur \in Requests /\ pc # "idle" /\ target \in Clusters /\ NewCluster(cur) \in ClusterType
    BY <1>7, NewClusterType DEF Create, WorkerTyped, Targeting
  <2>2. CASE Fail /\ UNCHANGED <<cluster, faults>>
    BY <2>1, <2>2, FailEndType DEF TypeOK
  <2>3. CASE /\ cluster' = [cluster EXCEPT ![target] = NewCluster(cur)]
             /\ Goto("status", target)
             /\ UNCHANGED <<request, queue, view, drop, todo, faults>>
    BY <2>1, <2>3 DEF Goto, TypeOK, WorkerTyped, Targeting, Steps
  <2>4. QED
    BY <1>7, <2>2, <2>3 DEF Create
<1>8. CASE Update
  <2> DEFINE fins == (view[target].finalizers \ drop) \cup {cur}
             new  == [NewCluster(cur) EXCEPT !.finalizers = fins, !.state = view[target].state]
  <2>1. cur \in Requests /\ pc # "idle" /\ target \in Clusters /\ NewCluster(cur) \in ClusterType
    BY <1>8, NewClusterType DEF Update, WorkerTyped, Targeting
  <2>2. CASE Fail /\ UNCHANGED <<cluster, faults>>
    BY <2>1, <2>2, FailEndType DEF TypeOK
  <2>3. CASE /\ cluster' = [cluster EXCEPT ![target] = new]
             /\ Goto("status", target)
             /\ UNCHANGED <<request, queue, view, drop, todo, faults>>
    <3>1. fins \in SUBSET Finalizers /\ view[target].state \in {"absent", "active", "deleting"}
      BY <2>1 DEF TypeOK, ClusterType, Finalizers
    <3>2. new \in ClusterType
      BY <2>1, <3>1 DEF ClusterType
    <3>3. QED
      BY <2>1, <2>3, <3>2 DEF Goto, TypeOK, WorkerTyped, Targeting, Steps
  <2>4. QED
    BY <1>8, <2>2, <2>3 DEF Update
<1>9. CASE UpdateStatus
  <2>1. cur \in Requests /\ pc # "idle" /\ target \in Clusters
    BY <1>9 DEF UpdateStatus, WorkerTyped, Targeting
  <2>2. CASE StatusPatch(target, "Granted") /\ UNCHANGED <<queue, cluster, faults>> /\ Idle
    BY <2>1, <2>2, StatusPatchType, EndType DEF TypeOK
  <2>3. CASE UNCHANGED <<request, cluster, faults>> /\ Requeue
    BY <2>1, <2>3, RequeueType, EndType DEF TypeOK
  <2>4. QED
    BY <1>9, <2>2, <2>3 DEF UpdateStatus
<1>10. QED
  BY <1>1, <1>2, <1>3, <1>4, <1>5, <1>6, <1>7, <1>8, <1>9 DEF HandleCreateOrUpdate

\* The bookkeeping after a finalizer was removed, or not, in handleDelete.
LEMMA AfterReleaseType ==
  ASSUME TypeInv, pc = "release", NEW c \in todo, NEW copy, AfterRelease(c, copy)
  PROVE  /\ pc' \in {"release", "dispose"}
         /\ pc' = "dispose" => target' \in Clusters
         /\ target' \in Clusters \cup {NoCluster}
         /\ todo' \subseteq Clusters
BY DEF AfterRelease, TypeInv, TypeOK

\* Each step of a deletion keeps the types.
LEMMA DeleteType ==
  ASSUME TypeInv, HandleDelete
  PROVE  TypeInv'
<1> USE DEF TypeInv
<1>1. CASE ListOwned
  <2>1. view' \in [Clusters -> ClusterType]
    BY <1>1, SnapshotType DEF ListOwned, TypeOK
  <2>2. QED
    BY <1>1, <2>1 DEF ListOwned, Present, TypeOK, WorkerTyped, Targeting, Steps
<1>2. ASSUME NEW c \in Clusters, Release(c)
      PROVE  TypeInv'
  <2> DEFINE fins == view[c].finalizers \ {cur}
  <2>1. fins \in SUBSET Finalizers
    BY DEF TypeOK, ClusterType
  <2>2. cluster' \in [Clusters -> ClusterType]
    BY <1>2, <2>1, PatchFinalizersType DEF Release, TypeOK
  <2>3. /\ pc' \in {"release", "dispose"}
        /\ pc' = "dispose" => target' \in Clusters
        /\ target' \in Clusters \cup {NoCluster}
        /\ todo' \subseteq Clusters
    BY <1>2, AfterReleaseType DEF Release
  <2>4. failed' \in BOOLEAN
    BY <1>2 DEF Release, TypeOK
  <2>5. QED
    BY <1>2, <2>2, <2>3, <2>4 DEF Release, TypeOK, WorkerTyped, Targeting, Steps
<1>3. CASE Dispose
  <2>1. cluster' \in [Clusters -> ClusterType]
    BY <1>3, DeletedType DEF Dispose, TypeOK, WorkerTyped, Targeting
  <2>2. QED
    BY <1>3, <2>1 DEF Dispose, TypeOK, WorkerTyped, Targeting, Steps
<1>4. CASE FinishDelete
  <2>1. CASE Fail /\ UNCHANGED <<cluster, faults>>
    BY <1>4, <2>1, FailEndType DEF FinishDelete, TypeOK
  <2>2. ASSUME NEW r \in Addressed,
               request' = [request EXCEPT ![r].finalizer = FALSE,
                             ![r].life = IF @ = "deleting" THEN "gone" ELSE @],
               UNCHANGED <<queue, cluster, faults>>, Idle
        PROVE  TypeInv'
    <3> DEFINE life == IF request[r].life = "deleting" THEN "gone" ELSE request[r].life
    <3>1. r \in Requests /\ life \in {"new", "active", "gone", "stripped"}
      BY DEF Addressed, Existing, TypeOK, RequestType
    <3>2. request' = [request EXCEPT ![r] = [request[r] EXCEPT !.finalizer = FALSE, !.life = life]]
      BY <2>2, <3>1 DEF TypeOK
    <3>3. [request[r] EXCEPT !.finalizer = FALSE, !.life = life] \in RequestType
      BY <3>1 DEF TypeOK, RequestType
    <3>4. request' \in [Requests -> RequestType]
      BY <3>2, <3>3 DEF TypeOK
    <3>5. QED
      BY <2>2, <3>4, EndType DEF TypeOK
  <2>3. QED
    BY <1>4, <2>1, <2>2 DEF FinishDelete
<1>5. QED
  BY <1>1, <1>2, <1>3, <1>4 DEF HandleDelete

\* Failing calls and crashes keep the types, wherever they interrupt the worker.
LEMMA FailureType ==
  ASSUME TypeInv, Failure
  PROVE  TypeInv'
<1> USE DEF TypeInv
<1>1. SUFFICES ASSUME FaultBudget PROVE TypeInv'
  BY DEF Failure, CallFails, ReleaseFails, DisposeFails, Crash
<1>2. faults' \in 0 .. MaxFaults
  BY <1>1, SchedulerAssumption DEF FaultBudget, TypeOK
<1>3. CASE CallFails
  <2>1. CASE Fail /\ pc # "idle" /\ UNCHANGED cluster
    BY <1>2, <2>1, FailEndType
  <2>2. CASE Requeue /\ pc # "idle" /\ UNCHANGED <<request, cluster>>
    BY <1>2, <2>2, RequeueType, EndType DEF TypeOK
  <2>3. QED
    BY <1>3, <2>1, <2>2 DEF CallFails
<1>4. ASSUME NEW c \in Clusters, ReleaseFails(c)
      PROVE  TypeInv'
  <2>1. /\ pc' \in {"release", "dispose"}
        /\ pc' = "dispose" => target' \in Clusters
        /\ target' \in Clusters \cup {NoCluster}
        /\ todo' \subseteq Clusters
    BY <1>4, AfterReleaseType DEF ReleaseFails
  <2>2. QED
    BY <1>2, <1>4, <2>1 DEF ReleaseFails, TypeOK, WorkerTyped, Targeting, Steps
<1>5. CASE DisposeFails
  BY <1>2, <1>5 DEF DisposeFails, TypeOK, WorkerTyped, Targeting, Steps
<1>6. CASE Crash
  <2>1. queue' \subseteq Keys
    BY <1>6, SchedulerAssumption DEF Crash, Existing
  <2>2. QED
    BY <1>2, <1>6, <2>1, EndType DEF Crash, TypeOK
<1>7. QED
  BY <1>3, <1>4, <1>5, <1>6 DEF Failure

\* Steps of users and providers touch no local of the worker.
LEMMA OthersType ==
  ASSUME TypeInv, Users \/ Providers
  PROVE  TypeInv'
<1> USE DEF TypeInv
<1>1. SUFFICES ASSUME UNCHANGED <<local, faults>>,
                      request' \in [Requests -> RequestType],
                      \A r \in Requests : request'[r].cluster = request[r].cluster,
                      cluster' \in [Clusters -> ClusterType],
                      queue' \subseteq Keys
               PROVE  TypeInv'
  <2>1. ASSUME NEW r \in Requests,
               CreateRequest(r) \/ DeleteRequest(r) \/ Trigger(r) \/ RequestVanishes(r)
        PROVE  /\ UNCHANGED <<local, faults, cluster>>
               /\ request' \in [Requests -> RequestType]
               /\ \A s \in Requests : request'[s].cluster = request[s].cluster
               /\ queue' \subseteq Keys
    <3>1. UNCHANGED <<local, faults, cluster>>
      BY <2>1 DEF CreateRequest, DeleteRequest, Trigger, RequestVanishes
    <3>2. queue' \subseteq Keys
      BY <2>1, SchedulerAssumption DEF CreateRequest, DeleteRequest, Trigger, RequestVanishes, TypeOK
    <3>3. CASE CreateRequest(r)
      BY <3>1, <3>2, <3>3 DEF CreateRequest, TypeOK, RequestType
    <3>4. CASE DeleteRequest(r)
      BY <3>1, <3>2, <3>4 DEF DeleteRequest, TypeOK, RequestType
    <3>5. CASE Trigger(r)
      BY <3>1, <3>2, <3>5 DEF Trigger, TypeOK
    <3>6. CASE RequestVanishes(r)
      BY <3>1, <3>2, <3>6 DEF RequestVanishes, TypeOK, RequestType
    <3>7. QED
      BY <2>1, <3>3, <3>4, <3>5, <3>6
  <2>2. ASSUME NEW c \in Clusters, DeleteCluster(c) \/ ClusterVanishes(c)
        PROVE  cluster' \in [Clusters -> ClusterType] /\ UNCHANGED <<request, queue, local, faults>>
    BY <2>2, DeletedType, AbsentType DEF DeleteCluster, ClusterVanishes, TypeOK
  <2>3. ASSUME NEW c \in Clusters, NEW f \in Foreign, ProviderTakes(c, f) \/ ProviderLeaves(c, f)
        PROVE  cluster' \in [Clusters -> ClusterType] /\ UNCHANGED <<request, queue, local, faults>>
    <3>1. cluster[c].finalizers \cup {f} \in SUBSET Finalizers
          /\ cluster[c].finalizers \ {f} \in SUBSET Finalizers
      BY DEF TypeOK, ClusterType, Finalizers
    <3>2. QED
      BY <2>3, <3>1, PatchFinalizersType DEF ProviderTakes, ProviderLeaves, TypeOK
  <2>4. QED
    BY <2>1, <2>2, <2>3, <1>1 DEF Users, Providers, TypeOK
<1>2. QED
  BY <1>1 DEF local, TypeOK, WorkerTyped

\* The worker starts on a request it found, in a step where it may rely on it.
LEMMA DequeueType ==
  ASSUME TypeInv, NEW k \in Keys, Dequeue(k)
  PROVE  TypeInv'
<1> USE DEF TypeInv
<1>1. CASE UNCHANGED local /\ queue' \subseteq Keys /\ UNCHANGED <<request, cluster, faults>>
  BY <1>1 DEF local, TypeOK, WorkerTyped
<1>2. ASSUME NEW r \in Existing, cur' = r,
             pc' = CASE request[r].life = "deleting" -> "list"
                     [] request[r].life = "active" /\ ~request[r].finalizer -> "addFinalizer"
                     [] OTHER -> AfterFinalizer(r),
             queue' \subseteq Keys,
             UNCHANGED <<target, view, drop, todo, failed, request, cluster, faults>>
      PROVE  TypeInv'
  <2>1. r \in Requests /\ request[r].cluster \in Clusters \cup {NoCluster}
    BY DEF Existing, TypeOK, RequestType
  <2>2. pc' \in {"list", "addFinalizer", "schedule", "getReferenced"}
        /\ (pc' = "getReferenced" => request[r].cluster \in Clusters)
    BY <1>2, <2>1 DEF AfterFinalizer
  <2>3. QED
    BY <1>2, <2>1, <2>2 DEF TypeOK, WorkerTyped, Targeting, Steps
<1>3. queue' \subseteq Keys
  BY DEF Dequeue, TypeOK
<1>4. QED
  BY <1>1, <1>2, <1>3 DEF Dequeue

\* Every step of the operator, its users and the providers keeps the types.
THEOREM TypeNext == TypeInv /\ [Next]_vars => TypeInv'
<1> SUFFICES ASSUME TypeInv, [Next]_vars PROVE TypeInv'
  OBVIOUS
<1>1. CASE UNCHANGED vars
  BY <1>1 DEF vars, TypeInv, TypeOK, WorkerTyped
<1>2. QED
  BY <1>1, CreateOrUpdateType, DeleteType, FailureType, OthersType, DequeueType
  DEF Next, Reconcile

\* TypeOK in every reachable state: no interleaving of reconciliation, failures,
\* users and providers writes an object or a local outside its type; only existing
\* requests in deletion or in use carry the scheduler's finalizer.
THEOREM TypeCorrect == Spec => []TypeOK
BY TypeInit, TypeNext, PTL DEF Spec, TypeInv

-----------------------------------------------------------------------------
(* References.  Nobody but the worker writes them, and a request that takes *)
(* the key of the one it works on has none yet.  This holds whoever strips  *)
(* finalizers from whatever object.                                         *)

UniqueKeys == \A r, s \in Existing : KeyOf[r] = KeyOf[s] => r = s

NewUnassigned == \A r \in Requests : request[r].life = "new" => request[r].cluster = NoCluster

SuccessorUnassigned ==
  pc # "idle" =>
    \A r \in Existing \ {cur} : KeyOf[r] = KeyOf[cur] => request[r].cluster = NoCluster

AimsAtReference ==
  /\ pc = "schedule" => request[cur].cluster = NoCluster
  /\ pc \in {"reclaim", "join", "inspect", "create", "update", "status"}
       => request[cur].cluster \in {NoCluster, target}

ReferenceInv == TypeInv /\ UniqueKeys /\ NewUnassigned /\ SuccessorUnassigned /\ AimsAtReference

\* Steps that create no request and set no reference leave what is true of references
\* to the worker's next step.
LEMMA ReferenceFrame ==
  ASSUME ReferenceInv, Existing' \subseteq Existing,
         \A r \in Requests : /\ request'[r].cluster = request[r].cluster
                             /\ request'[r].life = "new" => request[r].life = "new"
  PROVE  /\ UniqueKeys' /\ NewUnassigned'
         /\ cur' = cur /\ pc # "idle" => SuccessorUnassigned'
         /\ pc' = "idle" => SuccessorUnassigned' /\ AimsAtReference'
<1>1. UniqueKeys' /\ NewUnassigned'
  BY DEF ReferenceInv, UniqueKeys, NewUnassigned
<1>2. ASSUME cur' = cur, pc # "idle" PROVE SuccessorUnassigned'
  BY <1>2 DEF ReferenceInv, SuccessorUnassigned, Existing
<1>3. ASSUME pc' = "idle" PROVE SuccessorUnassigned' /\ AimsAtReference'
  BY <1>3 DEF SuccessorUnassigned, AimsAtReference
<1>4. QED
  BY <1>1, <1>2, <1>3

\* A step that leaves the requests alone, or ends the reconciliation with an error,
\* changes no reference.
LEMMA QuietRequests ==
  ASSUME TypeInv, UNCHANGED request \/ (pc # "idle" /\ Fail)
  PROVE  /\ Existing' \subseteq Existing
         /\ \A r \in Requests : /\ request'[r].cluster = request[r].cluster
                                /\ request'[r].life = request[r].life
<1>1. ASSUME NEW r \in Requests
      PROVE  request'[r].cluster = request[r].cluster /\ request'[r].life = request[r].life
  <2>1. CASE pc # "idle" /\ Fail
    BY <2>1 DEF Fail, StatusPatch, TypeInv, TypeOK, WorkerTyped, RequestType
  <2>2. QED
    BY <2>1
<1>2. QED
  BY <1>1 DEF Existing

\* Nor does a reconciliation that ends, if it sets no reference.
LEMMA EndReference ==
  ASSUME ReferenceInv, Idle, UNCHANGED request \/ (pc # "idle" /\ Fail)
  PROVE  UniqueKeys' /\ NewUnassigned' /\ SuccessorUnassigned' /\ AimsAtReference'
<1>1. TypeInv /\ pc' = "idle"
  BY DEF ReferenceInv, Idle
<1>2. QED
  BY <1>1, QuietRequests, ReferenceFrame

\* Within a reconciliation the worker keeps to the cluster its request refers to.
LEMMA GoOnReference ==
  ASSUME ReferenceInv, pc # "idle", UNCHANGED <<request, cur>>,
         pc' = "schedule" => request[cur].cluster = NoCluster,
         pc' \in {"reclaim", "join", "inspect", "create", "update", "status"}
           => request[cur].cluster \in {NoCluster, target'}
  PROVE  UniqueKeys' /\ NewUnassigned' /\ SuccessorUnassigned' /\ AimsAtReference'
<1>1. UniqueKeys' /\ NewUnassigned' /\ SuccessorUnassigned'
  BY QuietRequests, ReferenceFrame DEF ReferenceInv
<1>2. AimsAtReference'
  BY DEF AimsAtReference
<1>3. QED
  BY <1>1, <1>2

\* A reconciliation of a request in use sets a reference at its end only.
LEMMA CreateOrUpdateReference ==
  ASSUME ReferenceInv, HandleCreateOrUpdate
  PROVE  UniqueKeys' /\ NewUnassigned' /\ SuccessorUnassigned' /\ AimsAtReference'
<1>1. TypeOK /\ pc # "idle" /\ cur \in Requests
  BY DEF ReferenceInv, TypeInv, WorkerTyped, HandleCreateOrUpdate, AddFinalizer, GetReferenced, Reclaim,
         Schedule, Join, Inspect, Create, Update, UpdateStatus
<1>2. CASE Fail
  BY <1>1, <1>2, EndReference DEF Fail, Requeue
<1>3. ASSUME NEW r \in Addressed, request' = [request EXCEPT ![r].finalizer = TRUE],
             cur' = r, pc' = AfterFinalizer(r)
      PROVE  UniqueKeys' /\ NewUnassigned' /\ SuccessorUnassigned' /\ AimsAtReference'
  <2>1. r \in Existing /\ r \in Requests
    BY DEF Addressed, Existing
  <2>2. \A q \in Requests : /\ request'[q].cluster = request[q].cluster
                            /\ request'[q].life = request[q].life
    BY <1>1, <1>3, <2>1 DEF TypeOK, RequestType
  <2>3. Existing' = Existing
    BY <2>2 DEF Existing
  <2>4. UniqueKeys' /\ NewUnassigned'
    BY <2>2, <2>3, ReferenceFrame
  <2>5. SuccessorUnassigned'
    BY <1>3, <2>1, <2>3 DEF SuccessorUnassigned, ReferenceInv, UniqueKeys
  <2>6. AimsAtReference'
    BY <1>3, <2>1, <2>2 DEF AimsAtReference, AfterFinalizer
  <2>7. QED
    BY <2>4, <2>5, <2>6
<1>4. CASE AddFinalizer
  BY <1>2, <1>3, <1>4 DEF AddFinalizer
<1>5. CASE GetReferenced
  <2>1. ASSUME NEW step \in {"status", "reclaim", "inspect"}, Goto(step, request[cur].cluster),
               UNCHANGED request
        PROVE  UniqueKeys' /\ NewUnassigned' /\ SuccessorUnassigned' /\ AimsAtReference'
    BY <1>1, <2>1, GoOnReference DEF Goto
  <2>2. QED
    BY <1>2, <1>5, <2>1 DEF GetReferenced
<1>6. CASE Schedule
  <2>1. request[cur].cluster = NoCluster
    BY <1>6 DEF Schedule, ReferenceInv, AimsAtReference
  <2>2. ASSUME NEW step \in {"status", "join", "inspect"}, NEW c, Goto(step, c), UNCHANGED request
        PROVE  UniqueKeys' /\ NewUnassigned' /\ SuccessorUnassigned' /\ AimsAtReference'
    BY <1>1, <2>1, <2>2, GoOnReference DEF Goto
  <2>3. QED
    BY <1>2, <1>6, <2>2 DEF Schedule
<1>7. CASE Reclaim \/ Join \/ Inspect \/ Create \/ Update
  <2>1. request[cur].cluster \in {NoCluster, target}
    BY <1>7 DEF Reclaim, Join, Inspect, Create, Update, ReferenceInv, AimsAtReference
  <2>2. ASSUME NEW step \in {"status", "create", "update"}, Goto(step, target), UNCHANGED request
        PROVE  UniqueKeys' /\ NewUnassigned' /\ SuccessorUnassigned' /\ AimsAtReference'
    BY <1>1, <2>1, <2>2, GoOnReference DEF Goto
  <2>3. QED
    BY <1>2, <1>7, <2>2 DEF Reclaim, Join, PatchIn, Inspect, Create, Update
<1>8. CASE UpdateStatus
  <2>1. Idle
    BY <1>8 DEF UpdateStatus, Requeue
  <2>2. CASE UNCHANGED request
    BY <2>1, <2>2, EndReference
  <2>3. CASE StatusPatch(target, "Granted")
    <3>1. \A r \in Requests : /\ request'[r].life = request[r].life
                              /\ r \notin Existing => request'[r] = request[r]
      BY <1>1, <2>3 DEF StatusPatch, Addressed, TypeOK, RequestType
    <3>2. Existing' = Existing
      BY <3>1 DEF Existing
    <3>3. UniqueKeys' /\ NewUnassigned'
      BY <3>1, <3>2 DEF ReferenceInv, UniqueKeys, NewUnassigned, Existing
    <3>4. QED
      BY <2>1, <3>3 DEF Idle, SuccessorUnassigned, AimsAtReference
  <2>4. QED
    BY <1>8, <2>2, <2>3 DEF UpdateStatus
<1>9. QED
  BY <1>4, <1>5, <1>6, <1>7, <1>8 DEF HandleCreateOrUpdate

\* Deletions and failures set none.
LEMMA DeleteReference ==
  ASSUME ReferenceInv, HandleDelete \/ Failure
  PROVE  UniqueKeys' /\ NewUnassigned' /\ SuccessorUnassigned' /\ AimsAtReference'
<1>1. TypeOK
  BY DEF ReferenceInv, TypeInv
<1>2. CASE Idle /\ (UNCHANGED request \/ (pc # "idle" /\ Fail))
  BY <1>2, EndReference
<1>3. CASE UNCHANGED <<request, cur>> /\ pc # "idle" /\ pc' \in {"release", "dispose"}
  BY <1>3, GoOnReference
<1>4. ASSUME NEW r \in Addressed, Idle,
             request' = [request EXCEPT ![r].finalizer = FALSE,
                           ![r].life = IF @ = "deleting" THEN "gone" ELSE @]
      PROVE  UniqueKeys' /\ NewUnassigned' /\ SuccessorUnassigned' /\ AimsAtReference'
  <2>1. r \in Requests
    BY DEF Addressed, Existing
  <2>2. \A q \in Requests : /\ request'[q].cluster = request[q].cluster
                            /\ request'[q].life \in {request[q].life, "gone"}
    BY <1>1, <1>4, <2>1 DEF TypeOK, RequestType
  <2>3. Existing' \subseteq Existing
    BY <2>2 DEF Existing
  <2>4. QED
    BY <1>4, <2>2, <2>3, ReferenceFrame DEF Idle
<1>5. CASE HandleDelete
  BY <1>2, <1>3, <1>4, <1>5
  DEF HandleDelete, ListOwned, Release, AfterRelease, Dispose, FinishDelete, Fail, Requeue
<1>6. CASE Failure
  BY <1>2, <1>3, <1>6
  DEF Failure, CallFails, ReleaseFails, AfterRelease, DisposeFails, Crash, Fail, Requeue
<1>7. QED
  BY <1>5, <1>6

\* Users create requests without reference; they, the providers and whoever strips
\* finalizers set none.
LEMMA OthersReference ==
  ASSUME ReferenceInv, Users \/ Providers
  PROVE  UniqueKeys' /\ NewUnassigned' /\ SuccessorUnassigned' /\ AimsAtReference'
<1>1. TypeOK
  BY DEF ReferenceInv, TypeInv
<1>2. UNCHANGED local
  BY DEF Users, CreateRequest, DeleteRequest, Trigger, RequestVanishes,
         Providers, DeleteCluster, ClusterVanishes, ProviderTakes, ProviderLeaves
<1>3. \A r \in Requests : request'[r].cluster = request[r].cluster
  <2>1. ASSUME NEW r \in Requests,
               CreateRequest(r) \/ DeleteRequest(r) \/ Trigger(r) \/ RequestVanishes(r)
        PROVE  \A q \in Requests : request'[q].cluster = request[q].cluster
    BY <1>1, <2>1 DEF CreateRequest, DeleteRequest, Trigger, RequestVanishes, TypeOK, RequestType
  <2>2. QED
    BY <2>1 DEF Users, Providers, DeleteCluster, ClusterVanishes, ProviderTakes, ProviderLeaves
<1>4. AimsAtReference'
  <2>1. pc \in {"schedule", "reclaim", "join", "inspect", "create", "update", "status"}
          => cur \in Requests
    BY DEF ReferenceInv, TypeInv, WorkerTyped
  <2>2. QED
    BY <1>2, <1>3, <2>1 DEF local, ReferenceInv, AimsAtReference
<1>5. CASE /\ Existing' \subseteq Existing
           /\ \A r \in Requests : request'[r].life = "new" => request[r].life = "new"
  <2>1. UniqueKeys' /\ NewUnassigned' /\ (pc # "idle" => SuccessorUnassigned')
    BY <1>2, <1>3, <1>5, ReferenceFrame DEF local
  <2>2. pc = "idle" => SuccessorUnassigned'
    BY <1>2 DEF local, SuccessorUnassigned
  <2>3. QED
    BY <1>4, <2>1, <2>2
<1>6. ASSUME NEW r \in Requests, CreateRequest(r)
      PROVE  UniqueKeys' /\ NewUnassigned' /\ SuccessorUnassigned' /\ AimsAtReference'
  <2>1. /\ request[r].life = "new" /\ request[r].cluster = NoCluster
        /\ \A q \in Existing : KeyOf[q] # KeyOf[r]
    BY <1>6 DEF CreateRequest, ReferenceInv, NewUnassigned
  <2>2. request'[r].life = "active" /\ \A q \in Requests \ {r} : request'[q] = request[q]
    BY <1>1, <1>6 DEF CreateRequest, TypeOK, RequestType
  <2>3. Existing' = Existing \cup {r}
    BY <2>2 DEF Existing
  <2>4. UniqueKeys' /\ NewUnassigned'
    BY <2>1, <2>2, <2>3 DEF ReferenceInv, UniqueKeys, NewUnassigned
  <2>5. SuccessorUnassigned'
    BY <1>2, <1>3, <2>1, <2>3 DEF local, ReferenceInv, SuccessorUnassigned, Existing
  <2>6. QED
    BY <1>4, <2>4, <2>5
<1>7. ASSUME NEW r \in Requests, DeleteRequest(r) \/ Trigger(r) \/ RequestVanishes(r)
      PROVE  /\ Existing' \subseteq Existing
             /\ \A q \in Requests : request'[q].life = "new" => request[q].life = "new"
  <2>1. \A q \in Requests \ {r} : request'[q] = request[q]
    BY <1>1, <1>7 DEF DeleteRequest, Trigger, RequestVanishes, TypeOK
  <2>2. \/ request'[r].life = request[r].life
        \/ r \in Existing /\ request'[r].life # "new"
    <3>1. CASE DeleteRequest(r)
      BY <1>1, <3>1 DEF DeleteRequest, Existing, TypeOK, RequestType
    <3>2. CASE RequestVanishes(r)
      BY <1>1, <3>2 DEF RequestVanishes, Existing, TypeOK, RequestType
    <3>3. CASE UNCHANGED request
      BY <3>3
    <3>4. QED
      BY <1>7, <3>1, <3>2, <3>3 DEF Trigger
  <2>3. QED
    BY <2>1, <2>2 DEF Existing
<1>8. CASE Users
  BY <1>5, <1>6, <1>7, <1>8 DEF Users
<1>9. CASE UNCHANGED request
  BY <1>1, <1>5, <1>9 DEF Existing
<1>10. QED
  BY <1>8, <1>9 DEF Providers, DeleteCluster, ClusterVanishes, ProviderTakes, ProviderLeaves

\* The worker starts on a request that is the only one with its key.
LEMMA DequeueReference ==
  ASSUME ReferenceInv, NEW k \in Keys, Dequeue(k)
  PROVE  UniqueKeys' /\ NewUnassigned' /\ SuccessorUnassigned' /\ AimsAtReference'
<1>1. UNCHANGED request /\ pc = "idle" /\ Existing' = Existing
  BY DEF Dequeue, Existing
<1>2. UniqueKeys' /\ NewUnassigned'
  BY <1>1, QuietRequests, ReferenceFrame DEF ReferenceInv
<1>3. CASE UNCHANGED local
  BY <1>1, <1>2, <1>3 DEF local, SuccessorUnassigned, AimsAtReference
<1>4. ASSUME NEW r \in Existing, cur' = r,
             pc' = CASE request[r].life = "deleting" -> "list"
                     [] request[r].life = "active" /\ ~request[r].finalizer -> "addFinalizer"
                     [] OTHER -> AfterFinalizer(r)
      PROVE  SuccessorUnassigned' /\ AimsAtReference'
  <2>1. SuccessorUnassigned'
    BY <1>1, <1>4 DEF SuccessorUnassigned, ReferenceInv, UniqueKeys
  <2>2. pc' \in {"list", "addFinalizer", "schedule", "getReferenced"}
        /\ (pc' = "schedule" => request[r].cluster = NoCluster)
    BY <1>4 DEF AfterFinalizer
  <2>3. QED
    BY <1>1, <1>4, <2>1, <2>2 DEF AimsAtReference
<1>5. QED
  BY <1>2, <1>3, <1>4 DEF Dequeue

\* ReferenceIsKept, whatever anybody strips: the scheduler never writes a status that
\* the schema refuses because the request that has the key by then, be it another one
\* than it was, already refers to another cluster.
THEOREM ReferenceIsKeptAlways == Spec => []ReferenceIsKept
<1>1. Init => ReferenceInv
  <2> SUFFICES ASSUME Init PROVE ReferenceInv
    OBVIOUS
  <2>1. \A r \in Requests : request[r].life = "new" /\ request[r].cluster = NoCluster
    BY DEF Init
  <2>2. UniqueKeys /\ NewUnassigned
    BY <2>1 DEF UniqueKeys, NewUnassigned, Existing
  <2>3. SuccessorUnassigned /\ AimsAtReference
    BY DEF Init, SuccessorUnassigned, AimsAtReference
  <2>4. QED
    BY <2>2, <2>3, TypeInit DEF ReferenceInv
<1>2. ReferenceInv /\ [Next]_vars => ReferenceInv'
  <2> SUFFICES ASSUME ReferenceInv, [Next]_vars PROVE ReferenceInv'
    OBVIOUS
  <2>1. TypeInv'
    BY TypeNext DEF ReferenceInv
  <2>2. UniqueKeys' /\ NewUnassigned' /\ SuccessorUnassigned' /\ AimsAtReference'
    <3>1. CASE UNCHANGED vars
      BY <3>1 DEF vars, ReferenceInv, UniqueKeys, NewUnassigned, SuccessorUnassigned,
                  AimsAtReference, Existing
    <3>2. QED
      BY <3>1, CreateOrUpdateReference, DeleteReference, OthersReference, DequeueReference
      DEF Next, Reconcile
  <2>3. QED
    BY <2>1, <2>2 DEF ReferenceInv
<1>3. ReferenceInv => ReferenceIsKept
  BY DEF ReferenceInv, SuccessorUnassigned, AimsAtReference, ReferenceIsKept, Addressed
<1>4. QED
  BY <1>1, <1>2, <1>3, PTL DEF Spec

-----------------------------------------------------------------------------
(* The finalizer discipline.  As long as nobody strips the finalizers of    *)
(* requests, the finalizers on Clusters are exactly the slots in use: the   *)
(* next invariant says what every interruption leaves behind (Objects,      *)
(* Holding) and what the worker may rely on between two calls               *)
(* (InCreateOrUpdate, InDelete).  A Cluster may still be lost with all its  *)
(* finalizers; unless one is, granted requests also keep their slots.       *)

Discipline == ~RequestsMayVanish

Lossless == Discipline /\ ~ClustersMayVanish

Objects ==
  /\ \A c \in Clusters : cluster[c].state = "absent" => cluster[c].finalizers = {}
  /\ \A r \in Requests : request[r].life = "deleting" => request[r].finalizer
  /\ \A r \in Requests : request[r].life = "new" => request[r].cluster = NoCluster
  /\ \A r, s \in Existing : KeyOf[r] = KeyOf[s] => r = s

\* Cluster c, with contents obj, is the one that r refers to or, as long as it has no
\* reference, one that Recoverable finds.
Suits(r, c, obj) ==
  IF request[r].cluster = NoCluster
    THEN PurposeOf[r] \in PurposesOf(obj)
    ELSE request[r].cluster = c

\* A finalizer on a cluster belongs to a request that carries the scheduler's
\* finalizer and can find the cluster again.
Holding ==
  \A c \in Clusters : \A r \in Tenants(c) : request[r].finalizer /\ Suits(r, c, cluster[c])

HoldsNothing(r) == \A c \in Clusters : r \notin Tenants(c)

InCreateOrUpdate ==
  /\ pc = "getReferenced" /\ ~ClustersMayVanish => cur \in Tenants(request[cur].cluster)
  /\ pc = "reclaim" => ClustersMayVanish /\ request[cur].cluster = target
  /\ pc \in {"schedule", "join"} => request[cur].cluster = NoCluster
  /\ pc \in {"inspect", "create", "update"} =>
       /\ request[cur].cluster \in {NoCluster, target}
       /\ ClustersMayVanish \/ request[cur].cluster = NoCluster
  /\ pc \in {"reclaim", "join", "inspect", "create", "update"} => HoldsNothing(cur)
  /\ pc \in {"reclaim", "join"} /\ target \in Present => TenantsOf(view[target]) = Tenants(target)
  /\ pc = "join" /\ target \in Present => PurposeOf[cur] \in PurposesOf(cluster[target])
  /\ pc = "update" => TenantsOf(view[target]) = {} /\ drop = {}
  /\ pc = "status" =>
       /\ request[cur].cluster \in {NoCluster, target}
       /\ ClustersMayVanish \/ cur \in Tenants(target)
       /\ \A c \in Clusters : cur \in Tenants(c) => c = target

InDelete ==
  /\ pc \in {"list", "release", "dispose"} => request[cur].life = "deleting"
  /\ pc = "dispose" => target \in todo /\ Tenants(target) \subseteq {cur}
  /\ pc \in {"release", "dispose"} => \A c \in todo :
       \/ pc = "dispose" /\ c = target
       \/ c \notin Present
       \/ TenantsOf(view[c]) = Tenants(c)
  /\ pc \in {"release", "dispose"} /\ ~failed => \A c \in Clusters : cur \in Tenants(c) => c \in todo
  /\ pc = "dispose" /\ ~failed => cur \notin Tenants(target)

GrantsKept == ~ClustersMayVanish => GrantedIsHeld

Store == Objects /\ Holding /\ AtMostOneCluster /\ GrantsKept

WorkerInv ==
  /\ pc \notin {"idle", "addFinalizer"} => request[cur].finalizer
  /\ InCreateOrUpdate
  /\ InDelete

DisciplineInv == TypeInv /\ Store /\ WorkerInv

\* While no cluster is lost, the worker never has to recover one.
LEMMA NoRecoveryNeeded ==
  ASSUME Lossless, DisciplineInv
  PROVE  /\ pc # "reclaim"
         /\ pc = "status" => cur \in Tenants(target)
BY DEF Lossless, DisciplineInv, WorkerInv, InCreateOrUpdate

\* Between Dequeue and the end, nobody but `cur' has its key.
LEMMA AddressesItself ==
  ASSUME DisciplineInv, pc \notin {"idle", "addFinalizer"}
  PROVE  cur \in Existing /\ Addressed = {cur}
<1>1. cur \in Requests /\ request[cur].finalizer
  BY DEF DisciplineInv, TypeInv, WorkerTyped, WorkerInv
<1>2. cur \in Existing
  BY <1>1 DEF DisciplineInv, TypeInv, TypeOK, RequestType, Existing
<1>3. QED
  BY <1>2 DEF Addressed, DisciplineInv, Store, Objects

\* An idle worker has no obligations.
LEMMA IdleWorker ==
  ASSUME Idle
  PROVE  WorkerInv'
BY DEF Idle, WorkerInv, InCreateOrUpdate, InDelete

\* Steps that change neither clusters nor what the store says of a request.
LEMMA StoreFrame ==
  ASSUME Store, UNCHANGED cluster,
         \A r \in Requests : /\ request'[r].life = request[r].life
                             /\ request'[r].finalizer = request[r].finalizer
                             /\ request'[r].cluster = request[r].cluster
  PROVE  Store'
<1>1. Existing' = Existing /\ Present' = Present /\ \A c : Tenants(c)' = Tenants(c)
  BY DEF Existing, Present, Tenants
<1>2. Objects'
  BY <1>1 DEF Store, Objects, Existing
<1>3. Holding'
  BY <1>1 DEF Store, Holding, Suits, Tenants, TenantsOf
<1>4. AtMostOneCluster'
  BY <1>1 DEF Store, AtMostOneCluster
<1>5. GrantsKept'
  BY <1>1 DEF Store, GrantsKept, GrantedIsHeld
<1>6. QED
  BY <1>2, <1>3, <1>4, <1>5 DEF Store

\* A reconciliation that ends with an error leaves the finalizers as they are and
\* takes no reference back.
LEMMA FailDiscipline ==
  ASSUME DisciplineInv, pc # "idle", Fail, UNCHANGED cluster
  PROVE  Store' /\ WorkerInv'
<1>1. \A r \in Requests : /\ request'[r].life = request[r].life
                          /\ request'[r].finalizer = request[r].finalizer
                          /\ request'[r].cluster = request[r].cluster
  BY DEF Fail, StatusPatch, DisciplineInv, TypeInv, TypeOK, RequestType
<1>2. QED
  BY <1>1, StoreFrame, IdleWorker DEF Fail, Requeue, DisciplineInv

\* What a patch of the finalizers of an existing cluster does.
LEMMA PatchEffect ==
  ASSUME cluster \in [Clusters -> ClusterType], NEW c \in Clusters,
         NEW fins \in SUBSET Finalizers, cluster[c].state # "absent", PatchFinalizers(c, fins)
  PROVE  /\ \A d \in Clusters \ {c} : cluster'[d] = cluster[d]
         /\ cluster'[c].finalizers = fins
         /\ cluster'[c].state = "absent" => fins = {}
         /\ fins # {} => /\ cluster'[c].template = cluster[c].template
                         /\ cluster'[c].state = cluster[c].state
BY DEF PatchFinalizers, WithFinalizers, ClusterType, Absent

\* The cluster `c' gains the finalizer of a request that held nothing, and that
\* refers to no other cluster.
LEMMA Gain ==
  ASSUME Store, TypeOK, NEW r \in Existing, NEW c \in Clusters, UNCHANGED request,
         request[r].finalizer, HoldsNothing(r),
         \A d \in Clusters \ {c} : cluster'[d] = cluster[d],
         cluster'[c].state # "absent",
         TenantsOf(cluster'[c]) = Tenants(c) \cup {r},
         \A s \in TenantsOf(cluster'[c]) : Suits(s, c, cluster'[c])
  PROVE  Store'
<1> USE DEF Store
<1>1. r \in Requests /\ Existing' = Existing
  BY DEF Existing
<1>0. Tenants(c)' = Tenants(c) \cup {r}
  BY DEF Tenants
<1>2. \A d \in Clusters \ {c} : Tenants(d)' = Tenants(d)
  BY DEF Tenants
<1>3. Objects'
  BY <1>1 DEF Objects, Existing
<1>4. Holding'
  BY <1>0, <1>2 DEF Holding, Suits
<1>5. AtMostOneCluster'
  BY <1>0, <1>1, <1>2 DEF AtMostOneCluster, HoldsNothing
<1>6. \A d \in Clusters : d \in Present => d \in Present'
  BY DEF Present
<1>7. GrantsKept'
  BY <1>0, <1>2, <1>6, SchedulerAssumption DEF GrantsKept, GrantedIsHeld, Present
<1>8. QED
  BY <1>3, <1>4, <1>5, <1>7

\* Joining a cluster, or one the request refers to: nobody else is expelled, since
\* only the worker adds or removes request finalizers between the read and the patch.
LEMMA JoinDiscipline ==
  ASSUME DisciplineInv, Join \/ Reclaim
  PROVE  Store' /\ WorkerInv'
<1> DEFINE fins == view[target].finalizers \cup {cur}
<1> USE DEF DisciplineInv
<1>1. pc \in {"join", "reclaim"} /\ cur \in Requests /\ target \in Clusters /\ TypeOK
  BY DEF Join, Reclaim, TypeInv, WorkerTyped, Targeting
<1>2. CASE Fail /\ UNCHANGED cluster
  BY <1>1, <1>2, FailDiscipline
<1>3. CASE /\ Accepts(target, fins)
           /\ PatchFinalizers(target, fins)
           /\ Goto("status", target)
           /\ UNCHANGED <<request, queue, view, drop, todo, faults>>
  <2>1. cluster[target].state # "absent" /\ target \in Present
    BY <1>1, <1>3 DEF Accepts, Present
  <2>2. /\ HoldsNothing(cur) /\ request[cur].cluster \in {NoCluster, target} /\ request[cur].finalizer
        /\ TenantsOf(view[target]) = Tenants(target)
        /\ request[cur].cluster = NoCluster => PurposeOf[cur] \in PurposesOf(cluster[target])
    BY <1>1, <2>1, SchedulerAssumption DEF WorkerInv, InCreateOrUpdate
  <2>3. fins \in SUBSET Finalizers /\ fins # {}
    BY <1>1 DEF TypeOK, ClusterType, Finalizers
  <2>4. /\ \A d \in Clusters \ {target} : cluster'[d] = cluster[d]
        /\ cluster'[target].finalizers = fins
        /\ cluster'[target].template = cluster[target].template
        /\ cluster'[target].state = cluster[target].state
    BY <1>1, <1>3, <2>1, <2>3, PatchEffect DEF TypeOK
  <2>5. TenantsOf(cluster'[target]) = Tenants(target) \cup {cur}
    BY <1>1, <2>2, <2>4 DEF Tenants, TenantsOf
  <2>6. ASSUME NEW s \in TenantsOf(cluster'[target])
        PROVE  Suits(s, target, cluster'[target])
    <3>1. PurposesOf(cluster'[target]) = PurposesOf(cluster[target])
      BY <2>4 DEF PurposesOf
    <3>2. CASE s = cur
      BY <2>2, <3>1, <3>2 DEF Suits
    <3>3. CASE s # cur
      BY <1>1, <2>5, <2>6, <3>1, <3>3 DEF Store, Holding, Suits
    <3>4. QED
      BY <3>2, <3>3
  <2>7. cur \in Existing
    BY <1>1, AddressesItself
  <2>8. Store'
    BY <1>1, <1>3, <2>1, <2>2, <2>4, <2>5, <2>6, <2>7, Gain
  <2>9. \A d \in Clusters : cur \in TenantsOf(cluster'[d]) => d = target
    BY <1>1, <2>2, <2>4 DEF HoldsNothing, Tenants
  <2>10. WorkerInv'
    BY <1>1, <1>3, <2>2, <2>5, <2>9 DEF Goto, WorkerInv, InCreateOrUpdate, InDelete, Tenants
  <2>11. QED
    BY <2>8, <2>10
<1>4. QED
  BY <1>2, <1>3 DEF Join, Reclaim, PatchIn

\* Creating a cluster: the request held nothing before.
LEMMA CreateDiscipline ==
  ASSUME DisciplineInv, Create
  PROVE  Store' /\ WorkerInv'
<1> USE DEF DisciplineInv
<1>1. pc = "create" /\ cur \in Requests /\ target \in Clusters /\ TypeOK /\ PurposeOf[cur] \in Mapped
  BY DEF Create, TypeInv, WorkerTyped, Targeting
<1>2. CASE Fail /\ UNCHANGED cluster
  BY <1>1, <1>2, FailDiscipline
<1>3. CASE /\ target \notin Present
           /\ cluster' = [cluster EXCEPT ![target] = NewCluster(cur)]
           /\ Goto("status", target)
           /\ UNCHANGED <<request, queue, view, drop, todo, faults>>
  <2>1. HoldsNothing(cur) /\ request[cur].cluster \in {NoCluster, target} /\ request[cur].finalizer
    BY <1>1 DEF WorkerInv, InCreateOrUpdate
  <2>2. Tenants(target) = {}
    BY <1>1, <1>3 DEF Present, Store, Objects, Tenants, TenantsOf
  <2>3. /\ \A d \in Clusters \ {target} : cluster'[d] = cluster[d]
        /\ cluster'[target] = NewCluster(cur)
    BY <1>1, <1>3 DEF TypeOK
  <2>4. TenantsOf(cluster'[target]) = {cur} /\ PurposeOf[cur] \in PurposesOf(cluster'[target])
        /\ cluster'[target].state # "absent"
    BY <1>1, <2>3 DEF NewCluster, Tenants, TenantsOf, PurposesOf
  <2>5. Suits(cur, target, cluster'[target])
    BY <1>3, <2>1, <2>4 DEF Suits
  <2>6. Store'
    BY <1>1, <1>3, <2>1, <2>2, <2>3, <2>4, <2>5, AddressesItself, Gain
  <2>7. \A d \in Clusters : cur \in TenantsOf(cluster'[d]) => d = target
    BY <2>1, <2>3 DEF HoldsNothing, Tenants
  <2>8. WorkerInv'
    BY <1>1, <1>3, <2>1, <2>4, <2>7 DEF Goto, WorkerInv, InCreateOrUpdate, InDelete, Tenants
  <2>9. QED
    BY <2>6, <2>8
<1>4. QED
  BY <1>2, <1>3 DEF Create

\* Taking over an existing cluster: the conflict check lets pass only clusters
\* without tenants.
LEMMA UpdateDiscipline ==
  ASSUME DisciplineInv, Update
  PROVE  Store' /\ WorkerInv'
<1> DEFINE fins == (view[target].finalizers \ drop) \cup {cur}
           new  == [NewCluster(cur) EXCEPT !.finalizers = fins, !.state = view[target].state]
<1> USE DEF DisciplineInv
<1>1. pc = "update" /\ cur \in Requests /\ target \in Clusters /\ TypeOK /\ PurposeOf[cur] \in Mapped
  BY DEF Update, TypeInv, WorkerTyped, Targeting
<1>2. CASE Fail /\ UNCHANGED cluster
  BY <1>1, <1>2, FailDiscipline
<1>3. CASE /\ cluster[target] = view[target] /\ Accepts(target, fins)
           /\ cluster' = [cluster EXCEPT ![target] = new]
           /\ Goto("status", target)
           /\ UNCHANGED <<request, queue, view, drop, todo, faults>>
  <2>1. HoldsNothing(cur) /\ request[cur].cluster \in {NoCluster, target} /\ request[cur].finalizer
    BY <1>1 DEF WorkerInv, InCreateOrUpdate
  <2>2. TenantsOf(view[target]) = {} /\ Tenants(target) = {}
    BY <1>1, <1>3 DEF WorkerInv, InCreateOrUpdate, Tenants
  <2>3. /\ \A d \in Clusters \ {target} : cluster'[d] = cluster[d]
        /\ cluster'[target] = new
    BY <1>1, <1>3 DEF TypeOK
  <2>4. /\ cluster'[target].finalizers = fins
        /\ cluster'[target].template = PurposeOf[cur]
        /\ cluster'[target].state = cluster[target].state
    <3>1. /\ new.finalizers = fins
          /\ new.template = PurposeOf[cur]
          /\ new.state = view[target].state
      BY DEF NewCluster
    <3>2. QED
      BY <1>3, <2>3, <3>1
  <2>5. TenantsOf(cluster'[target]) = {cur} /\ PurposeOf[cur] \in PurposesOf(cluster'[target])
    BY <1>1, <2>2, <2>4 DEF Tenants, TenantsOf, PurposesOf
  <2>6. cluster'[target].state # "absent"
    BY <1>3, <2>4 DEF Accepts
  <2>7. Suits(cur, target, cluster'[target])
    BY <1>3, <2>1, <2>5 DEF Suits
  <2>8. Store'
    BY <1>1, <1>3, <2>1, <2>2, <2>3, <2>5, <2>6, <2>7, AddressesItself, Gain
  <2>9. \A d \in Clusters : cur \in TenantsOf(cluster'[d]) => d = target
    BY <2>1, <2>3 DEF HoldsNothing, Tenants
  <2>10. WorkerInv'
    BY <1>1, <1>3, <2>1, <2>5, <2>9 DEF Goto, WorkerInv, InCreateOrUpdate, InDelete, Tenants
  <2>11. QED
    BY <2>8, <2>10
<1>4. QED
  BY <1>2, <1>3 DEF Update

\* Steps that only read the clusters, apart from moving the worker.
LEMMA ReadDiscipline ==
  ASSUME DisciplineInv, AddFinalizer \/ GetReferenced \/ Schedule \/ Inspect
  PROVE  Store' /\ WorkerInv'
<1> USE DEF DisciplineInv
<1>1. TypeOK /\ cur \in Requests /\ pc # "idle"
  BY DEF TypeInv, WorkerTyped, AddFinalizer, GetReferenced, Schedule, Inspect
<1>2. CASE AddFinalizer
  <2>1. CASE Fail /\ UNCHANGED <<cluster, faults>>
    BY <1>1, <2>1, FailDiscipline
  <2>2. ASSUME NEW r \in Addressed, request[r].life = "active",
               request' = [request EXCEPT ![r].finalizer = TRUE],
               cur' = r, pc' = AfterFinalizer(r),
               UNCHANGED <<queue, target, view, drop, todo, failed, cluster, faults>>
        PROVE  Store' /\ WorkerInv'
    <3>1. r \in Requests
      BY DEF Addressed, Existing
    <3>2. \A q \in Requests : /\ request'[q].life = request[q].life
                              /\ request'[q].cluster = request[q].cluster
                              /\ request[q].finalizer => request'[q].finalizer
      BY <1>1, <2>2 DEF TypeOK, RequestType
    <3>3. request'[r].finalizer
      BY <1>1, <2>2, <3>1 DEF TypeOK, RequestType
    <3>4. Existing' = Existing /\ Present' = Present /\ \A c \in Clusters : Tenants(c)' = Tenants(c)
      BY <2>2, <3>2 DEF Existing, Present, Tenants
    <3>5. Store'
      <4>1. Objects'
        BY <2>2, <3>2, <3>4 DEF Store, Objects
      <4>2. Holding'
        BY <2>2, <3>2, <3>4 DEF Store, Holding, Suits, Tenants, TenantsOf
      <4>3. AtMostOneCluster'
        BY <3>4 DEF Store, AtMostOneCluster
      <4>4. GrantsKept'
        BY <3>2, <3>4, SchedulerAssumption DEF Store, GrantsKept, GrantedIsHeld, Present
      <4>5. QED
        BY <4>1, <4>2, <4>3, <4>4 DEF Store
    <3>6. request[r].cluster # NoCluster /\ ~ClustersMayVanish => r \in Tenants(request[r].cluster)
      BY <2>2, <3>1 DEF Store, GrantsKept, GrantedIsHeld
    <3>7. pc' \in {"schedule", "getReferenced"}
          /\ (pc' = "schedule" => request'[r].cluster = NoCluster)
          /\ (pc' = "getReferenced" /\ ~ClustersMayVanish
                => r \in TenantsOf(cluster'[request'[r].cluster]))
      BY <2>2, <3>1, <3>2, <3>6 DEF AfterFinalizer, Tenants
    <3>8. QED
      BY <2>2, <3>3, <3>5, <3>7 DEF WorkerInv, InCreateOrUpdate, InDelete, Tenants
  <2>3. QED
    BY <1>2, <2>1, <2>2 DEF AddFinalizer
<1>3. CASE GetReferenced
  <2> DEFINE c == request[cur].cluster
  <2>1. /\ c \in Clusters /\ c # NoCluster /\ request[cur].finalizer
        /\ ~ClustersMayVanish => cur \in Tenants(c) /\ c \in Present
        /\ c \notin Present => cur \notin Tenants(c)
        /\ \A d \in Clusters : cur \in Tenants(d) => d = c
    BY <1>1, <1>3, SchedulerAssumption
    DEF GetReferenced, WorkerInv, InCreateOrUpdate, TypeInv, WorkerTyped, Store, Objects, Holding,
        Suits, Present, Tenants, TenantsOf
  <2>2. CASE Fail /\ UNCHANGED cluster
    BY <1>1, <2>2, FailDiscipline
  <2>3. ASSUME UNCHANGED <<request, cluster>>,
               \/ cur \in Tenants(c) /\ Goto("status", c)
               \/ /\ cur \notin Tenants(c) /\ ClustersMayVanish
                  /\ \/ Goto("reclaim", c) /\ view' = Snapshot({c})
                     \/ Goto("inspect", c)
        PROVE  Store' /\ WorkerInv'
    <3>1. Store' /\ UNCHANGED <<request, cluster>>
      BY <2>3, StoreFrame
    <3>2. CASE cur \in Tenants(c) /\ Goto("status", c)
      BY <2>1, <3>1, <3>2 DEF Goto, WorkerInv, InCreateOrUpdate, InDelete, Tenants
    <3>3. CASE cur \notin Tenants(c) /\ ClustersMayVanish /\ Goto("reclaim", c) /\ view' = Snapshot({c})
      <4>1. view'[c] = cluster[c] \/ c \notin Present
        BY <2>1, <3>3 DEF Snapshot
      <4>2. QED
        BY <2>1, <3>1, <3>3, <4>1
        DEF Goto, WorkerInv, InCreateOrUpdate, InDelete, HoldsNothing, Tenants, Present
    <3>4. CASE cur \notin Tenants(c) /\ ClustersMayVanish /\ Goto("inspect", c)
      BY <2>1, <3>1, <3>4 DEF Goto, WorkerInv, InCreateOrUpdate, InDelete, HoldsNothing, Tenants
    <3>5. QED
      BY <2>3, <3>2, <3>3, <3>4
  <2>4. QED
    BY <1>3, <2>1, <2>2, <2>3 DEF GetReferenced
<1>4. CASE Schedule
  <2>1. CASE Fail /\ UNCHANGED <<cluster, faults>>
    BY <1>1, <2>1, FailDiscipline
  <2>2. request[cur].finalizer /\ request[cur].cluster = NoCluster
    BY <1>4 DEF Schedule, WorkerInv, InCreateOrUpdate
  <2>3. Recoverable(cur) = {} => HoldsNothing(cur)
    BY <2>2 DEF Recoverable, Relevant, HoldsNothing, Store, Objects, Holding, Suits, Present, Tenants, TenantsOf
  <2>4. ASSUME NEW c, UNCHANGED <<request, cluster>>,
               \/ c \in Recoverable(cur) /\ Goto("status", c)
               \/ /\ Recoverable(cur) = {}
                  /\ \/ c \in Relevant(cur) /\ Goto("join", c) /\ view' = Snapshot({c})
                     \/ Goto("inspect", c)
        PROVE  Store' /\ WorkerInv'
    <3>0. UNCHANGED <<request, cluster>>
      BY <2>4
    <3>1. Store'
      BY <3>0, StoreFrame
    <3>2. CASE c \in Recoverable(cur) /\ Goto("status", c)
      <4>1. cur \in Tenants(c) /\ c \in Clusters
        BY <3>2 DEF Recoverable, Relevant, Present
      <4>2. \A d \in Clusters : cur \in Tenants(d) => d = c
        BY <1>1, <4>1 DEF Store, AtMostOneCluster
      <4>3. QED
        BY <2>2, <3>0, <3>1, <3>2, <4>1, <4>2 DEF Goto, WorkerInv, InCreateOrUpdate, InDelete, Tenants
    <3>3. CASE HoldsNothing(cur) /\ c \in Relevant(cur) /\ Goto("join", c) /\ view' = Snapshot({c})
      <4>1. view'[c] = cluster[c] /\ PurposeOf[cur] \in PurposesOf(cluster[c])
        BY <3>3 DEF Snapshot, Relevant, Present
      <4>2. QED
        BY <2>2, <3>0, <3>1, <3>3, <4>1 DEF Goto, WorkerInv, InCreateOrUpdate, InDelete, HoldsNothing, Tenants
    <3>4. CASE HoldsNothing(cur) /\ Goto("inspect", c)
      BY <2>2, <3>0, <3>1, <3>4 DEF Goto, WorkerInv, InCreateOrUpdate, InDelete, HoldsNothing, Tenants
    <3>5. QED
      BY <2>3, <2>4, <3>2, <3>3, <3>4
  <2>5. Choices(Candidates(cur)) \subseteq Relevant(cur)
    BY DEF Choices, Candidates
  <2>6. QED
    BY <1>4, <2>1, <2>4, <2>5 DEF Schedule
<1>5. CASE Inspect
  <2>1. CASE Fail /\ UNCHANGED <<cluster, faults>>
    BY <1>1, <2>1, FailDiscipline
  <2>2. /\ request[cur].finalizer
        /\ request[cur].cluster \in {NoCluster, target}
        /\ ClustersMayVanish \/ request[cur].cluster = NoCluster
        /\ HoldsNothing(cur) /\ target \in Clusters
    <3>1. pc = "inspect"
      BY <1>5 DEF Inspect
    <3>2. QED
      BY <3>1 DEF WorkerInv, InCreateOrUpdate, TypeInv, WorkerTyped, Targeting
  <2>3. CASE Goto("create", target) /\ UNCHANGED <<request, cluster>>
    BY <2>2, <2>3, StoreFrame DEF Goto, WorkerInv, InCreateOrUpdate, InDelete, HoldsNothing, Tenants
  <2>4. ASSUME NEW d \in {{}} \cup {{q} : q \in Tenants(target) \ {cur}},
               d = {} => Tenants(target) \ {cur} = {} \/ cur \in Tenants(target),
               d \cap Existing = {} \/ cur \in Tenants(target),
               drop' = d, Goto("update", target), view' = Snapshot({target}),
               UNCHANGED <<request, cluster>>
        PROVE  Store' /\ WorkerInv'
    <3>1. cur \notin Tenants(target)
      BY <2>2 DEF HoldsNothing
    <3>2. Tenants(target) \subseteq Existing
      BY <1>1, <2>2 DEF Store, Holding, Suits, Existing, Tenants, TenantsOf, TypeOK, RequestType
    <3>3. d = {} /\ Tenants(target) = {}
      BY <2>4, <3>1, <3>2
    <3>4. view'[target] = cluster[target]
      BY <2>2, <2>4 DEF Snapshot
    <3>5. QED
      BY <2>2, <2>4, <3>3, <3>4, StoreFrame
      DEF Goto, WorkerInv, InCreateOrUpdate, InDelete, HoldsNothing, Tenants
  <2>5. QED
    BY <1>5, <2>1, <2>3, <2>4 DEF Inspect
<1>6. QED
  BY <1>2, <1>3, <1>4, <1>5

\* Writing the status: the cluster it names carries the finalizer by then.
LEMMA StatusDiscipline ==
  ASSUME DisciplineInv, UpdateStatus
  PROVE  Store' /\ WorkerInv'
<1> USE DEF DisciplineInv
<1>1. TypeOK /\ cur \in Requests /\ target \in Clusters
  BY DEF TypeInv, WorkerTyped, Targeting, UpdateStatus
<1>2. WorkerInv'
  BY IdleWorker DEF UpdateStatus, Requeue
<1>3. CASE UNCHANGED <<request, cluster>>
  BY <1>2, <1>3, StoreFrame
<1>4. CASE StatusPatch(target, "Granted") /\ UNCHANGED cluster
  <2>1. cur \in Existing /\ Addressed = {cur}
    BY AddressesItself DEF UpdateStatus
  <2>2. /\ \A c \in Clusters : cur \in Tenants(c) => c = target
        /\ ~ClustersMayVanish => cur \in Tenants(target) /\ target \in Present
    BY <1>1 DEF UpdateStatus, WorkerInv, InCreateOrUpdate, Store, Objects, Present, Tenants, TenantsOf
  <2>3. \A r \in Requests : /\ request'[r].life = request[r].life
                            /\ request'[r].finalizer = request[r].finalizer
    BY <1>1, <1>4 DEF StatusPatch, TypeOK, RequestType
  <2>4. \A r \in Requests \ {cur} : request'[r].cluster = request[r].cluster
    BY <1>4, <2>1 DEF StatusPatch
  <2>5. request'[cur].cluster = target
    BY <1>1, <1>4, <2>1 DEF StatusPatch, TypeOK, RequestType
  <2>6. Existing' = Existing /\ Present' = Present /\ \A c \in Clusters : Tenants(c)' = Tenants(c)
    BY <1>4, <2>3 DEF Existing, Present, Tenants
  <2>7. Objects'
    BY <1>4, <2>1, <2>3, <2>4, <2>6 DEF Store, Objects, Existing
  <2>8. Holding' /\ AtMostOneCluster'
    <3>1. ASSUME NEW c \in Clusters, NEW r \in Tenants(c)
          PROVE  request'[r].finalizer /\ Suits(r, c, cluster[c])'
      <4>1. r \in Requests /\ request[r].finalizer /\ Suits(r, c, cluster[c])
        BY <3>1 DEF Store, Holding, Tenants, TenantsOf
      <4>2. CASE r = cur
        BY <1>1, <2>2, <2>3, <2>5, <3>1, <4>1, <4>2, SchedulerAssumption DEF Suits
      <4>3. CASE r # cur
        BY <1>4, <2>3, <2>4, <4>1, <4>3 DEF Suits
      <4>4. QED
        BY <4>2, <4>3
    <3>2. Holding'
      BY <2>6, <3>1 DEF Holding
    <3>3. QED
      BY <2>6, <3>2 DEF Store, AtMostOneCluster
  <2>9. GrantsKept'
    <3> SUFFICES ASSUME ~ClustersMayVanish, NEW r \in Requests,
                        request'[r].life = "active", request'[r].cluster # NoCluster
                 PROVE  request'[r].cluster \in Present' /\ r \in TenantsOf(cluster'[request'[r].cluster])
      BY DEF GrantsKept, GrantedIsHeld, Tenants
    <3>1. CASE r = cur
      BY <1>4, <2>2, <2>5, <2>6, <3>1 DEF Tenants
    <3>2. CASE r # cur
      BY <1>4, <2>3, <2>4, <2>6, <3>2 DEF Store, GrantsKept, GrantedIsHeld, Tenants
    <3>3. QED
      BY <3>1, <3>2
  <2>10. QED
    BY <1>2, <2>7, <2>8, <2>9 DEF Store
<1>5. QED
  BY <1>3, <1>4 DEF UpdateStatus

\* Steps that lose tenants of `cur' only, or none, and no cluster with tenants.
LEMMA Loss ==
  ASSUME Store, TypeOK, NEW r \in Requests, UNCHANGED request,
         request[r].life = "deleting",
         \A c \in Clusters :
           /\ TenantsOf(cluster'[c]) \in {Tenants(c), Tenants(c) \ {r}}
           /\ cluster'[c].state = "absent" => cluster'[c].finalizers = {}
           /\ cluster'[c].finalizers # {} => cluster'[c].template = cluster[c].template
  PROVE  Store'
<1>1. Existing' = Existing
  BY DEF Existing
<1>2. \A c \in Clusters : Tenants(c)' \subseteq Tenants(c)
  BY DEF Tenants
<1>3. Objects'
  BY <1>1 DEF Store, Objects, Existing
<1>4. ASSUME NEW c \in Clusters, NEW s \in Tenants(c)'
      PROVE  request'[s].finalizer /\ Suits(s, c, cluster[c])'
  <2>1. request[s].finalizer /\ Suits(s, c, cluster[c])
    BY <1>2, <1>4 DEF Store, Holding
  <2>2. PurposesOf(cluster'[c]) = PurposesOf(cluster[c])
    BY <1>4 DEF PurposesOf, Tenants, TenantsOf
  <2>3. QED
    BY <2>1, <2>2 DEF Suits
<1>5. AtMostOneCluster'
  BY <1>2 DEF Store, AtMostOneCluster
<1>6. ASSUME ~ClustersMayVanish,
             NEW q \in Requests, request[q].life = "active", request[q].cluster # NoCluster
      PROVE  /\ request[q].cluster \in Clusters
             /\ q \in TenantsOf(cluster'[request[q].cluster])
  BY <1>6, SchedulerAssumption DEF Store, GrantsKept, GrantedIsHeld, TypeOK, RequestType
<1>7. GrantsKept'
  BY <1>6 DEF GrantsKept, GrantedIsHeld, Present, Tenants, TenantsOf
<1>8. QED
  BY <1>3, <1>4, <1>5, <1>7 DEF Store, Holding

\* The two ways the loop of handleDelete goes on after a cluster.
LEMMA AfterReleaseDiscipline ==
  ASSUME DisciplineInv, pc = "release", NEW c \in todo, NEW copy, AfterRelease(c, copy),
         UNCHANGED <<request, cur, view>>,
         \A d \in Clusters \ {c} : cluster'[d] = cluster[d],
         TenantsOf(copy) = {} => TenantsOf(cluster'[c]) \subseteq {cur},
         failed' \/ (failed' = failed /\ cur \notin TenantsOf(cluster'[c]))
  PROVE  WorkerInv'
<1> USE DEF DisciplineInv
<1>1. /\ request[cur].finalizer /\ request[cur].life = "deleting"
      /\ \A d \in todo : d \notin Present \/ TenantsOf(view[d]) = Tenants(d)
      /\ ~failed => \A d \in Clusters : cur \in Tenants(d) => d \in todo
      /\ todo \subseteq Clusters
  BY DEF WorkerInv, InDelete, TypeInv, TypeOK
<1>2. \A d \in todo \ {c} : d \notin Present' \/ TenantsOf(view'[d]) = TenantsOf(cluster'[d])
  BY <1>1 DEF Present, Tenants
<1>3. ~failed' => \A d \in Clusters : cur \in TenantsOf(cluster'[d]) => d \in todo \ {c}
  BY <1>1 DEF Tenants
<1>4. CASE /\ TenantsOf(copy) = {}
           /\ pc' = "dispose" /\ target' = c /\ UNCHANGED todo
  BY <1>1, <1>2, <1>3, <1>4 DEF WorkerInv, InCreateOrUpdate, InDelete, Tenants
<1>5. CASE todo' = todo \ {c} /\ UNCHANGED <<pc, target>>
  BY <1>1, <1>2, <1>3, <1>5 DEF WorkerInv, InCreateOrUpdate, InDelete, Tenants
<1>6. QED
  BY <1>4, <1>5 DEF AfterRelease

\* Releasing a cluster expels nobody but the deleted request.
LEMMA ReleaseDiscipline ==
  ASSUME DisciplineInv, NEW c \in Clusters, Release(c)
  PROVE  Store' /\ WorkerInv'
<1> DEFINE fins == view[c].finalizers \ {cur}
<1> USE DEF DisciplineInv
<1>1. /\ pc = "release" /\ c \in todo /\ cur \in Requests /\ TypeOK
      /\ request[cur].life = "deleting"
      /\ c \notin Present \/ TenantsOf(view[c]) = Tenants(c)
      /\ UNCHANGED <<request, cur, view>>
  BY DEF Release, WorkerInv, InDelete, TypeInv, WorkerTyped
<1>2. CASE /\ Accepts(c, fins)
           /\ PatchFinalizers(c, fins)
           /\ AfterRelease(c, [cluster[c] EXCEPT !.finalizers = fins])
           /\ UNCHANGED failed
  <2>1. cluster[c].state # "absent" /\ TenantsOf(view[c]) = Tenants(c)
    BY <1>1, <1>2 DEF Accepts, Present
  <2>2. fins \in SUBSET Finalizers
    BY <1>1 DEF TypeOK, ClusterType
  <2>3. /\ \A d \in Clusters \ {c} : cluster'[d] = cluster[d]
        /\ cluster'[c].finalizers = fins
        /\ cluster'[c].state = "absent" => fins = {}
        /\ fins # {} => cluster'[c].template = cluster[c].template
    BY <1>1, <1>2, <2>1, <2>2, PatchEffect DEF TypeOK
  <2>4. TenantsOf(cluster'[c]) = Tenants(c) \ {cur}
    BY <2>1, <2>3 DEF TenantsOf
  <2>5. Store'
    BY <1>1, <2>3, <2>4, Loss DEF Store, Objects, Tenants
  <2>6. [cluster[c] EXCEPT !.finalizers = fins].finalizers = fins
    BY <1>1 DEF TypeOK, ClusterType
  <2>7. TenantsOf([cluster[c] EXCEPT !.finalizers = fins]) = TenantsOf(cluster'[c])
    BY <2>3, <2>6 DEF TenantsOf
  <2>8. WorkerInv'
    BY <1>1, <1>2, <2>3, <2>4, <2>7, AfterReleaseDiscipline
  <2>9. QED
    BY <2>5, <2>8
<1>3. CASE /\ AfterRelease(c, [view[c] EXCEPT !.finalizers = fins])
           /\ failed' = TRUE
           /\ UNCHANGED cluster
  <2>1. Store'
    BY <1>1, <1>3, StoreFrame
  <2>2. [view[c] EXCEPT !.finalizers = fins].finalizers = fins
    BY <1>1 DEF TypeOK, ClusterType
  <2>3. Tenants(c) \subseteq TenantsOf(view[c])
    BY <1>1 DEF Store, Objects, Present, Tenants, TenantsOf
  <2>4. TenantsOf([view[c] EXCEPT !.finalizers = fins]) = {} => TenantsOf(cluster'[c]) \subseteq {cur}
    BY <1>3, <2>2, <2>3 DEF Tenants, TenantsOf
  <2>5. WorkerInv'
    BY <1>1, <1>3, <2>4, AfterReleaseDiscipline
  <2>6. QED
    BY <2>1, <2>5
<1>4. QED
  BY <1>2, <1>3 DEF Release

\* A failed release is remembered as long as the finalizer is there.
LEMMA ReleaseFailsDiscipline ==
  ASSUME DisciplineInv, NEW c \in Clusters, ReleaseFails(c)
  PROVE  Store' /\ WorkerInv'
<1> DEFINE fins == view[c].finalizers \ {cur}
           copy == [view[c] EXCEPT !.finalizers = @ \ {cur}]
<1> USE DEF DisciplineInv
<1>1. /\ pc = "release" /\ c \in todo /\ cur \in Requests /\ TypeOK
      /\ c \notin Present \/ TenantsOf(view[c]) = Tenants(c)
      /\ UNCHANGED <<request, cluster, cur, view>> /\ failed' = TRUE
      /\ AfterRelease(c, copy)
  BY DEF ReleaseFails, WorkerInv, InDelete, TypeInv, WorkerTyped
<1>2. copy.finalizers = fins
  BY <1>1 DEF TypeOK, ClusterType
<1>3. Tenants(c) \subseteq TenantsOf(view[c])
  BY <1>1 DEF Store, Objects, Present, Tenants, TenantsOf
<1>4. TenantsOf(copy) = {} => TenantsOf(cluster'[c]) \subseteq {cur}
  BY <1>1, <1>2, <1>3 DEF Tenants, TenantsOf
<1>5. WorkerInv'
  BY <1>1, <1>4, AfterReleaseDiscipline
<1>6. QED
  BY <1>1, <1>5, StoreFrame

\* What Delete leaves of a cluster, whoever calls it.
LEMMA DeletedEffect ==
  ASSUME NEW obj \in ClusterType
  PROVE  /\ Deleted(obj).finalizers = obj.finalizers
         /\ Deleted(obj).state = "absent" => obj.finalizers = {}
         /\ obj.finalizers # {} => Deleted(obj).template = obj.template
BY DEF Deleted, Absent, ClusterType

\* Deleting an unused cluster, or failing to, takes no slot from anybody.
LEMMA DisposeDiscipline ==
  ASSUME DisciplineInv, Dispose \/ DisposeFails
  PROVE  Store' /\ WorkerInv'
<1> USE DEF DisciplineInv
<1>1. /\ pc = "dispose" /\ target \in Clusters /\ cur \in Requests /\ TypeOK
      /\ request[cur].life = "deleting" /\ request[cur].finalizer
      /\ UNCHANGED <<request, cur, view>>
      /\ pc' = "release" /\ todo' = todo \ {target}
      /\ failed' = TRUE \/ failed' = failed
  BY DEF Dispose, DisposeFails, WorkerInv, InDelete, TypeInv, WorkerTyped, Targeting
<1>2. \A c \in Clusters : /\ cluster'[c].finalizers = cluster[c].finalizers
                          /\ cluster'[c].state = "absent" => cluster'[c].finalizers = {}
                          /\ cluster'[c].finalizers # {} => cluster'[c].template = cluster[c].template
                          /\ c # target => cluster'[c] = cluster[c]
  <2>1. CASE UNCHANGED cluster
    BY <2>1 DEF Store, Objects
  <2>2. CASE cluster' = [cluster EXCEPT ![target] = Deleted(@)]
    BY <1>1, <2>2, DeletedEffect DEF Store, Objects, TypeOK
  <2>3. QED
    BY <2>1, <2>2 DEF Dispose, DisposeFails
<1>3. \A c \in Clusters : TenantsOf(cluster'[c]) = Tenants(c)
  BY <1>2 DEF Tenants, TenantsOf
<1>4. Store'
  BY <1>1, <1>2, <1>3, Loss
<1>5. \A c \in todo' : c \notin Present' \/ TenantsOf(view'[c]) = TenantsOf(cluster'[c])
  BY <1>1, <1>2, <1>3 DEF WorkerInv, InDelete, Present, TypeOK
<1>6. ~failed' => \A c \in Clusters : cur \in TenantsOf(cluster'[c]) => c \in todo'
  BY <1>1, <1>3 DEF WorkerInv, InDelete, TypeOK
<1>7. WorkerInv'
  BY <1>1, <1>5, <1>6 DEF WorkerInv, InCreateOrUpdate, InDelete, Tenants
<1>8. QED
  BY <1>4, <1>7

\* A request is given up only when no cluster carries its finalizer.
LEMMA FinishDeleteDiscipline ==
  ASSUME DisciplineInv, FinishDelete
  PROVE  Store' /\ WorkerInv'
<1> USE DEF DisciplineInv
<1>1. CASE Fail
  BY <1>1, FailDiscipline DEF FinishDelete
<1>2. ASSUME ~failed, NEW r \in Addressed,
             request' = [request EXCEPT ![r].finalizer = FALSE,
                           ![r].life = IF @ = "deleting" THEN "gone" ELSE @],
             Idle
      PROVE  Store' /\ WorkerInv'
  <2>1. r = cur /\ cur \in Requests /\ TypeOK
    BY <1>2, AddressesItself DEF FinishDelete, Existing, TypeInv
  <2>2. HoldsNothing(cur) /\ request[cur].life = "deleting"
    BY <1>2 DEF FinishDelete, HoldsNothing, WorkerInv, InDelete
  <2>3. request' = [request EXCEPT ![cur] = [request[cur] EXCEPT !.finalizer = FALSE, !.life = "gone"]]
    BY <1>2, <2>1, <2>2 DEF TypeOK
  <2>4. /\ \A q \in Requests \ {cur} : request'[q] = request[q]
        /\ request'[cur].life = "gone"
    BY <2>1, <2>3 DEF TypeOK, RequestType
  <2>5. UNCHANGED cluster /\ Existing' \subseteq Existing /\ Present' = Present
        /\ \A c \in Clusters : Tenants(c)' = Tenants(c)
    BY <2>4 DEF FinishDelete, Existing, Present, Tenants
  <2>6. Objects'
    BY <2>4, <2>5 DEF Store, Objects
  <2>7. Holding'
    BY <2>2, <2>4, <2>5 DEF Store, Holding, Suits, HoldsNothing, Tenants, TenantsOf
  <2>8. AtMostOneCluster'
    BY <2>5 DEF Store, AtMostOneCluster
  <2>9. GrantsKept'
    BY <2>4, <2>5 DEF Store, GrantsKept, GrantedIsHeld, Tenants
  <2>10. QED
    BY <1>2, <2>6, <2>7, <2>8, <2>9, IdleWorker DEF Store
<1>3. QED
  BY <1>1, <1>2 DEF FinishDelete

\* The list of owned clusters misses none.
LEMMA ListDiscipline ==
  ASSUME DisciplineInv, ListOwned
  PROVE  Store' /\ WorkerInv'
<1> USE DEF DisciplineInv
<1>1. request[cur].finalizer /\ request[cur].life = "deleting" /\ UNCHANGED <<request, cluster, cur>>
  BY DEF ListOwned, WorkerInv, InDelete
<1>2. Store'
  BY <1>1, StoreFrame
<1>3. \A c \in todo' : view'[c] = cluster'[c]
  BY DEF ListOwned, Snapshot, Present
<1>4. \A c \in Clusters : cur \in TenantsOf(cluster'[c]) => c \in todo'
  BY <1>1 DEF ListOwned, Present, Store, Objects, Tenants, TenantsOf
<1>5. pc' = "release"
  BY DEF ListOwned
<1>6. WorkerInv'
  BY <1>1, <1>3, <1>4, <1>5 DEF WorkerInv, InCreateOrUpdate, InDelete, Tenants
<1>7. QED
  BY <1>2, <1>6

\* A request starts at the step its reference and its finalizers call for.
LEMMA DequeueDiscipline ==
  ASSUME DisciplineInv, NEW k \in Keys, Dequeue(k)
  PROVE  Store' /\ WorkerInv'
<1> USE DEF DisciplineInv
<1>1. Store' /\ UNCHANGED <<request, cluster>>
  BY StoreFrame DEF Dequeue
<1>2. CASE UNCHANGED local
  <2>1. pc' = "idle"
    BY <1>2 DEF Dequeue, local
  <2>2. QED
    BY <1>1, <2>1 DEF WorkerInv, InCreateOrUpdate, InDelete
<1>3. ASSUME NEW r \in Existing, cur' = r,
             pc' = CASE request[r].life = "deleting" -> "list"
                     [] request[r].life = "active" /\ ~request[r].finalizer -> "addFinalizer"
                     [] OTHER -> AfterFinalizer(r)
      PROVE  WorkerInv'
  <2>1. r \in Requests /\ request[r].life \in {"active", "deleting"} /\ request[r].finalizer \in BOOLEAN
    BY DEF Existing, TypeInv, TypeOK, RequestType
  <2>2. CASE request[r].life = "deleting"
    BY <1>1, <1>3, <2>1, <2>2 DEF Store, Objects, WorkerInv, InCreateOrUpdate, InDelete
  <2>3. CASE request[r].life = "active" /\ ~request[r].finalizer
    BY <1>1, <1>3, <2>1, <2>3 DEF WorkerInv, InCreateOrUpdate, InDelete
  <2>4. CASE request[r].life = "active" /\ request[r].finalizer
    <3>1. request[r].cluster # NoCluster /\ ~ClustersMayVanish => r \in Tenants(request[r].cluster)
      BY <2>1, <2>4 DEF Store, GrantsKept, GrantedIsHeld
    <3>2. pc' = AfterFinalizer(r)
      BY <1>3, <2>4
    <3>3. CASE request[r].cluster = NoCluster /\ pc' = "schedule"
      BY <1>1, <1>3, <2>4, <3>3 DEF WorkerInv, InCreateOrUpdate, InDelete
    <3>4. CASE request[r].cluster # NoCluster /\ pc' = "getReferenced"
      BY <1>1, <1>3, <2>4, <3>1, <3>4 DEF WorkerInv, InCreateOrUpdate, InDelete, Tenants
    <3>5. QED
      BY <3>2, <3>3, <3>4 DEF AfterFinalizer
  <2>5. QED
    BY <2>1, <2>2, <2>3, <2>4
<1>4. QED
  BY <1>1, <1>2, <1>3 DEF Dequeue

\* Users: the worker's request stays what it is, except that it may be deleted.
LEMMA UsersDiscipline ==
  ASSUME Discipline, DisciplineInv, Users
  PROVE  Store' /\ WorkerInv'
<1> USE DEF DisciplineInv
<1>1. PICK r \in Requests : CreateRequest(r) \/ DeleteRequest(r) \/ Trigger(r)
  BY DEF Users, RequestVanishes, Discipline
<1>2. UNCHANGED <<cluster, local>> /\ TypeOK
  BY <1>1 DEF CreateRequest, DeleteRequest, Trigger, TypeInv
<1>3. \A q \in Requests : /\ request'[q].finalizer = request[q].finalizer
                          /\ request'[q].cluster = request[q].cluster
                          /\ request[q].life = "deleting" => request'[q].life = "deleting"
                          /\ q # r => request'[q] = request[q]
  BY <1>1, <1>2 DEF CreateRequest, DeleteRequest, Trigger, TypeOK, RequestType
<1>4. WorkerInv'
  BY <1>2, <1>3 DEF local, TypeInv, WorkerTyped, WorkerInv, InCreateOrUpdate, InDelete,
                    HoldsNothing, Present, Tenants
<1>5. Present' = Present /\ \A c \in Clusters : Tenants(c)' = Tenants(c)
  BY <1>2 DEF Present, Tenants
<1>6. Holding' /\ AtMostOneCluster'
  BY <1>2, <1>3, <1>5 DEF Store, Holding, Suits, AtMostOneCluster, Tenants, TenantsOf
<1>7. CASE Trigger(r)
  BY <1>4, <1>7, StoreFrame DEF Trigger
<1>8. CASE CreateRequest(r)
  <2>1. /\ request[r].life = "new" /\ request'[r].life = "active"
        /\ \A q \in Existing : KeyOf[q] # KeyOf[r]
    BY <1>2, <1>8 DEF CreateRequest, TypeOK, RequestType
  <2>2. request'[r].cluster = NoCluster
    BY <1>3, <2>1 DEF Store, Objects
  <2>3. Existing' = Existing \cup {r}
    BY <1>3, <2>1 DEF Existing
  <2>4. Objects'
    BY <1>2, <1>3, <2>1, <2>2, <2>3 DEF Store, Objects
  <2>5. GrantsKept'
    BY <1>3, <1>5, <2>2, SchedulerAssumption DEF Store, GrantsKept, GrantedIsHeld, Present
  <2>6. QED
    BY <1>4, <1>6, <2>4, <2>5 DEF Store
<1>9. CASE DeleteRequest(r)
  <2>1. /\ request[r].life = "active"
        /\ request'[r].life = IF request[r].finalizer THEN "deleting" ELSE "gone"
    BY <1>2, <1>9 DEF DeleteRequest, TypeOK, RequestType
  <2>2. Existing' \subseteq Existing
    BY <1>3, <2>1 DEF Existing
  <2>3. Objects'
    BY <1>2, <1>3, <2>1, <2>2 DEF Store, Objects
  <2>4. GrantsKept'
    BY <1>3, <1>5, <2>1, SchedulerAssumption DEF Store, GrantsKept, GrantedIsHeld, Present
  <2>5. QED
    BY <1>4, <1>6, <2>3, <2>4 DEF Store
<1>10. QED
  BY <1>1, <1>7, <1>8, <1>9

\* A lost cluster takes only tenants away.
LEMMA VanishDiscipline ==
  ASSUME DisciplineInv, NEW v \in Clusters, ClusterVanishes(v)
  PROVE  Store' /\ WorkerInv'
<1> USE DEF DisciplineInv
<1>1. UNCHANGED <<request, local>> /\ TypeOK /\ ClustersMayVanish
  BY DEF ClusterVanishes, TypeInv
<1>2. cluster'[v] = Absent /\ \A c \in Clusters \ {v} : cluster'[c] = cluster[c]
  BY <1>1 DEF ClusterVanishes, TypeOK
<1>3. Tenants(v)' = {} /\ \A c \in Clusters \ {v} : Tenants(c)' = Tenants(c)
  BY <1>2 DEF Absent, Tenants, TenantsOf
<1>4. Existing' = Existing /\ Present' = Present \ {v}
  BY <1>1, <1>2 DEF Existing, Present, Absent
<1>5. Objects'
  BY <1>1, <1>2, <1>4 DEF Store, Objects, Absent
<1>6. Holding'
  BY <1>1, <1>2, <1>3 DEF Store, Holding, Suits
<1>7. AtMostOneCluster'
  BY <1>3 DEF Store, AtMostOneCluster
<1>8. WorkerInv'
  <2>1. UNCHANGED <<pc, cur, target, view, drop, todo, failed>>
    BY <1>1 DEF local
  <2>2. pc \in {"status", "dispose", "join", "reclaim"} => target \in Clusters
    BY DEF TypeInv, WorkerTyped, Targeting
  <2>3. \A c \in Clusters : Tenants(c)' \subseteq Tenants(c)
    BY <1>3
  <2>4. InCreateOrUpdate'
    BY <1>1, <1>2, <1>3, <1>4, <2>1, <2>2, <2>3 DEF WorkerInv, InCreateOrUpdate, HoldsNothing
  <2>5. InDelete'
    BY <1>1, <1>3, <1>4, <2>1, <2>2, <2>3 DEF WorkerInv, InDelete, TypeOK
  <2>6. QED
    BY <1>1, <2>1, <2>4, <2>5 DEF WorkerInv
<1>9. QED
  BY <1>1, <1>5, <1>6, <1>7, <1>8 DEF Store, GrantsKept

\* Providers and administrators: no cluster loses a tenant.
LEMMA ProvidersDiscipline ==
  ASSUME DisciplineInv, Providers, \A c \in Clusters : ~ClusterVanishes(c)
  PROVE  Store' /\ WorkerInv'
<1> DEFINE Kept(c) ==
             /\ TenantsOf(cluster'[c]) = Tenants(c)
             /\ cluster'[c].state = "absent" => cluster'[c].finalizers = {}
             /\ cluster[c].state = "absent" => cluster'[c].state = "absent"
             /\ cluster'[c].finalizers # {} => cluster'[c].template = cluster[c].template
             /\ cluster'[c].state # "absent" => cluster'[c].template = cluster[c].template
<1> USE DEF DisciplineInv
<1>1. UNCHANGED <<request, local>> /\ TypeOK
  BY DEF Providers, DeleteCluster, ClusterVanishes, ProviderTakes, ProviderLeaves, TypeInv
<1>2. \A c \in Clusters : Kept(c)
  <2>1. ASSUME NEW d \in Clusters, DeleteCluster(d)
        PROVE  \A c \in Clusters : Kept(c)
    <3>1. cluster' = [cluster EXCEPT ![d] = Deleted(cluster[d])] /\ cluster[d].state = "active"
      BY <2>1 DEF DeleteCluster
    <3>2. /\ Deleted(cluster[d]).finalizers = cluster[d].finalizers
          /\ Deleted(cluster[d]).state = "absent" => cluster[d].finalizers = {}
          /\ cluster[d].finalizers # {} => Deleted(cluster[d]).template = cluster[d].template
          /\ Deleted(cluster[d]).state # "absent" => Deleted(cluster[d]).template = cluster[d].template
      BY <1>1, <3>1 DEF Deleted, Absent, TypeOK, ClusterType
    <3>3. cluster'[d] = Deleted(cluster[d]) /\ \A c \in Clusters \ {d} : cluster'[c] = cluster[c]
      BY <1>1, <3>1 DEF TypeOK
    <3>4. Kept(d)
      BY <3>1, <3>2, <3>3 DEF Tenants, TenantsOf
    <3>5. \A c \in Clusters \ {d} : Kept(c)
      BY <3>3 DEF Store, Objects, Tenants
    <3>6. QED
      BY <3>4, <3>5
  <2>2. ASSUME NEW d \in Clusters, NEW f \in Foreign, ProviderTakes(d, f) \/ ProviderLeaves(d, f)
        PROVE  \A c \in Clusters : Kept(c)
    <3>1. PICK fins \in {cluster[d].finalizers \cup {f}, cluster[d].finalizers \ {f}} :
            cluster' = [cluster EXCEPT ![d] = WithFinalizers(cluster[d], fins)]
      BY <2>2 DEF ProviderTakes, ProviderLeaves, PatchFinalizers
    <3>2. cluster[d].state \in {"active", "deleting"}
      BY <2>2 DEF ProviderTakes, ProviderLeaves
    <3>3. fins \cap Requests = cluster[d].finalizers \cap Requests
      BY <3>1, SchedulerAssumption
    <3>4. /\ WithFinalizers(cluster[d], fins).finalizers = fins
          /\ WithFinalizers(cluster[d], fins).state = "absent" => fins = {}
          /\ WithFinalizers(cluster[d], fins).state # "absent"
               => WithFinalizers(cluster[d], fins).template = cluster[d].template
          /\ fins # {} => WithFinalizers(cluster[d], fins).template = cluster[d].template
      BY <1>1, <3>2 DEF WithFinalizers, Absent, TypeOK, ClusterType
    <3>5. cluster'[d] = WithFinalizers(cluster[d], fins)
          /\ \A c \in Clusters \ {d} : cluster'[c] = cluster[c]
      BY <1>1, <3>1 DEF TypeOK
    <3>6. Kept(d)
      BY <3>2, <3>3, <3>4, <3>5 DEF Tenants, TenantsOf
    <3>7. \A c \in Clusters \ {d} : Kept(c)
      BY <3>5 DEF Store, Objects, Tenants
    <3>8. QED
      BY <3>6, <3>7
  <2>3. QED
    BY <2>1, <2>2 DEF Providers
<1>3. Existing' = Existing
  BY <1>1 DEF Existing
<1>4. \A c \in Clusters : Tenants(c)' = Tenants(c)
  BY <1>2 DEF Tenants
<1>5. Objects'
  BY <1>1, <1>2, <1>3 DEF Store, Objects
<1>6. Holding'
  BY <1>1, <1>2, <1>4 DEF Store, Holding, Suits, PurposesOf, Tenants, TenantsOf
<1>7. AtMostOneCluster'
  BY <1>4 DEF Store, AtMostOneCluster
<1>8. GrantsKept'
  BY <1>1, <1>2, <1>4 DEF Store, GrantsKept, GrantedIsHeld, Present, Tenants, TenantsOf
<1>9. WorkerInv'
  <2>1. UNCHANGED <<pc, cur, target, view, drop, todo, failed>>
    BY <1>1 DEF local
  <2>2. pc \in {"status", "dispose", "join", "reclaim"} => target \in Clusters
    BY DEF TypeInv, WorkerTyped, Targeting
  <2>3. pc = "getReferenced" => request[cur].cluster \in Clusters
    BY DEF TypeInv, WorkerTyped
  <2>4. \A c \in Clusters : c \in Present' => c \in Present /\ cluster'[c].template = cluster[c].template
    BY <1>2 DEF Present
  <2>5. InCreateOrUpdate'
    BY <1>1, <1>2, <1>4, <2>1, <2>2, <2>3, <2>4
    DEF WorkerInv, InCreateOrUpdate, HoldsNothing, PurposesOf, Tenants, Present
  <2>6. InDelete'
    BY <1>1, <1>2, <1>4, <2>1, <2>2, <2>4 DEF WorkerInv, InDelete, Tenants, TypeOK
  <2>7. QED
    BY <1>1, <2>1, <2>5, <2>6 DEF WorkerInv
<1>10. QED
  BY <1>5, <1>6, <1>7, <1>8, <1>9 DEF Store

\* The initial state and every step respect the discipline.
THEOREM DisciplineInit == Init => DisciplineInv
<1> SUFFICES ASSUME Init PROVE DisciplineInv
  OBVIOUS
<1>1. \A c \in Clusters : cluster[c].finalizers = {}
  BY DEF Init, Absent
<1>2. \A r \in Requests : request[r].life = "new" /\ request[r].cluster = NoCluster
  BY DEF Init
<1>3. Store
  BY <1>1, <1>2 DEF Store, Objects, Holding, Suits, AtMostOneCluster, GrantsKept, GrantedIsHeld,
                    Existing, Tenants, TenantsOf
<1>4. WorkerInv
  BY DEF Init, WorkerInv, InCreateOrUpdate, InDelete
<1>5. QED
  BY <1>3, <1>4, TypeInit DEF DisciplineInv

\* Every step of the system keeps the discipline.
THEOREM DisciplineNext ==
  ASSUME Discipline, DisciplineInv, [Next]_vars
  PROVE  DisciplineInv'
<1>1. TypeInv'
  BY TypeNext DEF DisciplineInv
<1>2. CASE UNCHANGED vars
  BY <1>1, <1>2, StoreFrame DEF vars, DisciplineInv, WorkerInv, InCreateOrUpdate, InDelete,
                                HoldsNothing, Tenants, Present
<1>3. CASE Reconcile
  <2>1. CASE HandleCreateOrUpdate
    BY <1>1, <2>1, ReadDiscipline, JoinDiscipline, CreateDiscipline, UpdateDiscipline,
       StatusDiscipline DEF HandleCreateOrUpdate, DisciplineInv
  <2>2. CASE HandleDelete
    BY <1>1, <2>2, ListDiscipline, ReleaseDiscipline, DisposeDiscipline, FinishDeleteDiscipline
    DEF HandleDelete, DisciplineInv
  <2>3. QED
    BY <1>3, <2>1, <2>2 DEF Reconcile
<1>4. CASE Failure
  <2>1. CASE CallFails
    <3>1. CASE Fail /\ pc # "idle" /\ UNCHANGED cluster
      BY <1>1, <3>1, FailDiscipline DEF DisciplineInv
    <3>2. CASE UNCHANGED <<request, cluster>> /\ Requeue
      BY <1>1, <3>2, StoreFrame, IdleWorker DEF Requeue, DisciplineInv
    <3>3. QED
      BY <1>1, <2>1, <3>1, <3>2 DEF CallFails, DisciplineInv
  <2>2. CASE Crash
    BY <1>1, <2>2, StoreFrame, IdleWorker DEF Crash, DisciplineInv
  <2>3. QED
    BY <1>1, <1>4, <2>1, <2>2, ReleaseFailsDiscipline, DisposeDiscipline DEF Failure, DisciplineInv
<1>5. CASE Users \/ Providers
  BY <1>1, <1>5, UsersDiscipline, VanishDiscipline, ProvidersDiscipline DEF DisciplineInv
<1>6. CASE \E k \in Keys : Dequeue(k)
  BY <1>1, <1>6, DequeueDiscipline DEF DisciplineInv
<1>7. QED
  BY <1>2, <1>3, <1>4, <1>5, <1>6 DEF Next

\* In every reachable state the discipline holds, as long as nobody strips the
\* finalizers of requests.
THEOREM DisciplineAlways == Discipline => (Spec => []DisciplineInv)
<1> SUFFICES ASSUME Discipline PROVE Spec => []DisciplineInv
  OBVIOUS
<1>1. Init => DisciplineInv
  BY DisciplineInit
<1>2. DisciplineInv /\ [Next]_vars => DisciplineInv'
  BY DisciplineNext
<1>3. QED
  BY <1>1, <1>2, PTL DEF Spec

\* While nobody strips finalizers of requests or clusters, an active request that
\* was told about a cluster finds its finalizer on that cluster.
THEOREM GrantedIsHeldAlways == Lossless => (Spec => []GrantedIsHeld)
<1> SUFFICES ASSUME Lossless PROVE Spec => []GrantedIsHeld
  OBVIOUS
<1>1. DisciplineInv => GrantedIsHeld
  BY DEF DisciplineInv, Store, GrantsKept, Lossless
<1>2. Discipline
  BY DEF Lossless
<1>3. QED
  BY <1>1, <1>2, DisciplineAlways, PTL

\* While nobody strips the finalizers of requests, no request occupies slots of two
\* clusters, wherever the operator was interrupted between finalizer and status, and
\* also when its cluster was lost and is created anew.
THEOREM AtMostOneClusterAlways == Discipline => (Spec => []AtMostOneCluster)
<1>1. DisciplineInv => AtMostOneCluster
  BY DEF DisciplineInv, Store
<1>2. QED
  BY <1>1, DisciplineAlways, PTL

\* While nobody strips the finalizers of requests, a request that is given up has no
\* finalizer on any cluster: no partial failure of a deletion leaks one.
THEOREM NoLeftoversAlways == Discipline => (Spec => []NoLeftovers)
<1>1. DisciplineInv => NoLeftovers
  <2> SUFFICES ASSUME DisciplineInv, NEW r \in Requests, request[r].life = "gone",
                      NEW c \in Clusters, r \in Tenants(c)
               PROVE  FALSE
    BY DEF NoLeftovers
  <2>1. request[r].finalizer
    BY DEF DisciplineInv, Store, Holding
  <2>2. QED
    BY <2>1 DEF DisciplineInv, TypeInv, TypeOK, RequestType
<1>2. QED
  BY <1>1, DisciplineAlways, PTL

\* While nobody strips the finalizers of requests, a step that deletes a cluster for
\* the scheduler finds no tenant on it but the request being deleted, although the
\* decision was taken on a copy.
THEOREM DeletesOnlyUnusedAlways == Discipline => (Spec => DeletesOnlyUnused)
<1>1. DisciplineInv => (pc = "dispose" => Tenants(target) \subseteq {cur})
  BY DEF DisciplineInv, WorkerInv, InDelete
<1>2. DisciplineInv => [pc = "dispose" /\ cluster' # cluster => Tenants(target) \subseteq {cur}]_vars
  BY <1>1
<1>3. QED
  BY <1>2, DisciplineAlways, PTL DEF DeletesOnlyUnused
=============================================================================

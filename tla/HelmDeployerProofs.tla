-------------------------- MODULE HelmDeployerProofs --------------------------
(***************************************************************************)
(* Theorems about the Helm deployer, for any number of HelmDeployments, of *)
(* changes, of failing calls and of restarts.                              *)
(***************************************************************************)
EXTENDS HelmDeployer, FiniteSetTheorems, TLAPS

-----------------------------------------------------------------------------
(* Types *)

Finalizers == Deployments \cup {"access"}

ClusterTyped ==
  /\ cluster \in ClusterType
  /\ cluster.state = "absent" => cluster.finalizers = {}
  /\ cluster.state = "deleting" => cluster.finalizers # {}

ObjectsTyped ==
  /\ hd \in [Deployments -> DeploymentStates]
  /\ matches \subseteq Deployments
  /\ source \subseteq Deployments
  /\ release \in [Deployments -> ReleaseStates]
  /\ ar \in AccessStates

WorkerTyped ==
  /\ queue \subseteq Deployments
  /\ pc \in {"idle", "hold", "access", "source", "release", "dropRelease", "dropSource",
             "letGo", "deleteRelease", "deleteSource", "list", "letGoAll", "finish"}
  /\ at \in Deployments
  /\ copy \in ClusterType
  /\ failed \in BOOLEAN

AccessTyped ==
  /\ trigger \in BOOLEAN
  /\ clusterPc \in {"idle", "lock", "ensure", "delete", "free"}
  /\ clusterCopy \in ClusterType
  /\ status \in Statuses
  /\ clusterPc \in {"delete", "free"} => status = "InDeletion"

BoundsTyped ==
  /\ stale \in BOOLEAN
  /\ events \in Nat
  /\ blind \in BOOLEAN
  /\ restarted \in BOOLEAN

\* TypeOK, by what the actions share.
LEMMA TypeParts ==
  TypeOK <=> ClusterTyped /\ ObjectsTyped /\ WorkerTyped /\ AccessTyped /\ BoundsTyped
BY DEF TypeOK, ClusterTyped, ObjectsTyped, WorkerTyped, AccessTyped, BoundsTyped

\* The same of the next state.
LEMMA TypePartsNext ==
  TypeOK' <=> ClusterTyped' /\ ObjectsTyped' /\ WorkerTyped' /\ AccessTyped' /\ BoundsTyped'
BY DEF TypeOK, ClusterTyped, ObjectsTyped, WorkerTyped, AccessTyped, BoundsTyped

\* The record for a missing Cluster, and for a copy that is not in use.
LEMMA NoClusterType == NoCluster \in ClusterType
BY DEF NoCluster, ClusterType, States

\* What a patch does that the API server accepts.
LEMMA PatchEffect ==
  ASSUME ClusterTyped, NEW from, NEW fs \in SUBSET Finalizers, CanPatch(fs), Patch(from, fs)
  PROVE  /\ ClusterTyped'
         /\ cluster'.finalizers = fs
         /\ stale' <=> stale \/ cluster.finalizers # from
         /\ stale' \in BOOLEAN
<1>1. cluster.state \in {"active", "deleting"} /\ cluster.finalizers \in SUBSET Finalizers
  BY DEF CanPatch, ClusterTyped, ClusterType, States, Finalizers
<1>2. CASE cluster.state = "deleting" /\ fs = {}
  <2>1. cluster' = NoCluster
    BY <1>2 DEF Patch
  <2>2. ClusterTyped' /\ cluster'.finalizers = fs
    BY <1>2, <2>1, NoClusterType DEF ClusterTyped, NoCluster
  <2>3. QED
    BY <2>2 DEF Patch
<1>3. CASE ~(cluster.state = "deleting" /\ fs = {})
  <2>1. cluster' = [cluster EXCEPT !.finalizers = fs]
    BY <1>3 DEF Patch
  <2>2. cluster' \in ClusterType /\ cluster'.finalizers = fs /\ cluster'.state = cluster.state
    BY <2>1 DEF ClusterTyped, ClusterType, Finalizers
  <2>3. ClusterTyped'
    BY <1>1, <1>3, <2>2 DEF ClusterTyped
  <2>4. QED
    BY <2>2, <2>3 DEF Patch
<1>4. QED
  BY <1>2, <1>3

\* The end of a pass, with or without the HelmDeployment in the queue again.
LEMMA DoneType ==
  ASSUME WorkerTyped, End \/ Requeue
  PROVE  WorkerTyped'
BY NoClusterType DEF End, Requeue, Done, WorkerTyped

\* The API server and the worker of the HelmDeployment controller start well-typed.
LEMMA TypeInit == Init => TypeOK
<1> SUFFICES ASSUME Init PROVE TypeOK
  OBVIOUS
<1>1. Existing \subseteq Deployments
  BY DEF Existing
<1>2. Cardinality(Existing) \in Nat
  BY <1>1, HelmAssumption, FS_Subset, FS_CardinalityType
<1>3. ClusterTyped
  BY DEF Init, NoCluster, ClusterType, States, ClusterTyped
<1>4. ObjectsTyped
  BY DEF Init, ObjectsTyped, DeploymentStates, ReleaseStates, AccessStates
<1>5. WorkerTyped /\ AccessTyped
  BY <1>1, NoClusterType DEF Init, WorkerTyped, AccessTyped, Statuses
<1>6. BoundsTyped
  BY <1>2 DEF Init, BoundsTyped
<1>7. QED
  BY <1>3, <1>4, <1>5, <1>6, TypeParts

\* Starting a pass.
LEMMA ReconcileType ==
  ASSUME TypeOK, NEW d \in Deployments, Reconcile(d)
  PROVE  TypeOK'
<1> USE TypeParts, TypePartsNext
<1>1. ClusterTyped' /\ AccessTyped' /\ BoundsTyped'
  BY DEF Reconcile, ClusterTyped, AccessTyped, BoundsTyped, access, bounds, history
<1>2. ObjectsTyped'
  BY DEF Reconcile, ObjectsTyped, DeploymentStates
<1>3. WorkerTyped'
  BY DEF Reconcile, WorkerTyped, ClusterTyped
<1>4. QED
  BY <1>1, <1>2, <1>3

\* Calls of the worker that touch the Cluster's finalizers.
LEMMA FinalizerType ==
  ASSUME TypeOK, Hold \/ LetGo \/ LetGoAll
  PROVE  TypeOK'
<1> USE TypeParts, TypePartsNext
<1>1. /\ copy.finalizers \cup {at} \in SUBSET Finalizers
      /\ copy.finalizers \ {at} \in SUBSET Finalizers
  BY DEF WorkerTyped, ClusterType, Finalizers
<1>2. ClusterTyped' /\ stale' \in BOOLEAN
  <2>1. CASE UNCHANGED <<cluster, stale>>
    BY <2>1 DEF ClusterTyped, BoundsTyped
  <2>2. CASE /\ CanPatch(copy.finalizers \cup {at})
             /\ Patch(copy.finalizers, copy.finalizers \cup {at})
    BY <1>1, <2>2, PatchEffect
  <2>3. CASE /\ CanPatch(copy.finalizers \ {at})
             /\ Patch(copy.finalizers, copy.finalizers \ {at})
    BY <1>1, <2>3, PatchEffect
  <2>4. QED
    BY <2>1, <2>2, <2>3 DEF Hold, LetGo, LetGoAll, history
<1>3. ObjectsTyped'
  BY DEF Hold, LetGo, LetGoAll, ObjectsTyped
<1>4. WorkerTyped'
  <2>1. CASE End \/ Requeue
    BY <2>1, DoneType
  <2>2. CASE Hold /\ Goto("access")
    BY <2>2 DEF Goto, WorkerTyped
  <2>3. CASE LetGoAll
    BY <2>3 DEF LetGoAll, WorkerTyped
  <2>4. QED
    BY <2>1, <2>2, <2>3 DEF Hold, LetGo
<1>5. AccessTyped'
  BY DEF Hold, LetGo, LetGoAll, AccessTyped, access
<1>6. BoundsTyped'
  BY <1>2 DEF Hold, LetGo, LetGoAll, WorkerTyped, BoundsTyped, bounds, history
<1>7. QED
  BY <1>2, <1>3, <1>4, <1>5, <1>6

\* The other calls of a pass.
LEMMA PassType ==
  ASSUME TypeOK,
         \/ GetAccess \/ DeploySource \/ DeployRelease \/ DropRelease \/ DropSource
         \/ ListClusters \/ Finish
  PROVE  TypeOK'
<1> USE TypeParts, TypePartsNext
<1>1. ClusterTyped' /\ BoundsTyped'
  BY DEF GetAccess, DeploySource, DeployRelease, DropRelease, DropSource, ListClusters, Finish,
         objects, bounds, history, ClusterTyped, BoundsTyped
<1>2. AccessTyped'
  BY DEF GetAccess, DeploySource, DeployRelease, DropRelease, DropSource, ListClusters, Finish,
         access, AccessTyped
<1>3. ObjectsTyped'
  <2>1. CASE GetAccess \/ ListClusters
    BY <2>1 DEF GetAccess, ListClusters, objects, ObjectsTyped
  <2>2. CASE DeploySource \/ DropSource
    BY <2>2 DEF DeploySource, DropSource, ObjectsTyped, WorkerTyped
  <2>3. CASE DeployRelease \/ DropRelease
    BY <2>3 DEF DeployRelease, DropRelease, Deleted, ObjectsTyped, ReleaseStates
  <2>4. CASE Finish
    BY <2>4 DEF Finish, ObjectsTyped, DeploymentStates
  <2>5. QED
    BY <2>1, <2>2, <2>3, <2>4
<1>4. WorkerTyped'
  <2>1. CASE End \/ Requeue
    BY <2>1, DoneType
  <2>2. CASE ListClusters
    BY <2>2 DEF ListClusters, WorkerTyped, ClusterTyped
  <2>3. ASSUME NEW step \in {"source", "release", "dropSource", "deleteSource", "letGo", "list"},
               Goto(step)
        PROVE  WorkerTyped'
    BY <2>3 DEF Goto, WorkerTyped
  <2>4. QED
    BY <2>1, <2>2, <2>3
       DEF GetAccess, DeploySource, DeployRelease, DropRelease, DropSource, Finish
<1>5. QED
  BY <1>1, <1>2, <1>3, <1>4

\* Failing calls of both controllers, and restarts.
LEMMA FailureType ==
  ASSUME TypeOK, CallFails \/ DeleteCallFails \/ ClusterCallFails \/ Restart
  PROVE  TypeOK'
<1> USE TypeParts, TypePartsNext
<1>1. ClusterTyped' /\ ObjectsTyped'
  BY DEF CallFails, DeleteCallFails, ClusterCallFails, Restart, objects, ClusterTyped, ObjectsTyped
<1>2. BoundsTyped'
  <2>1. events' = events + 1 /\ UNCHANGED <<stale, blind>>
    BY DEF CallFails, DeleteCallFails, ClusterCallFails, Restart, Failure, Event, history
  <2>2. restarted' = restarted \/ restarted' = TRUE
    BY DEF CallFails, DeleteCallFails, ClusterCallFails, Restart, Failure
  <2>3. events' \in Nat
    BY <2>1 DEF BoundsTyped
  <2>4. QED
    BY <2>1, <2>2, <2>3 DEF BoundsTyped
<1>3. WorkerTyped'
  <2>1. CASE CallFails
    BY <2>1, DoneType DEF CallFails
  <2>2. CASE DeleteCallFails
    BY <2>2 DEF DeleteCallFails, WorkerTyped
  <2>3. CASE ClusterCallFails
    BY <2>3 DEF ClusterCallFails, worker, WorkerTyped
  <2>4. CASE Restart
    BY <2>4, NoClusterType DEF Restart, Done, WorkerTyped, Existing
  <2>5. QED
    BY <2>1, <2>2, <2>3, <2>4
<1>4. AccessTyped'
  BY NoClusterType
     DEF CallFails, DeleteCallFails, ClusterCallFails, Restart, ClusterDone, access, AccessTyped,
         Statuses
<1>5. QED
  BY <1>1, <1>2, <1>3, <1>4

\* The cluster controller.
LEMMA ClusterPassType ==
  ASSUME TypeOK, ClusterPass
  PROVE  TypeOK'
<1> USE TypeParts, TypePartsNext
<1>1. /\ clusterCopy.finalizers \cup {"access"} \in SUBSET Finalizers
      /\ clusterCopy.finalizers \ {"access"} \in SUBSET Finalizers
  BY DEF AccessTyped, ClusterType, Finalizers
<1>2. ClusterTyped' /\ stale' \in BOOLEAN
  <2>1. CASE UNCHANGED cluster /\ stale' \in BOOLEAN
    BY <2>1 DEF ClusterTyped
  <2>2. CASE /\ CanPatch(clusterCopy.finalizers \cup {"access"})
             /\ Patch(clusterCopy.finalizers, clusterCopy.finalizers \cup {"access"})
    BY <1>1, <2>2, PatchEffect
  <2>3. CASE /\ CanPatch(clusterCopy.finalizers \ {"access"})
             /\ Patch(clusterCopy.finalizers, clusterCopy.finalizers \ {"access"})
    BY <1>1, <2>3, PatchEffect
  <2>4. QED
    BY <2>1, <2>2, <2>3
       DEF ClusterPass, ReadCluster, EnsureFinalizer, EnsureAccess, Cleanup, DeleteAccess,
           FreeCluster, BoundsTyped, objects, history
<1>3. ObjectsTyped'
  BY DEF ClusterPass, ReadCluster, EnsureFinalizer, EnsureAccess, Cleanup, DeleteAccess,
         FreeCluster, ObjectsTyped, objects, AccessStates
<1>4. WorkerTyped'
  BY DEF ClusterPass, ReadCluster, EnsureFinalizer, EnsureAccess, Cleanup, DeleteAccess,
         FreeCluster, WorkerTyped, worker
<1>5. AccessTyped'
  <2>1. trigger' \in BOOLEAN
    BY DEF ClusterPass, ReadCluster, EnsureFinalizer, EnsureAccess, Cleanup, DeleteAccess,
           FreeCluster, AccessTyped
  <2>2. clusterCopy' \in ClusterType
    BY NoClusterType
       DEF ClusterPass, ReadCluster, EnsureFinalizer, EnsureAccess, Cleanup, DeleteAccess,
           FreeCluster, ClusterDone, AccessTyped, ClusterTyped
  <2>3. /\ clusterPc' \in {"idle", "lock", "ensure", "delete", "free"}
        /\ status' \in Statuses
        /\ clusterPc' \in {"delete", "free"} => status' = "InDeletion"
    BY DEF ClusterPass, ReadCluster, EnsureFinalizer, EnsureAccess, Cleanup, DeleteAccess,
           FreeCluster, ClusterDone, AccessTyped, Statuses
  <2>4. QED
    BY <2>1, <2>2, <2>3 DEF AccessTyped
<1>6. BoundsTyped'
  BY <1>2 DEF ClusterPass, ReadCluster, EnsureFinalizer, EnsureAccess, Cleanup, DeleteAccess,
              FreeCluster, BoundsTyped, bounds, history
<1>7. QED
  BY <1>2, <1>3, <1>4, <1>5, <1>6

\* Users, Flux and the provider of the access.
LEMMA EnvironmentType ==
  ASSUME TypeOK,
         \/ \E d \in Deployments : Delete(d) \/ Select(d) \/ Flux(d)
         \/ DeleteCluster \/ Provider
  PROVE  TypeOK'
<1> USE TypeParts, TypePartsNext
<1>1. ClusterTyped'
  <2>1. CASE UNCHANGED cluster
    BY <2>1 DEF ClusterTyped
  <2>2. CASE DeleteCluster
    BY <2>2, NoClusterType DEF DeleteCluster, ClusterTyped, ClusterType, States, NoCluster
  <2>3. QED
    BY <2>1, <2>2
       DEF Delete, Select, Flux, Install, Uninstall, CollectGarbage, Provider, AccessGranted,
           AccessGoes
<1>2. ObjectsTyped'
  BY DEF DeleteCluster, Delete, Select, Flux, Install, Uninstall, CollectGarbage, Provider,
         AccessGranted, AccessGoes, Deleted, ObjectsTyped, DeploymentStates, ReleaseStates,
         AccessStates
<1>3. WorkerTyped'
  BY DEF DeleteCluster, Delete, Select, Existing, Flux, Install, Uninstall,
         CollectGarbage, Provider, AccessGranted, AccessGoes, WorkerTyped, worker
<1>4. AccessTyped'
  BY DEF DeleteCluster, Delete, Select, Flux, Install, Uninstall, CollectGarbage, Provider,
         AccessGranted, AccessGoes, AccessTyped, access
<1>5. BoundsTyped'
  BY DEF DeleteCluster, Delete, Select, Event, Flux, Install, Uninstall, CollectGarbage, Provider,
         AccessGranted, AccessGoes, BoundsTyped, bounds, history
<1>6. QED
  BY <1>1, <1>2, <1>3, <1>4, <1>5

\* Every step keeps the types.
LEMMA TypeStep == TypeOK /\ [Next]_vars => TypeOK'
<1> SUFFICES ASSUME TypeOK, [Next]_vars PROVE TypeOK'
  OBVIOUS
<1>1. CASE UNCHANGED vars
  BY <1>1 DEF vars, TypeOK
<1>2. QED
  BY <1>1, ReconcileType, FinalizerType, PassType, FailureType, ClusterPassType, EnvironmentType
     DEF Next, Pass

\* TypeOK: no interleaving of the two controllers writes anything outside its type, and
\* the map shows an access that is being deleted as long as its deletion goes on.
THEOREM TypeCorrect == Spec => []TypeOK
BY TypeInit, TypeStep, PTL DEF Spec

-----------------------------------------------------------------------------
(* The inductive invariant.  It speaks of regular executions: no           *)
(* controller has acted on outdated finalizers, and handleDelete has let   *)
(* no Cluster go after an error.                                           *)

\* A release holds the Cluster.
Held ==
  \A d \in Deployments : release[d] # "absent" => d \in cluster.finalizers

\* What the worker of the HelmDeployment controller may rely on between two calls.
Relied ==
  /\ pc = "hold" /\ at \in copy.finalizers => at \in cluster.finalizers
  /\ pc \in {"access", "source", "release"} => at \in cluster.finalizers
  /\ pc \in {"dropSource", "letGo"} => release[at] = "absent"
  /\ pc \in {"deleteSource", "list", "letGoAll"} => release[at] = "absent" \/ failed

\* Nothing is installed, and no pass is about to, while the access is being deleted.
Quiet ==
  /\ clusterPc = "ensure" => status # "InDeletion"
  /\ status = "InDeletion" =>
       pc \notin {"source", "release"} /\ \A d \in Deployments : release[d] = "absent"

Sound == Held /\ Relied /\ Quiet

IInv == TypeOK /\ (Regular => Sound)

\* Irregular executions stay irregular.
LEMMA RegularBefore ==
  ASSUME TypeOK, [Next]_vars, Regular'
  PROVE  Regular
<1>1. stale \in BOOLEAN /\ blind \in BOOLEAN
  BY DEF TypeOK
<1>2. (stale => stale') /\ (blind => blind')
  BY <1>1 DEF Next, vars, history, Reconcile, Delete, Select, Flux, Install, Uninstall,
       CollectGarbage, Pass, Hold, GetAccess, DeploySource, DeployRelease, DropRelease,
       DropSource, LetGo, ListClusters, LetGoAll, Finish, CallFails, DeleteCallFails,
       ClusterPass, ReadCluster, EnsureFinalizer, EnsureAccess, Cleanup, DeleteAccess,
       FreeCluster, ClusterCallFails, Restart, DeleteCluster, Provider, AccessGranted,
       AccessGoes, Patch
<1>3. QED
  BY <1>2 DEF Regular

\* Steps that leave releases and the worker alone and drop no finalizer of a
\* HelmDeployment from the Cluster.
LEMMA Frame ==
  ASSUME TypeOK, Regular, Sound, UNCHANGED release,
         \A d \in Deployments : d \in cluster.finalizers => d \in cluster'.finalizers,
         UNCHANGED <<pc, at, copy, failed>> \/ pc' = "idle"
  PROVE  Held' /\ Relied'
<1>1. at \in Deployments
  BY DEF TypeOK
<1>2. Held'
  BY DEF Sound, Held
<1>3. Relied'
  BY <1>1 DEF Sound, Relied
<1>4. QED
  BY <1>2, <1>3

\* A patch of the worker, based on the finalizers the Cluster still has.
LEMMA WorkerPatch ==
  ASSUME TypeOK, NEW fs \in SUBSET Finalizers, CanPatch(fs), Patch(copy.finalizers, fs), ~stale'
  PROVE  cluster.finalizers = copy.finalizers /\ cluster'.finalizers = fs
BY PatchEffect, TypeParts

\* A patch of the cluster controller, likewise.
LEMMA ClusterPatch ==
  ASSUME TypeOK, NEW fs \in SUBSET Finalizers, CanPatch(fs), Patch(clusterCopy.finalizers, fs),
         ~stale', \/ fs = clusterCopy.finalizers \cup {"access"}
                  \/ fs = clusterCopy.finalizers \ {"access"}
  PROVE  \A d \in Deployments : d \in cluster.finalizers => d \in cluster'.finalizers
<1>1. cluster.finalizers = clusterCopy.finalizers /\ cluster'.finalizers = fs
  BY PatchEffect, TypeParts
<1>2. QED
  BY <1>1, HelmAssumption

\* The cluster controller takes no finalizer of a HelmDeployment, and begins to delete
\* the access only when there is none.
LEMMA ClusterPassSound ==
  ASSUME TypeOK, Regular, Sound, ClusterPass, Regular'
  PROVE  Sound'
<1>1. ~stale /\ ~stale' /\ UNCHANGED <<release, pc, at, copy, failed>>
  BY DEF ClusterPass, ReadCluster, EnsureFinalizer, EnsureAccess, Cleanup, DeleteAccess,
         FreeCluster, objects, worker, Regular
<1>2. /\ clusterCopy.finalizers \cup {"access"} \in SUBSET Finalizers
      /\ clusterCopy.finalizers \ {"access"} \in SUBSET Finalizers
  BY DEF TypeOK, ClusterType, Finalizers
<1>3. \A d \in Deployments : d \in cluster.finalizers => d \in cluster'.finalizers
  <2>1. CASE UNCHANGED cluster
    BY <2>1
  <2>2. CASE /\ CanPatch(clusterCopy.finalizers \cup {"access"})
             /\ Patch(clusterCopy.finalizers, clusterCopy.finalizers \cup {"access"})
    BY <1>1, <1>2, <2>2, ClusterPatch
  <2>3. CASE /\ CanPatch(clusterCopy.finalizers \ {"access"})
             /\ Patch(clusterCopy.finalizers, clusterCopy.finalizers \ {"access"})
    BY <1>1, <1>2, <2>3, ClusterPatch
  <2>4. QED
    BY <2>1, <2>2, <2>3
       DEF ClusterPass, ReadCluster, EnsureFinalizer, EnsureAccess, Cleanup, DeleteAccess,
           FreeCluster, objects
<1>4. Held' /\ Relied'
  BY <1>1, <1>3, Frame
<1>5. Quiet'
  <2>1. CASE UNCHANGED status /\ clusterPc' # "ensure"
    BY <1>1, <2>1 DEF Sound, Quiet
  <2>2. CASE status' # "InDeletion"
    BY <2>2 DEF Quiet
  <2>3. CASE Cleanup /\ status' = "InDeletion"
    <3>1. clusterPc' = "delete" /\ clusterCopy.finalizers = cluster.finalizers
      BY <1>1, <2>3 DEF Cleanup, Statuses
    <3>2. CASE status = "InDeletion"
      BY <1>1, <3>1, <3>2 DEF Sound, Quiet
    <3>3. CASE ~Needed(clusterCopy)
      <4>1. \A d \in Deployments : d \notin cluster.finalizers
        BY <3>1, <3>3 DEF Needed
      <4>2. at \in Deployments
        BY DEF TypeOK
      <4>3. QED
        BY <1>1, <3>1, <4>1, <4>2 DEF Sound, Held, Relied, Quiet
    <3>4. QED
      BY <2>3, <3>2, <3>3 DEF Cleanup
  <2>4. QED
    BY <2>1, <2>2, <2>3
       DEF ClusterPass, ReadCluster, EnsureFinalizer, EnsureAccess, DeleteAccess, Cleanup,
           FreeCluster, ClusterDone
<1>6. QED
  BY <1>4, <1>5 DEF Sound
\* Starting a pass: the copy of the Cluster is up to date.
LEMMA ReconcileSound ==
  ASSUME TypeOK, Sound, NEW d \in Deployments, Reconcile(d)
  PROVE  Sound'
<1>1. /\ UNCHANGED <<cluster, release, status, clusterPc>>
      /\ at' = d /\ pc' \in {"idle", "hold", "dropRelease", "deleteRelease"}
      /\ pc' = "hold" => copy' = cluster
  BY DEF Reconcile, access
<1>2. Held'
  BY <1>1 DEF Sound, Held
<1>3. Relied'
  BY <1>1 DEF Relied
<1>4. Quiet'
  BY <1>1 DEF Sound, Quiet
<1>5. QED
  BY <1>2, <1>3, <1>4 DEF Sound

\* The finalizer is put on the Cluster, or is there.
LEMMA HoldSound ==
  ASSUME TypeOK, Regular, Sound, Hold, Regular'
  PROVE  Sound'
<1> DEFINE fs == copy.finalizers \cup {at}
<1>1. /\ UNCHANGED <<release, status, clusterPc>> /\ ~stale'
      /\ at' = at /\ at \in Deployments /\ pc = "hold"
      /\ pc' \in {"idle", "access"}
  BY DEF Hold, Goto, Requeue, Done, access, TypeOK, Regular
<1>2. /\ \A d \in Deployments : d \in cluster.finalizers => d \in cluster'.finalizers
      /\ pc' = "access" => at \in cluster'.finalizers
  <2>1. CASE CanPatch(fs) /\ Patch(copy.finalizers, fs)
    <3>1. fs \in SUBSET Finalizers
      BY DEF TypeOK, ClusterType, Finalizers
    <3>2. cluster.finalizers = copy.finalizers /\ cluster'.finalizers = fs
      BY <1>1, <2>1, <3>1, WorkerPatch
    <3>3. QED
      BY <3>2
  <2>2. CASE at \in copy.finalizers /\ UNCHANGED cluster
    BY <1>1, <2>2 DEF Sound, Relied
  <2>3. CASE Requeue /\ UNCHANGED cluster
    BY <2>3 DEF Requeue, Done
  <2>4. QED
    BY <2>1, <2>2, <2>3 DEF Hold
<1>3. Held'
  BY <1>1, <1>2 DEF Sound, Held
<1>4. Relied'
  BY <1>1, <1>2 DEF Relied
<1>5. Quiet'
  BY <1>1 DEF Sound, Quiet
<1>6. QED
  BY <1>3, <1>4, <1>5 DEF Sound

\* Deploying: only a Cluster that is held gets a release.
LEMMA DeploySound ==
  ASSUME TypeOK, Sound, GetAccess \/ DeploySource \/ DeployRelease
  PROVE  Sound'
<1>1. /\ UNCHANGED <<cluster, status, clusterPc>> /\ at' = at /\ at \in Deployments
      /\ pc \in {"access", "source", "release"} /\ at \in cluster.finalizers
  BY DEF GetAccess, DeploySource, DeployRelease, Goto, End, Requeue, Done, access, objects,
         TypeOK, Sound, Relied
<1>2. CASE GetAccess
  <2>1. /\ UNCHANGED release
        /\ \/ pc' = "source" /\ status = "Ready"
           \/ pc' = "idle"
    BY <1>2 DEF GetAccess, Goto, Requeue, Done, objects
  <2>2. QED
    BY <1>1, <2>1 DEF Sound, Held, Relied, Quiet
<1>3. CASE DeploySource
  <2>1. UNCHANGED release /\ pc = "source" /\ pc' \in {"release", "idle"}
    BY <1>3 DEF DeploySource, Goto, Requeue, Done
  <2>2. QED
    BY <1>1, <2>1 DEF Sound, Held, Relied, Quiet
<1>4. CASE DeployRelease
  <2>1. /\ pc = "release" /\ pc' = "idle"
        /\ \A d \in Deployments \ {at} : release'[d] = release[d]
    BY <1>4 DEF DeployRelease, End, Requeue, Done, TypeOK
  <2>2. status # "InDeletion"
    BY <2>1 DEF Sound, Quiet
  <2>3. Held'
    BY <1>1, <2>1 DEF Sound, Held
  <2>4. Relied' /\ Quiet'
    BY <1>1, <2>1, <2>2 DEF Sound, Relied, Quiet
  <2>5. QED
    BY <2>3, <2>4 DEF Sound
<1>5. QED
  BY <1>2, <1>3, <1>4

\* Taking away: the Cluster is let go after the release is gone, or after an error.
LEMMA DropSound ==
  ASSUME TypeOK, Sound, DropRelease \/ DropSource \/ ListClusters
  PROVE  Sound'
<1>1. /\ UNCHANGED <<cluster, status, clusterPc>> /\ at' = at /\ at \in Deployments
      /\ pc' \notin {"hold", "access", "source", "release"}
  BY DEF DropRelease, DropSource, ListClusters, Goto, End, Requeue, Done, access, objects,
         TypeOK
<1>2. CASE DropRelease
  <2>1. /\ \A d \in Deployments : release'[d] = "absent" <=> release[d] = "absent"
        /\ pc' = "idle" \/ release'[at] = "absent"
    BY <1>1, <1>2 DEF DropRelease, Deleted, Requeue, Done, TypeOK, ReleaseStates
  <2>2. QED
    BY <1>1, <2>1 DEF Sound, Held, Relied, Quiet
<1>3. CASE DropSource
  <2>1. /\ UNCHANGED release
        /\ \/ pc' = "idle"
           \/ pc = "dropSource" /\ pc' = "letGo"
           \/ pc = "deleteSource" /\ pc' = "list" /\ UNCHANGED failed
    BY <1>3 DEF DropSource, Goto, Requeue, Done
  <2>2. QED
    BY <1>1, <2>1 DEF Sound, Held, Relied, Quiet
<1>4. CASE ListClusters
  BY <1>1, <1>4 DEF ListClusters, objects, Sound, Held, Relied, Quiet
<1>5. QED
  BY <1>2, <1>3, <1>4

\* Letting the Cluster go takes the finalizer of a HelmDeployment whose release is gone.
LEMMA LetGoSound ==
  ASSUME TypeOK, Regular, Sound, LetGo \/ LetGoAll \/ Finish, Regular'
  PROVE  Sound'
<1> DEFINE fs == copy.finalizers \ {at}
<1>1. /\ UNCHANGED <<release, status, clusterPc>> /\ ~stale' /\ ~blind'
      /\ at' = at /\ at \in Deployments /\ pc' \in {"idle", "finish"}
  BY DEF LetGo, LetGoAll, Finish, End, Requeue, Done, access, TypeOK, Regular
<1>2. \/ UNCHANGED cluster
      \/ /\ release[at] = "absent"
         /\ \A d \in Deployments \ {at} : d \in cluster.finalizers => d \in cluster'.finalizers
  <2>1. CASE CanPatch(fs) /\ Patch(copy.finalizers, fs) /\ release[at] = "absent"
    <3>1. fs \in SUBSET Finalizers
      BY DEF TypeOK, ClusterType, Finalizers
    <3>2. cluster.finalizers = copy.finalizers /\ cluster'.finalizers = fs
      BY <1>1, <2>1, <3>1, WorkerPatch
    <3>3. QED
      BY <2>1, <3>2
  <2>2. CASE LetGo
    BY <2>1, <2>2 DEF LetGo, Sound, Relied
  <2>3. CASE LetGoAll
    <3>1. UNCHANGED cluster \/ ~failed
      BY <1>1, <2>3 DEF LetGoAll, TypeOK
    <3>2. QED
      BY <2>1, <2>3, <3>1 DEF LetGoAll, Sound, Relied
  <2>4. CASE Finish
    BY <2>4 DEF Finish
  <2>5. QED
    BY <2>2, <2>3, <2>4
<1>3. Held'
  BY <1>1, <1>2 DEF Sound, Held
<1>4. Relied' /\ Quiet'
  BY <1>1 DEF Sound, Relied, Quiet
<1>5. QED
  BY <1>3, <1>4 DEF Sound

\* Failures: when handleDelete goes on without having deleted the release, it knows.
LEMMA FailureSound ==
  ASSUME TypeOK, Sound, CallFails \/ DeleteCallFails \/ ClusterCallFails
  PROVE  Sound'
<1>1. UNCHANGED <<cluster, release>> /\ at' = at /\ at \in Deployments
  BY DEF CallFails, DeleteCallFails, ClusterCallFails, Requeue, Done, worker, objects, TypeOK
<1>2. Held'
  BY <1>1 DEF Sound, Held
<1>3. CASE CallFails
  BY <1>1, <1>2, <1>3 DEF CallFails, Requeue, Done, access, Sound, Relied, Quiet
<1>4. CASE DeleteCallFails
  <2>1. /\ UNCHANGED <<status, clusterPc>> /\ failed'
        /\ pc' \in {"deleteSource", "list", "finish"}
    BY <1>4 DEF DeleteCallFails, access
  <2>2. Relied' /\ Quiet'
    BY <1>1, <2>1 DEF Sound, Relied, Quiet
  <2>3. QED
    BY <1>2, <2>2 DEF Sound
<1>5. CASE ClusterCallFails
  BY <1>1, <1>2, <1>5 DEF ClusterCallFails, ClusterDone, worker, Sound, Relied, Quiet
<1>6. QED
  BY <1>3, <1>4, <1>5

\* Restarts lose the map and the passes of both controllers.
LEMMA RestartSound ==
  ASSUME TypeOK, Sound, Restart
  PROVE  Sound'
BY DEF Restart, Done, ClusterDone, objects, Sound, Held, Relied, Quiet

\* Users, Flux and the provider: nothing is installed that was not released before.
LEMMA EnvironmentSound ==
  ASSUME TypeOK, Sound,
         \/ \E d \in Deployments : Delete(d) \/ Select(d) \/ Flux(d)
         \/ DeleteCluster \/ Provider
  PROVE  Sound'
<1>1. UNCHANGED <<pc, at, copy, failed, status, clusterPc>> /\ at \in Deployments
  BY DEF DeleteCluster, Delete, Select, Flux, Install, Uninstall, CollectGarbage,
         Provider, AccessGranted, AccessGoes, worker, access, TypeOK
<1>2. cluster'.finalizers = cluster.finalizers
  <2>1. CASE UNCHANGED cluster
    BY <2>1
  <2>2. CASE cluster' = NoCluster /\ cluster.finalizers = {}
    BY <2>2 DEF NoCluster
  <2>3. CASE cluster' = [cluster EXCEPT !.state = "deleting"]
    BY <2>3 DEF TypeOK, ClusterType
  <2>4. QED
    BY <2>1, <2>2, <2>3
       DEF DeleteCluster, Delete, Select, Flux, Install, Uninstall, CollectGarbage, Provider,
           AccessGranted, AccessGoes
<1>3. \A d \in Deployments : release'[d] # "absent" => release[d] # "absent"
  BY DEF DeleteCluster, Delete, Select, Flux, Install, Uninstall, CollectGarbage, Deleted,
         Provider, AccessGranted, AccessGoes, TypeOK, ReleaseStates
<1>4. Held'
  BY <1>2, <1>3 DEF Sound, Held
<1>5. Relied'
  BY <1>1, <1>2, <1>3 DEF Sound, Relied
<1>6. Quiet'
  BY <1>1, <1>3 DEF Sound, Quiet
<1>7. QED
  BY <1>4, <1>5, <1>6 DEF Sound

-----------------------------------------------------------------------------
(* The theorems *)

\* The invariant holds in every state.
LEMMA Inductive == Spec => []IInv
<1>1. Init => IInv
  BY TypeInit DEF Init, IInv, Sound, Held, Relied, Quiet
<1>2. IInv /\ [Next]_vars => IInv'
  <2> SUFFICES ASSUME IInv, [Next]_vars PROVE IInv'
    OBVIOUS
  <2>1. TypeOK /\ TypeOK'
    BY TypeStep DEF IInv
  <2> SUFFICES ASSUME Regular' PROVE Sound'
    BY <2>1 DEF IInv
  <2>2. Regular /\ Sound
    BY <2>1, RegularBefore DEF IInv
  <2>3. CASE UNCHANGED vars
    BY <2>2, <2>3 DEF vars, Sound, Held, Relied, Quiet
  <2>4. CASE Pass
    BY <2>1, <2>2, <2>4, HoldSound, DeploySound, DropSound, LetGoSound DEF Pass
  <2>5. QED
    BY <2>1, <2>2, <2>3, <2>4, ReconcileSound, ClusterPassSound, FailureSound, RestartSound,
       EnvironmentSound DEF Next
<1>3. QED
  BY <1>1, <1>2, PTL DEF Spec

\* HeldWhileReleased, with any number of HelmDeployments, changes, failing calls and
\* restarts: nobody can delete a Cluster with a release on it.
THEOREM HeldWhileReleasedAlways == Spec => []HeldWhileReleased
<1>1. IInv => HeldWhileReleased
  BY DEF IInv, Sound, Held, HeldWhileReleased
<1>2. QED
  BY <1>1, Inductive, PTL

\* AccessOutlivesReleases: the deletion of the access begins when no release is left,
\* although the cluster controller decides on an earlier copy and lets the other
\* controller run in between, and whatever calls fail.
THEOREM AccessOutlivesReleasesAlways == Spec => AccessOutlivesReleases
<1>1. ASSUME IInv, [Next]_vars, ar # "deleting", ar' = "deleting", Regular
      PROVE  \A d \in Deployments : release[d] = "absent"
  <2>1. DeleteAccess
    BY <1>1 DEF Next, vars, objects, Reconcile, Delete, Select, Flux, Install, Uninstall,
         CollectGarbage, Pass, Hold, GetAccess, DeploySource, DeployRelease, DropRelease,
         DropSource, LetGo, ListClusters, LetGoAll, Finish, CallFails, DeleteCallFails,
         ClusterPass, ReadCluster, EnsureFinalizer, EnsureAccess, Cleanup, FreeCluster,
         ClusterCallFails, Restart, DeleteCluster, Provider, AccessGranted, AccessGoes
  <2>2. status = "InDeletion"
    BY <1>1, <2>1 DEF DeleteAccess, IInv, TypeOK
  <2>3. QED
    BY <1>1, <2>2 DEF IInv, Sound, Quiet
<1>2. IInv /\ [Next]_vars =>
        [ar # "deleting" /\ ar' = "deleting" /\ Regular
           => \A d \in Deployments : release[d] = "absent"]_vars
  BY <1>1
<1>3. QED
  BY <1>2, Inductive, PTL DEF Spec, AccessOutlivesReleases

=============================================================================

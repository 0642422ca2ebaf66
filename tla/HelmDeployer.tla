----------------------------- MODULE HelmDeployer -----------------------------
(***************************************************************************)
(* The Helm deployer (internal/controllers/helm): it installs a chart on   *)
(* every Cluster a HelmDeployment selects.                                 *)
(*                                                                         *)
(* Two controllers run in one process.  The HelmDeployment controller puts *)
(* a finalizer on each selected Cluster, deploys a Flux source and a       *)
(* HelmRelease for it, and takes all of that away again.  The cluster      *)
(* controller sees to the access to the Cluster as long as a finalizer of  *)
(* a HelmDeployment is on it; nothing wakes it but the other controller.   *)
(* They share a map under a lock, and the finalizers of the Cluster, which *)
(* both replace as a whole by merge patches computed from an earlier read. *)
(*                                                                         *)
(* One Cluster is modelled with all the HelmDeployments.  Each read whose  *)
(* result is used later and each call that changes something is an action  *)
(* of its own.  Flux and the AccessRequest behind the library (module      *)
(* AccessLifecycle) are external here.                                     *)
(***************************************************************************)
EXTENDS FiniteSets, Naturals

CONSTANTS
  Deployments,    \* HelmDeployments
  MaxEvents       \* bound: HelmDeployments, changes, failing calls and restarts

ASSUME HelmAssumption ==
  /\ IsFiniteSet(Deployments)
  /\ "access" \notin Deployments
  /\ MaxEvents \in Nat

VARIABLES
  hd,           \* the HelmDeployments; a "new" one has not been seen yet, a "gone"
                \* one does not exist
  matches,      \* those that select the Cluster
  cluster,      \* the Cluster
  source,       \* those with a Flux source
  release,      \* the HelmReleases
  ar,           \* the AccessRequest for the Cluster, with its Secret
  queue,        \* HelmDeployments in the work queue
  pc,           \* where the worker of the HelmDeployment controller is
  at,           \* the HelmDeployment it works on
  copy,         \* its copy of the Cluster
  failed,       \* has it collected an error?
  trigger,      \* is the Cluster in the work queue of the cluster controller?
  clusterPc,    \* where the worker of that controller is
  clusterCopy,  \* its copy of the Cluster
  status,       \* clustersWithAccess[cluster], "none" without an entry
  stale,        \* has a controller acted on finalizers the other had changed meanwhile?
  blind,        \* has handleDelete let the Cluster go in spite of an error?
  events,       \* number of events
  restarted     \* has the process been restarted?

objects == <<hd, matches, cluster, source, release, ar>>
worker == <<queue, pc, at, copy, failed>>
access == <<trigger, clusterPc, clusterCopy, status>>
history == <<stale, blind>>
bounds == <<events, restarted>>
vars == <<hd, matches, cluster, source, release, ar, queue, pc, at, copy, failed, trigger,
          clusterPc, clusterCopy, status, stale, blind, events, restarted>>

-----------------------------------------------------------------------------
States == {"absent", "active", "deleting"}
ClusterType == [state: States, finalizers: SUBSET (Deployments \cup {"access"})]
NoCluster == [state |-> "absent", finalizers |-> {}]

DeploymentStates == {"new", "active", "deleting", "gone"}
ReleaseStates == {"absent", "new", "ready", "deleting"}
AccessStates == {"absent", "pending", "granted", "deleting"}
Statuses == {"none", "Waiting", "Ready", "InDeletion"}

Existing == {d \in Deployments : hd[d] # "gone"}

Deleted(state) == IF state = "absent" THEN "absent" ELSE "deleting"

Init ==
  /\ hd \in [Deployments -> {"new", "gone"}]
  /\ matches = Deployments
  /\ cluster = [NoCluster EXCEPT !.state = "active"]
  /\ source = {}
  /\ release = [d \in Deployments |-> "absent"]
  /\ ar = "absent"
  /\ queue = Existing
  /\ pc = "idle"
  /\ at \in Deployments
  /\ copy = NoCluster
  /\ failed = FALSE
  /\ trigger = FALSE
  /\ clusterPc = "idle"
  /\ clusterCopy = NoCluster
  /\ status = "none"
  /\ stale = FALSE
  /\ blind = FALSE
  /\ events = Cardinality(Existing)
  /\ restarted = FALSE

Event ==
  /\ events < MaxEvents
  /\ events' = events + 1

\* A merge patch from the finalizers of a copy to fs.  None can be added in deletion.
CanPatch(fs) ==
  /\ cluster.state # "absent"
  /\ cluster.state = "deleting" => fs \subseteq cluster.finalizers

Patch(from, fs) ==
  /\ cluster' = IF cluster.state = "deleting" /\ fs = {}
                  THEN NoCluster
                  ELSE [cluster EXCEPT !.finalizers = fs]
  /\ stale' = (stale \/ cluster.finalizers # from)

-----------------------------------------------------------------------------
(* The HelmDeployment controller *)

Goto(step) ==
  /\ pc' = step
  /\ UNCHANGED <<queue, at, copy, failed>>

\* A pass ends.  The copy is of no use any more.
Done ==
  /\ pc' = "idle"
  /\ copy' = NoCluster
  /\ failed' = FALSE
  /\ UNCHANGED at

End ==
  /\ Done
  /\ UNCHANGED queue

\* A condition that is not true or an error brings it back.
Requeue ==
  /\ Done
  /\ queue' = queue \cup {at}

\* The HelmDeployment is read, gets its finalizer, and the Clusters are listed.
Reconcile(d) ==
  /\ pc = "idle"
  /\ d \in queue
  /\ queue' = queue \ {d}
  /\ at' = d
  /\ \/ /\ hd[d] \in {"new", "active"}
        /\ hd' = [hd EXCEPT ![d] = "active"]
        /\ IF cluster.state = "absent"
             THEN UNCHANGED <<pc, copy>>
             ELSE /\ copy' = cluster
                  /\ pc' = IF d \in matches /\ cluster.state = "active"
                             THEN "hold" ELSE "dropRelease"
     \/ /\ hd[d] = "deleting"
        /\ pc' = "deleteRelease"
        /\ UNCHANGED <<hd, copy>>
     \/ /\ hd[d] = "gone"
        /\ UNCHANGED <<hd, pc, copy>>
  /\ UNCHANGED <<matches, cluster, source, release, ar, failed, access, bounds, history>>

\* The finalizer on the Cluster, before anything else.
Hold ==
  /\ pc = "hold"
  /\ \/ /\ at \in copy.finalizers
        /\ Goto("access")
        /\ UNCHANGED <<cluster, stale>>
     \/ /\ at \notin copy.finalizers
        /\ CanPatch(copy.finalizers \cup {at})
        /\ Patch(copy.finalizers, copy.finalizers \cup {at})
        /\ Goto("access")
     \/ /\ at \notin copy.finalizers
        /\ ~CanPatch(copy.finalizers \cup {at})
        /\ Requeue
        /\ UNCHANGED <<cluster, stale>>
  /\ UNCHANGED <<hd, matches, source, release, ar, access, bounds, blind>>


\* GetAccessForCluster, which waits while the cluster controller has the lock.
GetAccess ==
  /\ pc = "access"
  /\ clusterPc \in {"idle", "lock"}
  /\ \/ /\ status = "Ready" /\ ar = "granted"
        /\ Goto("source")
        /\ UNCHANGED trigger
     \/ /\ ~(status = "Ready" /\ ar = "granted")
        /\ Requeue
        /\ trigger' = TRUE
  /\ UNCHANGED <<objects, clusterPc, clusterCopy, status, bounds, history>>

\* deployHelmChartSource: a source that is not ready, which is up to Flux, has the
\* pass repeated.
DeploySource ==
  /\ pc = "source"
  /\ source' = source \cup {at}
  /\ Goto("release") \/ Requeue
  /\ UNCHANGED <<hd, matches, cluster, release, ar, access, bounds, history>>

\* deployHelmRelease, and a look whether it is ready.
DeployRelease ==
  /\ pc = "release"
  /\ release' = IF release[at] = "absent" THEN [release EXCEPT ![at] = "new"] ELSE release
  /\ IF release[at] = "ready" THEN End ELSE Requeue
  /\ UNCHANGED <<hd, matches, cluster, source, ar, access, bounds, history>>


\* Mutant: a release that is being uninstalled is not waited for.
DropReleaseAndGoOn ==
  /\ pc \in {"dropRelease", "deleteRelease"}
  /\ release' = [release EXCEPT ![at] = Deleted(release[at])]
  /\ Goto(IF pc = "dropRelease" THEN "dropSource" ELSE "deleteSource")
  /\ UNCHANGED <<hd, matches, cluster, source, ar, access, bounds, history>>

\* A Cluster that is not selected or is in deletion: the release goes before its
\* source, and then the Cluster is let go and the cluster controller told.
DropRelease ==
  /\ pc \in {"dropRelease", "deleteRelease"}
  /\ release' = [release EXCEPT ![at] = Deleted(release[at])]
  /\ IF release[at] # "absent"
       THEN Requeue
       ELSE Goto(IF pc = "dropRelease" THEN "dropSource" ELSE "deleteSource")
  /\ UNCHANGED <<hd, matches, cluster, source, ar, access, bounds, history>>

DropSource ==
  /\ pc \in {"dropSource", "deleteSource"}
  /\ source' = source \ {at}
  /\ IF at \in source
       THEN Requeue
       ELSE Goto(IF pc = "dropSource" THEN "letGo" ELSE "list")
  /\ UNCHANGED <<hd, matches, cluster, release, ar, access, bounds, history>>

\* Mutant: the cluster controller is not told.
LetGoSilently ==
  /\ pc = "letGo"
  /\ IF CanPatch(copy.finalizers \ {at})
       THEN End /\ Patch(copy.finalizers, copy.finalizers \ {at})
       ELSE Requeue /\ UNCHANGED <<cluster, stale>>
  /\ UNCHANGED <<hd, matches, source, release, ar, access, bounds, blind>>

LetGo ==
  /\ pc = "letGo"
  /\ \/ /\ at \notin copy.finalizers
        /\ End
        /\ UNCHANGED <<cluster, stale, trigger>>
     \/ /\ at \in copy.finalizers
        /\ CanPatch(copy.finalizers \ {at})
        /\ Patch(copy.finalizers, copy.finalizers \ {at})
        /\ trigger' = TRUE
        /\ End
     \/ /\ at \in copy.finalizers
        /\ ~CanPatch(copy.finalizers \ {at})
        /\ Requeue
        /\ UNCHANGED <<cluster, stale, trigger>>
  /\ UNCHANGED <<hd, matches, source, release, ar, clusterPc, clusterCopy, status, bounds, blind>>

\* handleDelete goes on in the same way for all Clusters, listed anew.
ListClusters ==
  /\ pc = "list"
  /\ copy' = cluster
  /\ pc' = "letGoAll"
  /\ UNCHANGED <<objects, queue, at, failed, access, bounds, history>>

LetGoAll ==
  /\ pc = "letGoAll"
  /\ pc' = "finish"
  /\ \/ /\ at \notin copy.finalizers
        /\ UNCHANGED <<cluster, history, failed, trigger>>
     \/ /\ at \in copy.finalizers
        /\ CanPatch(copy.finalizers \ {at})
        /\ Patch(copy.finalizers, copy.finalizers \ {at})
        /\ blind' = (blind \/ failed)
        /\ trigger' = TRUE
        /\ UNCHANGED failed
     \/ /\ at \in copy.finalizers
        /\ ~CanPatch(copy.finalizers \ {at})
        /\ failed' = TRUE
        /\ UNCHANGED <<cluster, history, trigger>>
  /\ UNCHANGED <<hd, matches, source, release, ar, queue, at, copy, clusterPc, clusterCopy, status,
                 bounds>>

\* Without an error the HelmDeployment loses its finalizer.
Finish ==
  /\ pc = "finish"
  /\ IF failed
       THEN Requeue /\ UNCHANGED hd
       ELSE End /\ hd' = [hd EXCEPT ![at] = "gone"]
  /\ UNCHANGED <<matches, cluster, source, release, ar, access, bounds, history>>

Failure ==
  /\ Event
  /\ UNCHANGED restarted

\* A failing call ends the pass.  So does, in the end, one that should delete a
\* release or a source: handleDelete knows then that they are still there.
CallFails ==
  /\ pc \notin {"idle", "letGoAll"}
  /\ Failure
  /\ Requeue
  /\ UNCHANGED <<objects, access, history>>

\* In handleDelete a list that could not be read counts as empty, and a Cluster that
\* cannot be patched is left out.  The error is collected and the pass goes on.
DeleteCallFails ==
  /\ pc \in {"deleteRelease", "deleteSource", "letGoAll"}
  /\ Failure
  /\ failed' = TRUE
  /\ pc' = CASE pc = "deleteRelease" -> "deleteSource"
             [] pc = "deleteSource"  -> "list"
             [] pc = "letGoAll"      -> "finish"
  /\ UNCHANGED <<objects, queue, at, copy, access, history>>

-----------------------------------------------------------------------------
(* The cluster controller *)

Needed(c) == c.finalizers \cap Deployments # {}

ClusterDone ==
  /\ clusterPc' = "idle"
  /\ clusterCopy' = NoCluster

\* The Cluster is read before the lock is taken.
ReadCluster ==
  /\ clusterPc = "idle"
  /\ trigger
  /\ trigger' = FALSE
  /\ IF cluster.state = "absent"
       THEN UNCHANGED <<clusterPc, clusterCopy>>
       ELSE clusterPc' = "lock" /\ clusterCopy' = cluster
  /\ UNCHANGED <<objects, worker, status, bounds, history>>

\* Access is required and its deletion has not begun.
EnsureFinalizer ==
  /\ clusterPc = "lock"
  /\ Needed(clusterCopy)
  /\ status \in {"none", "Waiting", "Ready"}
  /\ status' = IF status = "none" THEN "Waiting" ELSE status
  /\ \/ /\ "access" \in clusterCopy.finalizers
        /\ clusterPc' = "ensure"
        /\ UNCHANGED <<cluster, stale, trigger, clusterCopy>>
     \/ /\ "access" \notin clusterCopy.finalizers
        /\ CanPatch(clusterCopy.finalizers \cup {"access"})
        /\ Patch(clusterCopy.finalizers, clusterCopy.finalizers \cup {"access"})
        /\ clusterPc' = "ensure"
        /\ UNCHANGED <<trigger, clusterCopy>>
     \/ /\ "access" \notin clusterCopy.finalizers
        /\ ~CanPatch(clusterCopy.finalizers \cup {"access"})
        /\ ClusterDone
        /\ trigger' = TRUE
        /\ UNCHANGED <<cluster, stale>>
  /\ UNCHANGED <<hd, matches, source, release, ar, worker, bounds, blind>>

\* car.Reconcile.
EnsureAccess ==
  /\ clusterPc = "ensure"
  /\ ClusterDone
  /\ ar' = IF ar = "absent" THEN "pending" ELSE ar
  /\ IF ar = "granted"
       THEN status' = "Ready" /\ UNCHANGED trigger
       ELSE trigger' = TRUE /\ UNCHANGED status
  /\ UNCHANGED <<hd, matches, cluster, source, release, worker, bounds, history>>

\* Mutant: the map does not say that the access is in deletion.
CleanupUnmarked ==
  /\ clusterPc = "lock"
  /\ ~Needed(clusterCopy)
  /\ "access" \in clusterCopy.finalizers
  /\ clusterPc' = "delete"
  /\ UNCHANGED <<objects, worker, trigger, clusterCopy, status, bounds, history>>

\* Access is not required any more, or is while its deletion has begun
\* ("DeletingButRequired"): then it goes first.
Cleanup ==
  /\ clusterPc = "lock"
  /\ ~Needed(clusterCopy) \/ status = "InDeletion"
  /\ \/ /\ "access" \in clusterCopy.finalizers
        /\ status' = "InDeletion"
        /\ stale' = (stale \/ clusterCopy.finalizers # cluster.finalizers)
        /\ clusterPc' = "delete"
        /\ UNCHANGED clusterCopy
     \/ /\ "access" \notin clusterCopy.finalizers
        /\ status' = "none"
        /\ ClusterDone
        /\ UNCHANGED stale
  /\ UNCHANGED <<objects, worker, trigger, bounds, blind>>

\* car.ReconcileDelete.
DeleteAccess ==
  /\ clusterPc = "delete"
  /\ \/ /\ ar = "absent"
        /\ clusterPc' = "free"
        /\ UNCHANGED <<ar, trigger, clusterCopy>>
     \/ /\ ar # "absent"
        /\ ar' = "deleting"
        /\ ClusterDone
        /\ trigger' = TRUE
  /\ UNCHANGED <<hd, matches, cluster, source, release, worker, status, bounds, history>>

\* The finalizer goes, by a patch of the copy read at the start.  Access that is
\* required again is looked after soon.
FreeCluster ==
  /\ clusterPc = "free"
  /\ ClusterDone
  /\ \/ /\ CanPatch(clusterCopy.finalizers \ {"access"})
        /\ Patch(clusterCopy.finalizers, clusterCopy.finalizers \ {"access"})
        /\ status' = "none"
        /\ trigger' = (trigger \/ Needed(clusterCopy))
     \/ /\ ~CanPatch(clusterCopy.finalizers \ {"access"})
        /\ trigger' = TRUE
        /\ UNCHANGED <<cluster, stale, status>>
  /\ UNCHANGED <<hd, matches, source, release, ar, worker, bounds, blind>>

ClusterCallFails ==
  /\ clusterPc # "idle"
  /\ Failure
  /\ ClusterDone
  /\ trigger' = TRUE
  /\ UNCHANGED <<objects, worker, status, history>>

-----------------------------------------------------------------------------
(* The environment *)

\* The map, the work queues and what was to be queued again are lost.
Restart ==
  /\ Event
  /\ restarted' = TRUE
  /\ queue' = Existing
  /\ Done
  /\ ClusterDone
  /\ trigger' = FALSE
  /\ status' = "none"
  /\ UNCHANGED <<objects, history>>

Delete(d) ==
  /\ hd[d] \in {"new", "active"}
  /\ hd' = [hd EXCEPT ![d] = IF hd[d] = "new" THEN "gone" ELSE "deleting"]
  /\ queue' = queue \cup {d}
  /\ UNCHANGED <<matches, cluster, source, release, ar, pc, at, copy, failed, access, bounds,
                 history>>

\* A selector of a HelmDeployment changes, which queues that one, or a label of the
\* Cluster, which queues all.
Select(d) ==
  /\ Event
  /\ matches' = IF d \in matches THEN matches \ {d} ELSE matches \cup {d}
  /\ \/ hd[d] # "gone" /\ queue' = queue \cup {d}
     \/ queue' = Existing
  /\ UNCHANGED <<hd, cluster, source, release, ar, pc, at, copy, failed, access, restarted,
                 history>>

DeleteCluster ==
  /\ cluster.state = "active"
  /\ Event
  /\ queue' = Existing
  /\ cluster' = IF cluster.finalizers = {} THEN NoCluster ELSE [cluster EXCEPT !.state = "deleting"]
  /\ UNCHANGED <<hd, matches, source, release, ar, pc, at, copy, failed, access, restarted,
                 history>>

\* Flux needs the Secret of the AccessRequest to install and to uninstall.
Install(d) ==
  /\ release[d] = "new"
  /\ d \in source
  /\ ar \in {"granted", "deleting"}
  /\ release' = [release EXCEPT ![d] = "ready"]
  /\ UNCHANGED <<hd, matches, cluster, source, ar, worker, access, bounds, history>>

Uninstall(d) ==
  /\ release[d] = "deleting"
  /\ ar \in {"granted", "deleting"}
  /\ release' = [release EXCEPT ![d] = "absent"]
  /\ UNCHANGED <<hd, matches, cluster, source, ar, worker, access, bounds, history>>

\* The Cluster owns both.
CollectGarbage(d) ==
  /\ cluster.state = "absent"
  /\ d \in source \/ release[d] \in {"new", "ready"}
  /\ source' = source \ {d}
  /\ release' = [release EXCEPT ![d] = Deleted(release[d])]
  /\ UNCHANGED <<hd, matches, cluster, ar, worker, access, bounds, history>>

AccessGranted ==
  /\ ar = "pending"
  /\ ar' = "granted"
  /\ UNCHANGED <<hd, matches, cluster, source, release, worker, access, bounds, history>>

AccessGoes ==
  /\ ar = "deleting"
  /\ ar' = "absent"
  /\ UNCHANGED <<hd, matches, cluster, source, release, worker, access, bounds, history>>

-----------------------------------------------------------------------------
Pass ==
  \/ Hold
  \/ GetAccess
  \/ DeploySource
  \/ DeployRelease
  \/ DropRelease
  \/ DropSource
  \/ LetGo
  \/ ListClusters
  \/ LetGoAll
  \/ Finish

ClusterPass ==
  \/ ReadCluster
  \/ EnsureFinalizer
  \/ EnsureAccess
  \/ Cleanup
  \/ DeleteAccess
  \/ FreeCluster

Flux(d) ==
  \/ Install(d)
  \/ Uninstall(d)
  \/ CollectGarbage(d)

Provider ==
  \/ AccessGranted
  \/ AccessGoes

Next ==
  \/ \E d \in Deployments :
       \/ Reconcile(d)
       \/ Delete(d)
       \/ Select(d)
       \/ Flux(d)
  \/ Pass
  \/ CallFails
  \/ DeleteCallFails
  \/ ClusterPass
  \/ ClusterCallFails
  \/ Restart
  \/ DeleteCluster
  \/ Provider

Spec == Init /\ [][Next]_vars

\* The workers go on and serve everything in their queues, as do Flux and the
\* provider.
Fairness ==
  /\ WF_vars(Pass)
  /\ SF_vars(DeploySource /\ pc' = "release")
  /\ WF_vars(ClusterPass)
  /\ WF_vars(Provider)
  /\ \A d \in Deployments :
       /\ SF_vars(Reconcile(d))
       /\ WF_vars(Flux(d))

FairSpec == Spec /\ Fairness

-----------------------------------------------------------------------------
(* Properties *)

\* The values the variables may have, and that the map shows the HelmDeployments an
\* access that is being deleted.
TypeOK ==
  /\ hd \in [Deployments -> DeploymentStates]
  /\ matches \subseteq Deployments
  /\ cluster \in ClusterType
  /\ cluster.state = "absent" => cluster.finalizers = {}
  /\ cluster.state = "deleting" => cluster.finalizers # {}
  /\ source \subseteq Deployments
  /\ release \in [Deployments -> ReleaseStates]
  /\ ar \in AccessStates
  /\ queue \subseteq Deployments
  /\ pc \in {"idle", "hold", "access", "source", "release", "dropRelease", "dropSource",
             "letGo", "deleteRelease", "deleteSource", "list", "letGoAll", "finish"}
  /\ at \in Deployments
  /\ copy \in ClusterType
  /\ failed \in BOOLEAN
  /\ trigger \in BOOLEAN
  /\ clusterPc \in {"idle", "lock", "ensure", "delete", "free"}
  /\ clusterCopy \in ClusterType
  /\ status \in Statuses
  /\ clusterPc \in {"delete", "free"} => status = "InDeletion"
  /\ stale \in BOOLEAN
  /\ blind \in BOOLEAN
  /\ events \in Nat
  /\ restarted \in BOOLEAN

\* Has nothing happened that the code does not repair: a controller replaced
\* finalizers that had changed after it read them, or handleDelete went on to the
\* Clusters after an error?
Regular == ~stale /\ ~blind

\* Nobody can delete a Cluster with a release on it: it has the finalizer of the
\* HelmDeployment until the release is uninstalled, however many calls fail.  Two
\* executions are left out: those where a controller acts on outdated finalizers, and
\* those where handleDelete goes on after an error, because it could not list releases
\* for example, and lets the Cluster go in the same pass.
HeldWhileReleased ==
  Regular => \A d \in Deployments : release[d] # "absent" => d \in cluster.finalizers

\* The access is kept until no release needs it, with the same two exceptions.
AccessOutlivesReleases ==
  [][ar # "deleting" /\ ar' = "deleting" /\ Regular
     => \A d \in Deployments : release[d] = "absent"]_vars

Wanted(d) ==
  /\ hd[d] \in {"new", "active"}
  /\ d \in matches
  /\ cluster.state = "active"



Unused == "access" \in cluster.finalizers /\ ~Needed(cluster)

\* Access nobody needs any more is given up, as long as the process is not restarted:
\* only the HelmDeployment controller tells the cluster controller, and only once.
EventuallyReleased ==
  <>~Regular \/ ((Unused /\ ~restarted) ~> (~Unused \/ restarted))

=============================================================================

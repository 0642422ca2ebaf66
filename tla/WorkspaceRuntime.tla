--------------------------- MODULE WorkspaceRuntime ---------------------------
(***************************************************************************)
(* The KCP workspace mode: the runtime of one workspace                    *)
(* (cmd/openmcp-operator/app/mcp) and the guard that refuses to disconnect *)
(* a workspace in use (internal/disconnectguard).                          *)
(*                                                                         *)
(* Each engagement of the workspace starts a goroutine that reconciles at  *)
(* every tick until its context is cancelled; it then sets a timer, and    *)
(* the timer removes the runtime unless the workspace has been engaged     *)
(* again.  Engagements, timers and the guard share two maps under a mutex; *)
(* the work itself runs without the mutex.  The objects live on two API    *)
(* servers: the platform cluster and the workspace.  Each call that        *)
(* changes something is an action of its own, together with the reads      *)
(* before it; the cleanup's release and deletion of a request are one.     *)
(* A write that meets a newer object fails, as any call may.               *)
(*                                                                         *)
(* Coarser than the code: two cleanups of one workspace run one after the  *)
(* other, although the delay of a timer may be shorter than a cleanup;     *)
(* and the goroutine of an engagement ends, and sets its timer, together   *)
(* with the engagement.  The provider's Deployment, its ServiceProvider    *)
(* and its RBAC are one object of the runtime's namespace, although the    *)
(* ServiceProvider and the ClusterRole are cluster-scoped, and the         *)
(* ServiceProvider outlives the workspace.                                 *)
(*                                                                         *)
(* One service provider, with one ClusterRequest and one AccessRequest,    *)
(* stands for all of them.  The provider, the ControlPlane controller      *)
(* (module ControlPlane), KCP and Kubernetes are external here.            *)
(***************************************************************************)
EXTENDS Naturals, Sequences

CONSTANTS
  MaxEngagements,   \* bound: engagements of the workspace
  MaxEvents         \* bound: failing calls, requests dropped, orders, workspace deletions

ASSUME RuntimeAssumption ==
  /\ MaxEngagements \in Nat
  /\ MaxEvents \in Nat

VARIABLES
  (* the workspace *)
  binding,      \* the APIBinding
  leaving,      \* is the workspace itself being deleted?
  orders,       \* service objects: "none", "before" or "during" a deletion under way
  webhook,      \* does the disconnect webhook exist?
  home,         \* the namespace of the ControlPlane
  marker,       \* the Secret that says the default ControlPlane was created once
  cp,           \* the default ControlPlane, held by its controller
  access,       \* are the namespace and ServiceAccounts of the AccessRequest there?
  grants,       \* are its roles and bindings there?
  orphans,      \* can an account of an AccessRequest that is gone still do something?
  (* the platform cluster *)
  namespace,    \* the runtime's namespace
  cluster,      \* the Cluster that stands for the workspace
  deployed,     \* are the service provider and its RBAC there?
  cr, ar,       \* the provider's ClusterRequest and AccessRequest
  secret,       \* the token in the Secret of the AccessRequest
  (* the operator *)
  engaged,      \* is the context of the newest engagement alive?
  engagements,  \* number of engagements so far
  entry,        \* generations[name] and workspaces[name], 0 without an entry
  timers,       \* generations with a cleanup timer, in the order they fire
  pc,           \* where the reconciliation of the newest engagement is
  minted,       \* the token it has minted
  cleaner,      \* where the cleanup is
  asked,        \* has the guard allowed a deletion of the binding that is under way?
  events        \* number of bounded events

workspace == <<binding, leaving, orders, webhook, home, marker, cp, access, grants, orphans>>
platform == <<namespace, cluster, deployed, cr, ar, secret>>
engagement == <<engaged, engagements, entry, timers>>
run == <<pc, minted>>

vars == <<binding, leaving, orders, webhook, home, marker, cp, access, grants, orphans, namespace,
          cluster, deployed, cr, ar, secret, engaged, engagements, entry, timers, pc, minted,
          cleaner, asked, events>>

-----------------------------------------------------------------------------
States == {"absent", "active", "deleting"}

\* "held": a finalizer of the runtime is on the object.
ClusterType == [state: States, held: BOOLEAN]
NoCluster == [state |-> "absent", held |-> FALSE]

RequestType == [state: States, held: BOOLEAN, granted: BOOLEAN]
NoRequest == [state |-> "absent", held |-> FALSE, granted |-> FALSE]

\* "resolved": the labels and the clusterRef are set.
AccessType == [state: States, held: BOOLEAN, granted: BOOLEAN, resolved: BOOLEAN]
NoAccess == [state |-> "absent", held |-> FALSE, granted |-> FALSE, resolved |-> FALSE]

\* A token is void when its ServiceAccount is not that one any more.
Tokens == {"none", "works", "void"}

\* Delete, and the removal of the finalizer.
Deleted(object, none) ==
  IF object.held THEN [object EXCEPT !.state = "deleting"] ELSE none

Released(object, none) ==
  IF object.state = "deleting" THEN none ELSE [object EXCEPT !.held = FALSE]

Ending(state) == IF state = "active" THEN "deleting" ELSE state

Init ==
  /\ binding = "active"
  /\ leaving = FALSE
  /\ orders = "none"
  /\ webhook = FALSE
  /\ home = "absent"
  /\ marker = FALSE
  /\ cp = "absent"
  /\ access = FALSE
  /\ grants = FALSE
  /\ orphans = FALSE
  /\ namespace = "absent"
  /\ cluster = NoCluster
  /\ deployed = FALSE
  /\ cr = NoRequest
  /\ ar = NoAccess
  /\ secret = "none"
  /\ engaged = FALSE
  /\ engagements = 0
  /\ entry = 0
  /\ timers = <<>>
  /\ pc = "idle"
  /\ minted = "none"
  /\ cleaner = "idle"
  /\ asked = FALSE
  /\ events = 0

Event ==
  /\ events < MaxEvents
  /\ events' = events + 1

\* The AccessRequest becomes a.  When it goes, Kubernetes deletes the Secret it
\* owns, and what was made for its UID belongs to no AccessRequest any more.
ChangeAccess(a) ==
  /\ ar' = a
  /\ IF ar.state # "absent" /\ a.state = "absent"
       THEN /\ orphans' = (orphans \/ (grants /\ access))
            /\ access' = FALSE
            /\ grants' = FALSE
            /\ secret' = "none"
       ELSE UNCHANGED <<orphans, access, grants, secret>>

\* Deleting the access namespace takes the ServiceAccounts along.
WithoutAccount(token) == IF token = "works" THEN "void" ELSE token

-----------------------------------------------------------------------------
(* Engagements *)

\* Engage: the maps are changed and the goroutine starts.
Engage ==
  /\ binding = "active"
  /\ ~engaged
  /\ engagements < MaxEngagements
  /\ engaged' = TRUE
  /\ engagements' = engagements + 1
  /\ entry' = entry + 1
  /\ UNCHANGED <<workspace, platform, timers, run, cleaner, asked, events>>

Idle ==
  /\ pc' = "idle"
  /\ minted' = "none"

\* The context is cancelled: what the reconciliation still tries fails, and its
\* goroutine calls scheduleCleanup, in the model at once.
Disengage ==
  /\ engaged
  /\ engaged' = FALSE
  /\ timers' = Append(timers, entry)
  /\ Idle
  /\ UNCHANGED <<workspace, platform, engagements, entry, cleaner, asked, events>>

\* Mutant: the timer does not ask whether there was another engagement.
TimerFiresAnyway ==
  /\ timers # <<>>
  /\ cleaner \in {"idle", "failed"}
  /\ timers' = Tail(timers)
  /\ entry' = 0
  /\ cleaner' = "access"
  /\ UNCHANGED <<workspace, platform, engaged, engagements, run, asked, events>>

\* The timer's function up to the unlock.  That an earlier cleanup has ended before is
\* an assumption: it may take longer than the delay.
TimerFires ==
  /\ timers # <<>>
  /\ cleaner \in {"idle", "failed"}
  /\ timers' = Tail(timers)
  /\ IF entry = Head(timers)
       THEN entry' = 0 /\ cleaner' = "access"
       ELSE UNCHANGED <<entry, cleaner>>
  /\ UNCHANGED <<workspace, platform, engaged, engagements, run, asked, events>>

-----------------------------------------------------------------------------
(* The reconciliation: the workspace and the platform namespace *)

Goto(step) ==
  /\ pc' = step
  /\ UNCHANGED minted

\* A reconciliation starts, at once and at every tick: workspaceBinding, where a
\* binding in deletion is found like any other, and the namespace of ensureDefault;
\* then the marker is looked up.
EnsureHome ==
  /\ engaged
  /\ pc = "idle"
  /\ binding # "absent"
  /\ home' = IF home = "absent" THEN "active" ELSE home
  /\ Goto(IF marker THEN "webhook" ELSE "default")
  /\ UNCHANGED <<binding, leaving, orders, webhook, marker, cp, access, grants, orphans, platform,
                 engagement, cleaner, asked, events>>

\* Nothing can be created in a namespace in deletion, nor a ControlPlane without
\* the binding.
CreateDefault ==
  /\ pc = "default"
  /\ \/ /\ cp # "absent" \/ (home = "active" /\ binding # "absent")
        /\ cp' = IF cp = "absent" THEN "active" ELSE cp
        /\ Goto("marker")
     \/ /\ cp = "absent" /\ ~(home = "active" /\ binding # "absent")
        /\ Idle
        /\ UNCHANGED cp
  /\ UNCHANGED <<binding, leaving, orders, webhook, home, marker, access, grants, orphans, platform,
                 engagement, cleaner, asked, events>>

CreateMarker ==
  /\ pc = "marker"
  /\ \/ /\ home = "active"
        /\ marker' = TRUE
        /\ Goto("webhook")
     \/ /\ home # "active"
        /\ Idle
        /\ UNCHANGED marker
  /\ UNCHANGED <<binding, leaving, orders, webhook, home, cp, access, grants, orphans, platform,
                 engagement, cleaner, asked, events>>

\* ensureDisconnectWebhook.
EnsureWebhook ==
  /\ pc = "webhook"
  /\ webhook' = TRUE
  /\ Goto("namespace")
  /\ UNCHANGED <<binding, leaving, orders, home, marker, cp, access, grants, orphans, platform,
                 engagement, cleaner, asked, events>>

\* ensurePlatformRuntime: the namespace, the Cluster with its status, and the
\* provider with its RBAC.
EnsureNamespace ==
  /\ pc = "namespace"
  /\ namespace' = IF namespace = "absent" THEN "active" ELSE namespace
  /\ Goto("cluster")
  /\ UNCHANGED <<workspace, cluster, deployed, cr, ar, secret, engagement, cleaner, asked, events>>

EnsureCluster ==
  /\ pc = "cluster"
  /\ \/ /\ cluster.state # "absent" \/ namespace = "active"
        /\ cluster' = IF cluster.state = "absent" THEN [NoCluster EXCEPT !.state = "active"] ELSE cluster
        /\ Goto("provider")
     \/ /\ cluster.state = "absent" /\ namespace # "active"
        /\ Idle
        /\ UNCHANGED cluster
  /\ UNCHANGED <<workspace, namespace, deployed, cr, ar, secret, engagement, cleaner, asked, events>>

EnsureProvider ==
  /\ pc = "provider"
  /\ \/ /\ deployed \/ namespace = "active"
        /\ deployed' = TRUE
        /\ Goto("requests")
     \/ /\ ~deployed /\ namespace # "active"
        /\ Idle
        /\ UNCHANGED deployed
  /\ UNCHANGED <<workspace, namespace, cluster, cr, ar, secret, engagement, cleaner, asked, events>>

-----------------------------------------------------------------------------
(* reconcileClusterRequests *)

\* Without the Cluster nothing can be done for a request.  One in deletion lets the
\* Cluster go first, an active one is held before the Cluster is.
ReconcileRequest ==
  /\ pc = "requests"
  /\ \/ /\ cr.state = "absent"
        /\ Goto("access")
        /\ UNCHANGED <<cluster, cr>>
     \/ /\ cr.state # "absent" /\ cluster.state = "absent"
        /\ Idle
        /\ UNCHANGED <<cluster, cr>>
     \/ /\ cr.state = "deleting" /\ cluster.state # "absent"
        /\ cluster' = Released(cluster, NoCluster)
        /\ Goto("releaseRequest")
        /\ UNCHANGED cr
     \/ /\ cr.state = "active" /\ cluster.state # "absent"
        /\ cr' = [cr EXCEPT !.held = TRUE]
        /\ Goto("holdCluster")
        /\ UNCHANGED cluster
  /\ UNCHANGED <<workspace, namespace, deployed, ar, secret, engagement, cleaner, asked, events>>

\* Mutant: the finalizer is put on whatever the read returned.
HoldWhatever ==
  /\ pc = "holdCluster"
  /\ cluster' = [cluster EXCEPT !.held = TRUE]
  /\ Goto("grantRequest")
  /\ UNCHANGED <<workspace, namespace, deployed, cr, ar, secret, engagement, cleaner, asked, events>>

\* A finalizer cannot be added to an object in deletion.
HoldCluster ==
  /\ pc = "holdCluster"
  /\ \/ /\ cluster.held \/ cluster.state = "active"
        /\ cluster' = [cluster EXCEPT !.held = TRUE]
        /\ Goto("grantRequest")
     \/ /\ ~cluster.held /\ cluster.state # "active"
        /\ Idle
        /\ UNCHANGED cluster
  /\ UNCHANGED <<workspace, namespace, deployed, cr, ar, secret, engagement, cleaner, asked, events>>

GrantRequest ==
  /\ pc = "grantRequest"
  /\ \/ /\ cr.state # "absent"
        /\ cr' = [cr EXCEPT !.granted = TRUE]
        /\ Goto("access")
     \/ /\ cr.state = "absent"
        /\ Idle
        /\ UNCHANGED cr
  /\ UNCHANGED <<workspace, namespace, cluster, deployed, ar, secret, engagement, cleaner, asked,
                 events>>

ReleaseRequest ==
  /\ pc = "releaseRequest"
  /\ cr' = IF cr.state = "deleting" THEN NoRequest ELSE cr
  /\ Goto("access")
  /\ UNCHANGED <<workspace, namespace, cluster, deployed, ar, secret, engagement, cleaner, asked,
                 events>>

-----------------------------------------------------------------------------
(* reconcileAccessRequests *)

\* Mutant: no finalizer is put on the AccessRequest.
ReconcileAccessOnly ==
  /\ pc = "access"
  /\ \/ /\ ar.state = "absent"
        /\ Idle
        /\ UNCHANGED grants
     \/ /\ ar.state = "deleting"
        /\ grants' = FALSE
        /\ Goto("deleteAccess")
     \/ /\ ar.state = "active"
        /\ Goto("resolve")
        /\ UNCHANGED grants
  /\ UNCHANGED <<binding, leaving, orders, webhook, home, marker, cp, access, orphans, platform,
                 engagement, cleaner, asked, events>>

\* One in deletion is revoked, its grants first; an active one is held.
ReconcileAccess ==
  /\ pc = "access"
  /\ \/ /\ ar.state = "absent"
        /\ Idle
        /\ UNCHANGED <<ar, grants>>
     \/ /\ ar.state = "deleting"
        /\ grants' = FALSE
        /\ Goto("deleteAccess")
        /\ UNCHANGED ar
     \/ /\ ar.state = "active"
        /\ ar' = [ar EXCEPT !.held = TRUE]
        /\ Goto("resolve")
        /\ UNCHANGED grants
  /\ UNCHANGED <<binding, leaving, orders, webhook, home, marker, cp, access, orphans, namespace,
                 cluster, deployed, cr, secret, engagement, cleaner, asked, events>>

\* resolveAccessRequest.  One whose ClusterRequest is not granted yet is skipped.
ResolveAccess ==
  /\ pc = "resolve"
  /\ \/ /\ ar.state # "absent" /\ (ar.resolved \/ cr.granted)
        /\ ar' = [ar EXCEPT !.resolved = TRUE]
        /\ Goto("ensureAccess")
     \/ /\ ar.state = "absent" \/ ~(ar.resolved \/ cr.granted)
        /\ Idle
        /\ UNCHANGED ar
  /\ UNCHANGED <<workspace, namespace, cluster, deployed, cr, secret, engagement, cleaner, asked,
                 events>>

\* ensureWorkspaceAccess: the namespace with its ServiceAccounts, then the grants.
\* An AccessRequest that is gone meanwhile is provided for all the same.
EnsureAccess ==
  /\ pc = "ensureAccess"
  /\ Goto("ensureGrants")
  /\ access' = (ar.state # "absent")
  /\ UNCHANGED <<binding, leaving, orders, webhook, home, marker, cp, grants, orphans, platform,
                 engagement, cleaner, asked, events>>

EnsureGrants ==
  /\ pc = "ensureGrants"
  /\ \/ /\ ar.state = "absent"
        /\ orphans' = TRUE
        /\ Goto("secret")
        /\ UNCHANGED grants
     \/ /\ ar.state # "absent" /\ access
        /\ grants' = TRUE
        /\ Goto("secret")
        /\ UNCHANGED orphans
     \/ /\ ar.state # "absent" /\ ~access
        /\ Idle
        /\ UNCHANGED <<grants, orphans>>
  /\ UNCHANGED <<binding, leaving, orders, webhook, home, marker, cp, access, platform, engagement,
                 cleaner, asked, events>>

\* Mutant: a token that was minted once is good enough.
MintOnce ==
  /\ pc = "secret"
  /\ \/ /\ secret # "none"
        /\ Goto("grantAccess")
     \/ /\ secret = "none" /\ access
        /\ minted' = "works"
        /\ pc' = "store"
     \/ /\ secret = "none" /\ ~access
        /\ Idle
  /\ UNCHANGED <<workspace, platform, engagement, cleaner, asked, events>>

\* A new token is minted when there is none or less than a third of its lifetime is
\* left, which is up to the clock.
Mint ==
  /\ pc = "secret"
  /\ \/ /\ secret # "none"
        /\ Goto("grantAccess")
     \/ /\ access
        /\ minted' = "works"
        /\ pc' = "store"
     \/ /\ ~access
        /\ Idle
  /\ UNCHANGED <<workspace, platform, engagement, cleaner, asked, events>>

\* A Secret whose owner is gone does not last.
Store ==
  /\ pc = "store"
  /\ \/ /\ ar.state = "absent"
        /\ Goto("grantAccess")
        /\ UNCHANGED secret
     \/ /\ ar.state # "absent" /\ (secret # "none" \/ namespace = "active")
        /\ secret' = minted
        /\ Goto("grantAccess")
     \/ /\ ar.state # "absent" /\ secret = "none" /\ namespace # "active"
        /\ Idle
        /\ UNCHANGED secret
  /\ UNCHANGED <<workspace, namespace, cluster, deployed, cr, ar, engagement, cleaner, asked, events>>

GrantAccess ==
  /\ pc = "grantAccess"
  /\ Idle
  /\ ar' = IF ar.state = "absent" THEN ar ELSE [ar EXCEPT !.granted = TRUE]
  /\ UNCHANGED <<workspace, namespace, cluster, deployed, cr, secret, engagement, cleaner, asked,
                 events>>

\* revokeWorkspaceAccess, after the grants, and the removal of the finalizer.
DeleteAccess ==
  /\ pc = "deleteAccess"
  /\ access' = FALSE
  /\ secret' = WithoutAccount(secret)
  /\ Goto("releaseAccess")
  /\ UNCHANGED <<binding, leaving, orders, webhook, home, marker, cp, grants, orphans, namespace,
                 cluster, deployed, cr, ar, engagement, cleaner, asked, events>>

ReleaseAccess ==
  /\ pc = "releaseAccess"
  /\ Idle
  /\ ChangeAccess(IF ar.state = "deleting" THEN NoAccess ELSE ar)
  /\ UNCHANGED <<binding, leaving, orders, webhook, home, marker, cp, namespace, cluster, deployed, cr,
                 engagement, cleaner, asked, events>>

\* Any call of the reconciliation may fail; the next tick starts over.
CallFails ==
  /\ pc # "idle"
  /\ Event
  /\ Idle
  /\ UNCHANGED <<workspace, platform, engagement, cleaner, asked>>

-----------------------------------------------------------------------------
(* The cleanup *)

\* releasePlatformRequests: the AccessRequest loses its finalizer and is deleted;
\* nothing is revoked here.
CleanAccess ==
  /\ cleaner = "access"
  /\ cleaner' = "cluster"
  /\ ChangeAccess(NoAccess)
  /\ UNCHANGED <<binding, leaving, orders, webhook, home, marker, cp, namespace, cluster, deployed, cr,
                 engagement, run, asked, events>>

\* Mutant: the Cluster keeps the finalizer of the request.
FreeNothing ==
  /\ cleaner = "cluster"
  /\ cleaner' = "request"
  /\ UNCHANGED <<workspace, platform, engagement, run, asked, events>>

\* The Cluster loses the finalizer of each ClusterRequest in the list.
FreeCluster ==
  /\ cleaner = "cluster"
  /\ cleaner' = "request"
  /\ cluster' = IF cr.state = "absent" THEN cluster ELSE Released(cluster, NoCluster)
  /\ UNCHANGED <<workspace, namespace, deployed, cr, ar, secret, engagement, run, asked, events>>

CleanRequest ==
  /\ cleaner = "request"
  /\ cleaner' = "dropCluster"
  /\ cr' = NoRequest
  /\ UNCHANGED <<workspace, namespace, cluster, deployed, ar, secret, engagement, run, asked, events>>

DropCluster ==
  /\ cleaner = "dropCluster"
  /\ cleaner' = "namespace"
  /\ cluster' = Deleted(cluster, NoCluster)
  /\ UNCHANGED <<workspace, namespace, deployed, cr, ar, secret, engagement, run, asked, events>>

\* cleanupPlatform: the cluster-wide RBAC and the namespace.
DropNamespace ==
  /\ cleaner = "namespace"
  /\ cleaner' = "await"
  /\ namespace' = Ending(namespace)
  /\ UNCHANGED <<workspace, cluster, deployed, cr, ar, secret, engagement, run, asked, events>>

\* Mutant: the ControlPlanes do not wait for the platform.
FinalizeAtOnce ==
  /\ cleaner = "await"
  /\ cleaner' = "finalize"
  /\ UNCHANGED <<workspace, platform, engagement, run, asked, events>>

\* finalizeWorkspaceControlPlanes: poll for the end of the namespace.
AwaitNamespace ==
  /\ cleaner = "await"
  /\ namespace = "absent"
  /\ cleaner' = "finalize"
  /\ UNCHANGED <<workspace, platform, engagement, run, asked, events>>

\* The minute is over before the namespace is gone, whatever holds it up.
AwaitTimesOut ==
  /\ cleaner = "await"
  /\ namespace # "absent"
  /\ cleaner' = "failed"
  /\ UNCHANGED <<workspace, platform, engagement, run, asked, events>>

\* Mutant: only the finalizers of ClusterRequests are removed.
FinalizeRequestsOnly ==
  /\ cleaner = "finalize"
  /\ cleaner' = "grants"
  /\ UNCHANGED <<workspace, platform, engagement, run, asked, events>>

\* A merge patch without resource version for ControlPlanes in deletion.
FinalizeControlPlane ==
  /\ cleaner = "finalize"
  /\ cleaner' = "grants"
  /\ cp' = IF cp = "deleting" THEN "absent" ELSE cp
  /\ UNCHANGED <<binding, leaving, orders, webhook, home, marker, access, grants, orphans, platform,
                 engagement, run, asked, events>>

\* cleanupWorkspaceAccess: whatever carries the label, then the namespaces.
CleanGrants ==
  /\ cleaner = "grants"
  /\ cleaner' = "accounts"
  /\ grants' = FALSE
  /\ orphans' = FALSE
  /\ UNCHANGED <<binding, leaving, orders, webhook, home, marker, cp, access, platform, engagement,
                 run, asked, events>>

CleanAccounts ==
  /\ cleaner = "accounts"
  /\ cleaner' = "home"
  /\ access' = FALSE
  /\ secret' = WithoutAccount(secret)
  /\ minted' = WithoutAccount(minted)
  /\ orphans' = FALSE
  /\ UNCHANGED <<binding, leaving, orders, webhook, home, marker, cp, grants, namespace, cluster,
                 deployed, cr, ar, engagement, pc, asked, events>>

CleanHome ==
  /\ cleaner = "home"
  /\ cleaner' = "idle"
  /\ home' = Ending(home)
  /\ UNCHANGED <<binding, leaving, orders, webhook, marker, cp, access, grants, orphans, platform,
                 engagement, run, asked, events>>

\* An error ends the cleanup: it is not retried.  In cleanupWorkspaceAccess an error
\* with one kind of object does not keep the others.
CleanupCallFails ==
  /\ cleaner \notin {"idle", "failed"}
  /\ Event
  /\ cleaner' \in CASE cleaner = "grants"   -> {"accounts"}
                    [] cleaner = "accounts" -> {"home", "idle"}
                    [] cleaner = "home"     -> {"idle"}
                    [] OTHER                -> {"failed"}
  /\ UNCHANGED <<workspace, platform, engagement, run, asked>>

-----------------------------------------------------------------------------
(* The disconnect guard *)

\* Mutant: a workspace that is not engaged has nothing to protect.
AskOpen ==
  /\ binding = "active"
  /\ ~asked
  /\ webhook
  /\ entry = 0 \/ leaving \/ orders = "none"
  /\ asked' = TRUE
  /\ UNCHANGED <<workspace, platform, engagement, run, cleaner, events>>

\* The guard allows the deletion of the APIBinding (Inspector.Check and
\* resolveDisconnectWorkspace): only an engaged workspace can be inspected, and one
\* that is being deleted is not.
Ask ==
  /\ binding = "active"
  /\ ~asked
  /\ webhook
  /\ entry > 0
  /\ leaving \/ orders = "none"
  /\ asked' = TRUE
  /\ UNCHANGED <<workspace, platform, engagement, run, cleaner, events>>

\* Then the deletion goes on; without the webhook nobody is asked.
Disconnect ==
  /\ binding = "active"
  /\ asked \/ ~webhook
  /\ asked' = FALSE
  /\ binding' = "deleting"
  /\ UNCHANGED <<leaving, orders, webhook, home, marker, cp, access, grants, orphans, platform,
                 engagement, run, cleaner, events>>

-----------------------------------------------------------------------------
(* The environment *)

Order ==
  /\ binding = "active"
  /\ orders = "none"
  /\ Event
  /\ orders' = IF asked THEN "during" ELSE "before"
  /\ UNCHANGED <<binding, leaving, webhook, home, marker, cp, access, grants, orphans, platform,
                 engagement, run, cleaner, asked>>

RemoveOrder ==
  /\ orders # "none"
  /\ orders' = "none"
  /\ UNCHANGED <<binding, leaving, webhook, home, marker, cp, access, grants, orphans, platform,
                 engagement, run, cleaner, asked, events>>

\* Deletion of the workspace.
Leave ==
  /\ ~leaving
  /\ Event
  /\ leaving' = TRUE
  /\ UNCHANGED <<binding, orders, webhook, home, marker, cp, access, grants, orphans, platform,
                 engagement, run, cleaner, asked>>

\* KCP deletes the bound objects before the binding goes.
KcpDeletesBound ==
  /\ binding = "deleting"
  /\ cp = "active" \/ orders # "none"
  /\ cp' = Ending(cp)
  /\ orders' = "none"
  /\ UNCHANGED <<binding, leaving, webhook, home, marker, access, grants, orphans, platform, engagement,
                 run, cleaner, asked, events>>

BindingGoes ==
  /\ binding = "deleting"
  /\ cp = "absent" /\ orders = "none"
  /\ binding' = "absent"
  /\ UNCHANGED <<leaving, orders, webhook, home, marker, cp, access, grants, orphans, platform,
                 engagement, run, cleaner, asked, events>>

\* Garbage collection: the binding owns what the runtime makes in the workspace.
CollectGarbage ==
  /\ binding = "absent"
  /\ webhook \/ home = "active" \/ access \/ grants \/ orphans
  /\ webhook' = FALSE
  /\ home' = Ending(home)
  /\ access' = FALSE
  /\ secret' = WithoutAccount(secret)
  /\ minted' = WithoutAccount(minted)
  /\ grants' = FALSE
  /\ orphans' = FALSE
  /\ UNCHANGED <<binding, leaving, orders, marker, cp, namespace, cluster, deployed, cr, ar, engagement,
                 pc, cleaner, asked, events>>

\* KCP has reported the end of the old binding before.
Rebind ==
  /\ binding = "absent"
  /\ ~leaving
  /\ ~engaged
  /\ engagements < MaxEngagements
  /\ binding' = "active"
  /\ UNCHANGED <<leaving, orders, webhook, home, marker, cp, access, grants, orphans, platform,
                 engagement, run, cleaner, asked, events>>

\* A namespace goes with all it holds, and once nothing in it is held.
HomeGoes ==
  /\ home = "deleting"
  /\ marker \/ cp # "deleting"
  /\ marker' = FALSE
  /\ cp' = Ending(cp)
  /\ home' = IF cp = "absent" THEN "absent" ELSE home
  /\ UNCHANGED <<binding, leaving, orders, webhook, access, grants, orphans, platform, engagement, run,
                 cleaner, asked, events>>

NamespaceGoes ==
  /\ namespace = "deleting"
  /\ deployed' = FALSE
  /\ cluster' = Deleted(cluster, NoCluster)
  /\ cr' = Deleted(cr, NoRequest)
  /\ ChangeAccess(Deleted(ar, NoAccess))
  /\ namespace' = IF cluster.held \/ cr.held \/ ar.held THEN namespace ELSE "absent"
  /\ <<namespace, deployed, cluster, cr, ar>>' # <<namespace, deployed, cluster, cr, ar>>
  /\ UNCHANGED <<binding, leaving, orders, webhook, home, marker, cp, engagement, run, cleaner, asked,
                 events>>

\* The ControlPlane controller sees engaged workspaces only.
ControlPlaneReleased ==
  /\ engaged
  /\ cp = "deleting"
  /\ cp' = "absent"
  /\ UNCHANGED <<binding, leaving, orders, webhook, home, marker, access, grants, orphans, platform,
                 engagement, run, cleaner, asked, events>>

\* The service provider asks for a cluster and for access to it.  When its request
\* is gone it does not come back within the pass that still works on the old one.
ProviderAsks ==
  /\ deployed
  /\ namespace = "active"
  /\ cr.state # "deleting"
  /\ ar.state = "absent"
  /\ pc \in {"idle", "default", "marker", "webhook", "namespace", "cluster", "provider"}
  /\ cr' = [cr EXCEPT !.state = "active"]
  /\ ar' = [NoAccess EXCEPT !.state = "active"]
  /\ UNCHANGED <<workspace, namespace, cluster, deployed, secret, engagement, run, cleaner, asked,
                 events>>

DropsAccess ==
  /\ ar.state = "active"
  /\ Event
  /\ ChangeAccess(Deleted(ar, NoAccess))
  /\ UNCHANGED <<binding, leaving, orders, webhook, home, marker, cp, namespace, cluster, deployed, cr,
                 engagement, run, cleaner, asked>>

DropsRequest ==
  /\ cr.state = "active"
  /\ ar.state = "absent"
  /\ Event
  /\ cr' = Deleted(cr, NoRequest)
  /\ UNCHANGED <<workspace, namespace, cluster, deployed, ar, secret, engagement, run, cleaner, asked>>

-----------------------------------------------------------------------------
Reconcile ==
  \/ EnsureHome
  \/ CreateDefault
  \/ CreateMarker
  \/ EnsureWebhook
  \/ EnsureNamespace
  \/ EnsureCluster
  \/ EnsureProvider
  \/ ReconcileRequest
  \/ HoldCluster
  \/ GrantRequest
  \/ ReleaseRequest
  \/ ReconcileAccess
  \/ ResolveAccess
  \/ EnsureAccess
  \/ EnsureGrants
  \/ Mint
  \/ Store
  \/ GrantAccess
  \/ DeleteAccess
  \/ ReleaseAccess

Cleanup ==
  \/ CleanAccess
  \/ FreeCluster
  \/ CleanRequest
  \/ DropCluster
  \/ DropNamespace
  \/ AwaitNamespace
  \/ FinalizeControlPlane
  \/ CleanGrants
  \/ CleanAccounts
  \/ CleanHome

Kubernetes ==
  \/ KcpDeletesBound
  \/ BindingGoes
  \/ CollectGarbage
  \/ HomeGoes
  \/ NamespaceGoes

Next ==
  \/ Engage
  \/ Disengage
  \/ TimerFires
  \/ Reconcile
  \/ CallFails
  \/ Cleanup
  \/ AwaitTimesOut
  \/ CleanupCallFails
  \/ Ask
  \/ Disconnect
  \/ Order
  \/ RemoveOrder
  \/ Leave
  \/ Kubernetes
  \/ Rebind
  \/ ControlPlaneReleased
  \/ ProviderAsks
  \/ DropsAccess
  \/ DropsRequest

Spec == Init /\ [][Next]_vars

\* The goroutines, the timers and the controllers go on, and time passes for tokens
\* too.  A binding that is going away disengages the workspace.
Fairness ==
  /\ WF_vars(TimerFires)
  /\ WF_vars(Reconcile)
  /\ SF_vars(Mint /\ pc' # "grantAccess")
  /\ WF_vars(Cleanup)
  /\ WF_vars(KcpDeletesBound)
  /\ WF_vars(BindingGoes)
  /\ WF_vars(HomeGoes)
  /\ WF_vars(NamespaceGoes)
  /\ WF_vars(ControlPlaneReleased)
  /\ SF_vars(ProviderAsks)
  /\ WF_vars(Disengage /\ binding # "active")

FairSpec == Spec /\ Fairness

-----------------------------------------------------------------------------
(* Properties *)

\* The values the variables may have.
TypeOK ==
  /\ binding \in States
  /\ leaving \in BOOLEAN
  /\ orders \in {"none", "before", "during"}
  /\ webhook \in BOOLEAN
  /\ home \in States
  /\ marker \in BOOLEAN
  /\ cp \in States
  /\ access \in BOOLEAN
  /\ grants \in BOOLEAN
  /\ orphans \in BOOLEAN
  /\ namespace \in States
  /\ cluster \in ClusterType
  /\ deployed \in BOOLEAN
  /\ cr \in RequestType
  /\ ar \in AccessType
  /\ \A object \in {cluster, cr, ar} : object.state = "deleting" <=> object.held /\ object.state # "active"
  /\ secret \in Tokens
  /\ engaged \in BOOLEAN
  /\ engagements \in 0..MaxEngagements
  /\ entry \in 0..MaxEngagements
  /\ timers \in Seq(1..MaxEngagements)
  /\ pc \in {"idle", "default", "marker", "webhook", "namespace", "cluster", "provider",
             "requests", "holdCluster", "grantRequest", "releaseRequest", "access", "resolve",
             "ensureAccess", "ensureGrants", "secret", "store", "grantAccess", "deleteAccess",
             "releaseAccess"}
  /\ minted \in Tokens
  /\ cleaner \in {"idle", "access", "cluster", "request", "dropCluster", "namespace", "await",
                  "finalize", "grants", "accounts", "home", "failed"}
  /\ asked \in BOOLEAN
  /\ events \in 0..MaxEvents

\* An engaged workspace is in the maps, where the guard finds it, and no cleanup
\* that is still to come can take its entry away.
KnownWhileEngaged == engaged => entry > 0 /\ \A i \in DOMAIN timers : timers[i] # entry

\* The runtime lets an AccessRequest of an engaged workspace go only when what it
\* granted is revoked.
RevokedBeforeReleased ==
  [][engaged /\ cleaner \in {"idle", "failed"} /\ ar.state # "absent" /\ ar'.state = "absent"
     => ~grants /\ ~access]_vars

\* The cleanup finalizes ControlPlanes when no object of the platform needs the
\* workspace any more, unless the workspace has been engaged again meanwhile.
PlatformFirst ==
  [][entry = 0 /\ cp = "deleting" /\ cp' = "absent"
     => cr.state = "absent" /\ ar.state = "absent" /\ cluster.state = "absent"]_vars

\* With the webhook nobody disconnects a workspace with a service that was ordered
\* before the guard was asked, unless the workspace itself is deleted.
OrdersStayConnected ==
  [][webhook /\ binding = "active" /\ binding' = "deleting" /\ ~leaving
     => orders # "before"]_vars

Served ==
  /\ ar.state = "active" /\ ar.granted
  /\ grants
  /\ secret = "works"

\* An error, or a minute that is not enough, ends a cleanup for good; and a cleanup
\* that has started is not stopped by an engagement: the two may undo each other's
\* work, whose traces (a finalizer of a request that is gone, a namespace made again
\* while its end is awaited) stay.
Disturbed == <>(cleaner = "failed" \/ (engaged /\ cleaner # "idle"))

\* A workspace that stays engaged gets its provider, with a token that works.
EventuallyServed == Disturbed \/ (engaged ~> (~engaged \/ Served))

\* After the disengagement the runtime's namespace goes from the platform with all it
\* holds, and no account that was made in the workspace can do anything, if the cleanup
\* is not disturbed; one of its calls in the workspace may fail.  (Nobody removes the
\* cluster-scoped ServiceProvider, which the model leaves out.)
EventuallyRemoved ==
  Disturbed \/ ((engagements > 0 /\ ~engaged)
                 ~> (engaged \/ (namespace = "absent" /\ ~(grants /\ access) /\ ~orphans)))

\* A ControlPlane that is in deletion before its timer fires loses its finalizers, if
\* the cleanup is not disturbed.  One that KCP deletes later than the cleanup, or whose
\* cleanup fails, has no one to finalize it.
EventuallyFinalized ==
  Disturbed \/ ((cp = "deleting" /\ ~engaged /\ entry > 0) ~> (engaged \/ cp = "absent"))

=============================================================================

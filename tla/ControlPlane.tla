---------------------------- MODULE ControlPlane ----------------------------
(***************************************************************************)
(* The ControlPlane controller of the openMCP operator                     *)
(* (internal/controllers/controlplane).  For a ControlPlane (MCP) on the   *)
(* onboarding cluster it keeps a namespace, a ClusterRequest and one       *)
(* AccessRequest per configured OIDC provider or token on the platform     *)
(* cluster, and copies the kubeconfig of every granted AccessRequest into  *)
(* a Secret next to the MCP.  When the MCP is deleted it takes all of that *)
(* down in an order in which nothing loses what it still needs: services,  *)
(* accesses, secondary ClusterRequests, the primary one, the namespace.    *)
(*                                                                         *)
(* One MCP is modelled; the reconciliations of different MCPs touch        *)
(* different objects.  Each API call that changes something is an action;  *)
(* the Gets of several objects by one function are one action.  Nothing    *)
(* but the MCP is watched: the controller sees the progress of the others  *)
(* only because it queues the MCP again as long as it is not Ready.        *)
(***************************************************************************)
EXTENDS Naturals, FiniteSets

CONSTANTS
  Providers,         \* OIDC providers and tokens an MCP may configure
  Services,          \* service resources of the MCP; each may need a ClusterRequest
  Primary,           \* name of the MCP's own ClusterRequest
  MCPFinalizer,
  MaxEdits,          \* bound: changes of the MCP's spec
  MaxFaults          \* bound: failing API calls and operator crashes

\* A service's ClusterRequest has the name of the service here.
Requests == Services \cup {Primary}

ASSUME ControlPlaneAssumption ==
  /\ IsFiniteSet(Services)
  /\ Primary \notin Services
  /\ MCPFinalizer \notin Requests
  /\ MaxEdits \in Nat
  /\ MaxFaults \in Nat

VARIABLES
  mcp,        \* the MCP on the onboarding cluster
  namespace,  \* its namespace on the platform cluster
  request,    \* the ClusterRequests in it
  healthy,    \* do all conditions of the MCP's Cluster hold?
  access,     \* the AccessRequests in the namespace
  secret,     \* providers with a copied Secret on the onboarding cluster
  service,    \* service resources on the onboarding cluster
  queued,     \* is the MCP in the controller's work queue?
  pc,         \* where the worker is; "idle" between reconciliations
  copy,       \* the worker's copy of the MCP
  updated,    \* updatedAccessRequests
  granted,    \* the ones of them that were granted when read
  todo,       \* what the current loop still has to visit
  doomed,     \* what the current function found to be going away
  waiting,    \* has the reconciliation to be repeated?
  failed,     \* has the current loop collected an error?
  result,     \* how the reconciliation ends: "error", "backoff", "done"
  edits, faults

objects == <<mcp, namespace, request, healthy, access, secret, service>>
local == <<pc, copy, updated, granted, todo, doomed, waiting, failed, result>>
vars == <<mcp, namespace, request, healthy, access, secret, service, queued, pc, copy,
          updated, granted, todo, doomed, waiting, failed, result, edits, faults>>

-----------------------------------------------------------------------------
MCPType ==
  [life: {"new", "active", "deleting", "gone"},
   finalizers: SUBSET (Requests \cup {MCPFinalizer}), desired: SUBSET Providers,
   phase: {"Progressing", "Ready", "Terminating"}, access: SUBSET Providers]

\* "foreign" namespaces lack the labels of the controller.
NamespaceStates == {"absent", "foreign", "active", "deleting"}

RequestStates == {"absent", "pending", "granted", "deleting"}

AccessType == [state: {"absent", "active", "deleting"}, granted: BOOLEAN]

NoAccess == [state |-> "absent", granted |-> FALSE]

ServiceStates == {"new", "active", "deleting", "gone"}

Steps ==
  {"idle", "finalizers", "namespace", "request", "cluster", "ensure", "list", "revoke",
   "sync", "drop", "services", "deleteServices", "requests", "deleteRequests",
   "releaseRequests", "deleteNamespace", "releaseMCP", "status"}

NewMCP ==
  [life |-> "new", finalizers |-> {}, desired |-> {}, phase |-> "Progressing", access |-> {}]

Exists == mcp.life \in {"active", "deleting"}

\* Objects can be created in it.
NamespaceOpen == namespace \in {"foreign", "active"}

Init ==
  /\ mcp = NewMCP
  /\ namespace = "absent"
  /\ request = [r \in Requests |-> "absent"]
  /\ healthy = FALSE
  /\ access = [p \in Providers |-> NoAccess]
  /\ secret = {}
  /\ service = [s \in Services |-> "new"]
  /\ queued = FALSE
  /\ pc = "idle"
  /\ copy = NewMCP
  /\ updated = {}
  /\ granted = {}
  /\ todo = {}
  /\ doomed = {}
  /\ waiting = FALSE
  /\ failed = FALSE
  /\ result = "done"
  /\ edits = 0
  /\ faults = 0

-----------------------------------------------------------------------------
(* The worker *)

ResetBut(step, mcpCopy) ==
  /\ pc' = step
  /\ copy' = mcpCopy
  /\ updated' = {}
  /\ granted' = {}
  /\ todo' = {}
  /\ doomed' = {}
  /\ waiting' = FALSE
  /\ failed' = FALSE
  /\ result' = "done"

Idle == ResetBut("idle", NewMCP)

\* Every return of the handlers leads to the status updater.
Return(how) ==
  /\ pc' = "status"
  /\ result' = how
  /\ updated' = {}
  /\ granted' = {}
  /\ todo' = {}
  /\ doomed' = {}
  /\ waiting' = FALSE
  /\ failed' = FALSE

Fail ==
  /\ Return("error")
  /\ UNCHANGED copy

\* reconcile: Get the MCP, dispatch on its deletion timestamp.
Dequeue ==
  /\ pc = "idle"
  /\ queued
  /\ queued' = FALSE
  /\ IF ~Exists
       THEN UNCHANGED local
       ELSE ResetBut(IF mcp.life = "deleting"
                       THEN "services"
                       ELSE IF {MCPFinalizer, Primary} \subseteq mcp.finalizers
                         THEN "namespace"
                         ELSE "finalizers", mcp)
  /\ UNCHANGED <<objects, edits, faults>>

-----------------------------------------------------------------------------
(* handleCreateOrUpdate *)

\* A merge patch, which replaces the whole list; its response is the new copy.
\* An object in deletion takes no new finalizers.
AddFinalizers ==
  /\ pc = "finalizers"
  /\ LET fins == copy.finalizers \cup {MCPFinalizer, Primary}
         ok   == mcp.life = "active" \/ (mcp.life = "deleting" /\ fins \subseteq mcp.finalizers) IN
     \/ /\ ok
        /\ mcp' = [mcp EXCEPT !.finalizers = fins]
        /\ copy' = mcp'
        /\ pc' = "namespace"
        /\ UNCHANGED <<updated, granted, todo, doomed, waiting, failed, result>>
     \/ /\ ~ok
        /\ Fail
        /\ UNCHANGED mcp
  /\ UNCHANGED <<namespace, request, healthy, access, secret, service, queued, edits, faults>>

\* The namespace mutator adds the labels, whoever created the namespace.
EnsureNamespace ==
  /\ pc = "namespace"
  /\ namespace' = IF namespace = "deleting" THEN namespace ELSE "active"
  /\ pc' = "request"
  /\ UNCHANGED <<mcp, request, healthy, access, secret, service, queued, copy,
                 updated, granted, todo, doomed, waiting, failed, result, edits, faults>>

EnsureClusterRequest ==
  /\ pc = "request"
  /\ \/ /\ request[Primary] = "absent"
        /\ NamespaceOpen
        /\ request' = [request EXCEPT ![Primary] = "pending"]
        /\ Return("backoff")
     \/ /\ request[Primary] = "absent"
        /\ ~NamespaceOpen
        /\ Return("error")
        /\ UNCHANGED request
     \/ /\ request[Primary] \in {"pending", "deleting"}
        /\ Return("backoff")
        /\ UNCHANGED request
     \/ /\ request[Primary] = "granted"
        /\ pc' = "cluster"
        /\ UNCHANGED <<request, updated, granted, todo, doomed, waiting, failed, result>>
  /\ UNCHANGED <<mcp, namespace, healthy, access, secret, service, queued, copy, edits, faults>>

\* The conditions of the Cluster become conditions of the MCP, which is not
\* Ready, and so queued again, while one of them does not hold.
GetCluster ==
  /\ pc = "cluster"
  /\ waiting' = ~healthy
  /\ todo' = copy.desired
  /\ pc' = "ensure"
  /\ UNCHANGED <<objects, queued, copy, updated, granted, doomed, failed, result, edits, faults>>

\* Mutant: the AccessRequest is not put into the map of updated ones.
EnsureAccessRequestUnrecorded(p) ==
  /\ pc = "ensure"
  /\ p \in todo
  /\ access' = [access EXCEPT ![p].state = IF @ = "absent" THEN "active" ELSE @]
  /\ granted' = IF access[p].granted THEN granted \cup {p} ELSE granted
  /\ todo' = todo \ {p}
  /\ UNCHANGED <<mcp, namespace, request, healthy, secret, service, queued, pc, copy,
                 updated, doomed, waiting, failed, result, edits, faults>>

\* createOrUpdateDesiredAccessRequests.  An AccessRequest in deletion is as good
\* as any other here.
EnsureAccessRequest(p) ==
  /\ pc = "ensure"
  /\ p \in todo
  /\ LET found == access[p].state # "absent" IN
     \/ /\ found \/ NamespaceOpen
        /\ access' = [access EXCEPT ![p] = IF found THEN @ ELSE [NoAccess EXCEPT !.state = "active"]]
        /\ updated' = updated \cup {p}
        /\ granted' = IF access[p].granted THEN granted \cup {p} ELSE granted
        /\ todo' = todo \ {p}
        /\ UNCHANGED <<pc, copy, doomed, waiting, failed, result>>
     \/ /\ ~found /\ ~NamespaceOpen
        /\ Fail
        /\ UNCHANGED access
  /\ UNCHANGED <<mcp, namespace, request, healthy, secret, service, queued, edits, faults>>

-----------------------------------------------------------------------------
(* deleteUndesiredAccessRequests, syncAccessSecrets, deleteUndesired-      *)
(* AccessSecrets: when the MCP is deleted nothing is desired.              *)

Undesired(S) == S \ updated

\* The ones in deletion are only waited for; the controller is the only one to
\* create AccessRequests, so the others are still what they were when listed.
ListAccessRequests ==
  /\ pc \in {"ensure", "list"}
  /\ pc = "ensure" => todo = {}
  /\ LET found == Undesired({p \in Providers : access[p].state # "absent"}) IN
     /\ todo' = {p \in found : access[p].state = "active"}
     /\ waiting' = (waiting \/ found # {})
  /\ pc' = "revoke"
  /\ UNCHANGED <<objects, queued, copy, updated, granted, doomed, failed, result, edits, faults>>

\* Delete: an AccessRequest whose provider has not put a finalizer on it yet
\* disappears at once.
DeleteAccessRequest(p) ==
  /\ pc = "revoke"
  /\ p \in todo
  /\ \/ access' = [access EXCEPT ![p].state = "deleting"]
     \/ /\ ~access[p].granted
        /\ access' = [access EXCEPT ![p] = NoAccess]
  /\ todo' = todo \ {p}
  /\ UNCHANGED <<mcp, namespace, request, healthy, secret, service, queued, pc, copy, updated,
                 granted, doomed, waiting, failed, result, edits, faults>>

AccessRequestsDeleted ==
  /\ pc = "revoke"
  /\ todo = {}
  /\ \/ /\ failed
        /\ Fail
     \/ /\ ~failed
        /\ pc' = "sync"
        /\ todo' = updated
        /\ UNCHANGED <<copy, updated, granted, doomed, waiting, failed, result>>
  /\ UNCHANGED <<objects, queued, edits, faults>>

\* Mutant: a provider whose access is not granted yet does not count.
SyncGrantedSecret(p) ==
  /\ pc = "sync"
  /\ p \in todo
  /\ IF p \in granted
       THEN /\ secret' = secret \cup {p}
            /\ copy' = [copy EXCEPT !.access = @ \cup {p}]
       ELSE UNCHANGED <<secret, copy>>
  /\ todo' = todo \ {p}
  /\ UNCHANGED <<mcp, namespace, request, healthy, access, service, queued, pc, updated,
                 granted, doomed, waiting, failed, result, edits, faults>>

\* Copies the kubeconfig of a granted AccessRequest.  The Secret of one that is
\* in deletion may be gone already.
SyncAccessSecret(p) ==
  /\ pc = "sync"
  /\ p \in todo
  /\ \/ /\ p \notin granted
        /\ waiting' = TRUE
        /\ todo' = todo \ {p}
        /\ UNCHANGED <<secret, pc, copy, updated, granted, doomed, failed, result>>
     \/ /\ p \in granted
        /\ access[p].state # "absent"
        /\ secret' = secret \cup {p}
        /\ copy' = [copy EXCEPT !.access = @ \cup {p}]
        /\ todo' = todo \ {p}
        /\ UNCHANGED <<pc, updated, granted, doomed, waiting, failed, result>>
     \/ /\ p \in granted
        /\ access[p].state # "active"
        /\ Fail
        /\ UNCHANGED secret
  /\ UNCHANGED <<mcp, namespace, request, healthy, access, service, queued, edits, faults>>

ListAccessSecrets ==
  /\ pc = "sync"
  /\ todo = {}
  /\ todo' = Undesired(secret)
  /\ doomed' = Undesired(secret)
  /\ waiting' = (waiting \/ Undesired(secret) # {})
  /\ pc' = "drop"
  /\ UNCHANGED <<objects, queued, copy, updated, granted, failed, result, edits, faults>>

DeleteAccessSecret(p) ==
  /\ pc = "drop"
  /\ p \in todo
  /\ secret' = secret \ {p}
  /\ todo' = todo \ {p}
  /\ UNCHANGED <<mcp, namespace, request, healthy, access, service, queued, pc, copy, updated,
                 granted, doomed, waiting, failed, result, edits, faults>>

\* The end of manageAccessRequests and what its callers do with the result.
\* Only the mappings of the Secrets that were found leave the status.
AccessManaged ==
  /\ pc = "drop"
  /\ todo = {}
  /\ \/ /\ failed
        /\ Fail
     \/ /\ ~failed
        /\ copy' = [copy EXCEPT !.access = @ \ doomed]
        /\ \/ /\ copy.life = "deleting" /\ ~waiting
              /\ pc' = "requests"
              /\ doomed' = {}
              /\ UNCHANGED <<updated, granted, todo, waiting, failed, result>>
           \/ /\ waiting
              /\ Return("backoff")
           \/ /\ copy.life = "active" /\ ~waiting
              /\ Return("done")
  /\ UNCHANGED <<objects, queued, edits, faults>>

-----------------------------------------------------------------------------
(* handleDelete *)

\* Mutant: services in deletion are not waited for.
FindUndeletedServices ==
  /\ pc = "services"
  /\ todo' = {s \in Services : service[s] = "active"}
  /\ pc' = "deleteServices"
  /\ UNCHANGED <<objects, queued, copy, updated, granted, doomed, waiting, failed, result,
                 edits, faults>>

\* deleteDependingServices
FindServices ==
  /\ pc = "services"
  /\ todo' = {s \in Services : service[s] = "active"}
  /\ waiting' = (\E s \in Services : service[s] = "deleting")
  /\ pc' = "deleteServices"
  /\ UNCHANGED <<objects, queued, copy, updated, granted, doomed, failed, result, edits, faults>>

DeleteServiceResource(s) ==
  /\ pc = "deleteServices"
  /\ s \in todo
  /\ todo' = todo \ {s}
  /\ \/ /\ service[s] # "gone"
        /\ service' = [service EXCEPT ![s] = "deleting"]
        /\ waiting' = TRUE
     \/ /\ service[s] = "gone"
        /\ UNCHANGED <<service, waiting>>
  /\ UNCHANGED <<mcp, namespace, request, healthy, access, secret, queued, pc, copy, updated,
                 granted, doomed, failed, result, edits, faults>>

ServicesDeleted ==
  /\ pc = "deleteServices"
  /\ todo = {}
  /\ \/ /\ failed
        /\ Return("error")
     \/ /\ ~failed /\ waiting
        /\ Return("backoff")
     \/ /\ ~failed /\ ~waiting
        /\ pc' = "list"
        /\ UNCHANGED <<updated, granted, todo, doomed, waiting, failed, result>>
  /\ UNCHANGED <<objects, queued, copy, edits, faults>>

\* deleteRelatedClusterRequests: the ones named by the finalizers of the copy.
FindClusterRequests ==
  /\ pc = "requests"
  /\ doomed' = {r \in Requests \cap copy.finalizers : request[r] # "absent"}
  /\ todo' = {r \in doomed' : request[r] # "deleting"}
  /\ pc' = "deleteRequests"
  /\ UNCHANGED <<objects, queued, copy, updated, granted, waiting, failed, result, edits, faults>>

\* Mutant: the primary ClusterRequest is deleted together with the others.
DeleteAnyClusterRequest(r) ==
  /\ pc = "deleteRequests"
  /\ r \in todo
  /\ request[r] # "absent"
  /\ todo' = todo \ {r}
  /\ request' = [request EXCEPT ![r] = "deleting"]
  /\ UNCHANGED <<mcp, namespace, healthy, access, secret, service, queued, pc, copy, updated,
                 granted, doomed, waiting, failed, result, edits, faults>>

\* The primary ClusterRequest is skipped as long as there is another one.
DeleteClusterRequest(r) ==
  /\ pc = "deleteRequests"
  /\ r \in todo
  /\ todo' = todo \ {r}
  /\ \/ /\ r = Primary /\ Cardinality(doomed) > 1
        /\ UNCHANGED <<request, doomed>>
     \/ /\ r # Primary \/ Cardinality(doomed) = 1
        /\ request[r] # "absent"
        /\ \/ request' = [request EXCEPT ![r] = "deleting"]
           \/ request[r] = "pending" /\ request' = [request EXCEPT ![r] = "absent"]
        /\ UNCHANGED doomed
     \/ /\ r # Primary \/ Cardinality(doomed) = 1
        /\ request[r] = "absent"
        /\ doomed' = doomed \ {r}
        /\ UNCHANGED request
  /\ UNCHANGED <<mcp, namespace, healthy, access, secret, service, queued, pc, copy, updated,
                 granted, waiting, failed, result, edits, faults>>

ClusterRequestsDeleted ==
  /\ pc = "deleteRequests"
  /\ todo = {}
  /\ \/ /\ failed
        /\ Fail
     \/ /\ ~failed
        /\ Requests \cap copy.finalizers \subseteq doomed
        /\ doomed # {}
        /\ Return("backoff")
        /\ UNCHANGED copy
     \/ /\ ~failed
        /\ \/ doomed = {}
           \/ ~(Requests \cap copy.finalizers \subseteq doomed)
        /\ pc' = IF Requests \cap copy.finalizers \subseteq doomed
                   THEN "deleteNamespace" ELSE "releaseRequests"
        /\ UNCHANGED <<copy, updated, granted, todo, doomed, waiting, failed, result>>
  /\ UNCHANGED <<objects, queued, edits, faults>>

\* Merge patch: the finalizers of the ClusterRequests that are gone.
ReleaseClusterRequests ==
  /\ pc = "releaseRequests"
  /\ LET fins == copy.finalizers \ (Requests \ doomed) IN
     \/ /\ mcp.life = "deleting" /\ fins \subseteq mcp.finalizers
        /\ mcp' = [mcp EXCEPT !.finalizers = fins, !.life = IF fins = {} THEN "gone" ELSE @]
        /\ copy' = mcp'
        /\ IF doomed # {}
             THEN Return("backoff")
             ELSE /\ pc' = "deleteNamespace"
                  /\ UNCHANGED <<updated, granted, todo, doomed, waiting, failed, result>>
     \/ /\ ~(mcp.life = "deleting" /\ fins \subseteq mcp.finalizers)
        /\ Fail
        /\ UNCHANGED mcp
  /\ UNCHANGED <<namespace, request, healthy, access, secret, service, queued, edits, faults>>

\* Mutants: the namespace is deleted but not waited for; nothing queues the MCP
\* after the namespace was deleted.
DeleteNamespaceAndGoOn ==
  /\ pc = "deleteNamespace"
  /\ namespace' = IF namespace = "active" THEN "deleting" ELSE namespace
  /\ pc' = "releaseMCP"
  /\ UNCHANGED <<mcp, request, healthy, access, secret, service, queued, copy, updated,
                 granted, todo, doomed, waiting, failed, result, edits, faults>>
DeleteNamespaceAndForget ==
  /\ pc = "deleteNamespace"
  /\ \/ /\ namespace = "absent"
        /\ pc' = "releaseMCP"
        /\ UNCHANGED <<namespace, updated, granted, todo, doomed, waiting, failed, result>>
     \/ /\ namespace # "absent"
        /\ namespace' = IF namespace = "active" THEN "deleting" ELSE namespace
        /\ Return("done")
  /\ UNCHANGED <<mcp, request, healthy, access, secret, service, queued, copy, edits, faults>>

\* A namespace without the controller's labels is not deleted, but waited for.
DeleteNamespace ==
  /\ pc = "deleteNamespace"
  /\ \/ /\ namespace = "absent"
        /\ pc' = "releaseMCP"
        /\ UNCHANGED <<namespace, updated, granted, todo, doomed, waiting, failed, result>>
     \/ /\ namespace = "active"
        /\ namespace' = "deleting"
        /\ Return("backoff")
     \/ /\ namespace \in {"foreign", "deleting"}
        /\ Return("backoff")
        /\ UNCHANGED namespace
  /\ UNCHANGED <<mcp, request, healthy, access, secret, service, queued, copy, edits, faults>>

\* The MCP's own finalizer goes, and with it the MCP.
ReleaseMCP ==
  /\ pc = "releaseMCP"
  /\ LET fins == copy.finalizers \ {MCPFinalizer} IN
     \/ /\ mcp.life = "deleting" /\ fins \subseteq mcp.finalizers
        /\ mcp' = [mcp EXCEPT !.finalizers = fins, !.life = IF fins = {} THEN "gone" ELSE @]
        /\ IF fins = {} THEN Idle
           ELSE /\ Return("done")
                /\ UNCHANGED copy
     \/ /\ ~(mcp.life = "deleting" /\ fins \subseteq mcp.finalizers)
        /\ Fail
        /\ UNCHANGED mcp
  /\ UNCHANGED <<namespace, request, healthy, access, secret, service, queued, edits, faults>>

\* Mutant: only errors bring the MCP back into the queue.
UpdateStatusOnly ==
  /\ pc = "status"
  /\ IF Exists
       THEN mcp' = [mcp EXCEPT !.access = copy.access,
                      !.phase = IF copy.life = "deleting" THEN "Terminating"
                                ELSE IF result = "done" THEN "Ready" ELSE "Progressing"]
       ELSE UNCHANGED mcp
  /\ queued' = (queued \/ result = "error")
  /\ Idle
  /\ UNCHANGED <<namespace, request, healthy, access, secret, service, edits, faults>>

\* The status updater: mappings and phase.  The queue sees the MCP again unless
\* it is Ready (or, during deletion, nothing is left to do).
UpdateStatus ==
  /\ pc = "status"
  /\ IF Exists
       THEN /\ mcp' = [mcp EXCEPT !.access = copy.access,
                         !.phase = IF copy.life = "deleting" THEN "Terminating"
                                   ELSE IF result = "done" THEN "Ready" ELSE "Progressing"]
            /\ queued' = (queued \/ result # "done")
       ELSE /\ queued' = TRUE
            /\ UNCHANGED mcp
  /\ Idle
  /\ UNCHANGED <<namespace, request, healthy, access, secret, service, edits, faults>>

-----------------------------------------------------------------------------
(* Failures *)

FaultBudget ==
  /\ faults < MaxFaults
  /\ faults' = faults + 1

\* A call fails, and the handler returns its error; in the deletion loops the
\* error is remembered and the loop goes on.
CallFails ==
  /\ FaultBudget
  /\ \/ /\ pc \notin {"idle", "revoke", "drop", "deleteServices", "deleteRequests", "status"}
        /\ Fail
        /\ UNCHANGED queued
     \/ /\ pc \in {"revoke", "drop", "deleteServices", "deleteRequests"}
        /\ \E x \in todo : todo' = todo \ {x}
        /\ failed' = TRUE
        /\ UNCHANGED <<queued, pc, copy, updated, granted, doomed, waiting, result>>
     \/ /\ pc = "status"
        /\ queued' = TRUE
        /\ Idle
  /\ UNCHANGED <<objects, edits>>

\* The operator stops; the informer of its successor queues the MCP.
Crash ==
  /\ FaultBudget
  /\ Idle
  /\ queued' = Exists
  /\ UNCHANGED <<objects, edits>>

-----------------------------------------------------------------------------
(* Everybody else *)

CreateMCP(desired) ==
  /\ mcp.life = "new"
  /\ mcp' = [mcp EXCEPT !.life = "active", !.desired = desired]
  /\ queued' = TRUE
  /\ UNCHANGED <<namespace, request, healthy, access, secret, service, local, edits, faults>>

EditMCP(desired) ==
  /\ mcp.life = "active"
  /\ desired # mcp.desired
  /\ edits < MaxEdits
  /\ edits' = edits + 1
  /\ mcp' = [mcp EXCEPT !.desired = desired]
  /\ queued' = TRUE
  /\ UNCHANGED <<namespace, request, healthy, access, secret, service, local, faults>>

DeleteMCP ==
  /\ mcp.life = "active"
  /\ mcp' = [mcp EXCEPT !.life = IF mcp.finalizers = {} THEN "gone" ELSE "deleting"]
  /\ queued' = TRUE
  /\ UNCHANGED <<namespace, request, healthy, access, secret, service, local, edits, faults>>

\* The scheduler and the cluster provider.
GrantRequest(r) ==
  /\ request[r] = "pending"
  /\ request' = [request EXCEPT ![r] = "granted"]
  /\ UNCHANGED <<mcp, namespace, healthy, access, secret, service, queued, local, edits, faults>>

RequestGone(r) ==
  /\ request[r] = "deleting"
  /\ request' = [request EXCEPT ![r] = "absent"]
  /\ UNCHANGED <<mcp, namespace, healthy, access, secret, service, queued, local, edits, faults>>

ClusterHealthy ==
  /\ ~healthy
  /\ healthy' = TRUE
  /\ UNCHANGED <<mcp, namespace, request, access, secret, service, queued, local, edits, faults>>

GrantAccess(p) ==
  /\ access[p] = [state |-> "active", granted |-> FALSE]
  /\ access' = [access EXCEPT ![p].granted = TRUE]
  /\ UNCHANGED <<mcp, namespace, request, healthy, secret, service, queued, local, edits, faults>>

AccessGone(p) ==
  /\ access[p].state = "deleting"
  /\ access' = [access EXCEPT ![p] = NoAccess]
  /\ UNCHANGED <<mcp, namespace, request, healthy, secret, service, queued, local, edits, faults>>

\* The namespace: another controller may create it first; once it is deleted, it
\* goes when it is empty.
ForeignNamespace ==
  /\ mcp.life = "active"
  /\ namespace = "absent"
  /\ namespace' = "foreign"
  /\ UNCHANGED <<mcp, request, healthy, access, secret, service, queued, local, edits, faults>>

NamespaceGone ==
  /\ namespace = "deleting"
  /\ \A r \in Requests : request[r] = "absent"
  /\ \A p \in Providers : access[p].state = "absent"
  /\ namespace' = "absent"
  /\ UNCHANGED <<mcp, request, healthy, access, secret, service, queued, local, edits, faults>>

\* Service providers: users order a service of an MCP that is not being deleted;
\* for an active service the provider announces its ClusterRequest by a
\* finalizer on the MCP and creates it.
CreateService(s) ==
  /\ service[s] = "new"
  /\ mcp.life = "active"
  /\ service' = [service EXCEPT ![s] = "active"]
  /\ UNCHANGED <<mcp, namespace, request, healthy, access, secret, queued, local, edits, faults>>

ProtectRequest(s) ==
  /\ service[s] = "active"
  /\ mcp.life = "active"
  /\ MCPFinalizer \in mcp.finalizers
  /\ s \notin mcp.finalizers
  /\ mcp' = [mcp EXCEPT !.finalizers = @ \cup {s}]
  /\ UNCHANGED <<namespace, request, healthy, access, secret, service, queued, local, edits, faults>>

RequestCluster(s) ==
  /\ service[s] = "active"
  /\ s \in mcp.finalizers
  /\ NamespaceOpen
  /\ request[s] = "absent"
  /\ request' = [request EXCEPT ![s] = "pending"]
  /\ UNCHANGED <<mcp, namespace, healthy, access, secret, service, queued, local, edits, faults>>

DeleteService(s) ==
  /\ service[s] = "active"
  /\ service' = [service EXCEPT ![s] = "deleting"]
  /\ UNCHANGED <<mcp, namespace, request, healthy, access, secret, queued, local, edits, faults>>

ServiceGone(s) ==
  /\ service[s] = "deleting"
  /\ service' = [service EXCEPT ![s] = "gone"]
  /\ UNCHANGED <<mcp, namespace, request, healthy, access, secret, queued, local, edits, faults>>

-----------------------------------------------------------------------------
ManageAccessRequests ==
  \/ ListAccessRequests
  \/ AccessRequestsDeleted
  \/ ListAccessSecrets
  \/ AccessManaged
  \/ \E p \in Providers :
       EnsureAccessRequest(p) \/ DeleteAccessRequest(p) \/ SyncAccessSecret(p)
         \/ DeleteAccessSecret(p)

HandleCreateOrUpdate ==
  AddFinalizers \/ EnsureNamespace \/ EnsureClusterRequest \/ GetCluster

HandleDelete ==
  \/ FindServices \/ ServicesDeleted \/ \E s \in Services : DeleteServiceResource(s)
  \/ FindClusterRequests \/ ClusterRequestsDeleted
  \/ \E r \in Requests : DeleteClusterRequest(r)
  \/ ReleaseClusterRequests \/ DeleteNamespace \/ ReleaseMCP

Reconcile ==
  Dequeue \/ HandleCreateOrUpdate \/ ManageAccessRequests \/ HandleDelete \/ UpdateStatus

User ==
  \/ \E desired \in SUBSET Providers : CreateMCP(desired) \/ EditMCP(desired)
  \/ DeleteMCP
  \/ \E s \in Services : CreateService(s) \/ DeleteService(s)

OtherControllers ==
  \/ \E r \in Requests : GrantRequest(r) \/ RequestGone(r)
  \/ ClusterHealthy
  \/ \E p \in Providers : GrantAccess(p) \/ AccessGone(p)
  \/ ForeignNamespace \/ NamespaceGone
  \/ \E s \in Services : ProtectRequest(s) \/ RequestCluster(s) \/ ServiceGone(s)

Next == Reconcile \/ CallFails \/ Crash \/ User \/ OtherControllers

Spec == Init /\ [][Next]_vars

\* The worker goes on, requests for clusters and accesses are answered, and
\* what is deleted goes away.
Fairness ==
  /\ WF_vars(Reconcile)
  /\ \A r \in Requests : WF_vars(GrantRequest(r)) /\ WF_vars(RequestGone(r))
  /\ WF_vars(ClusterHealthy)
  /\ \A p \in Providers : WF_vars(GrantAccess(p)) /\ WF_vars(AccessGone(p))
  /\ WF_vars(NamespaceGone)
  /\ \A s \in Services : WF_vars(ServiceGone(s))

FairSpec == Spec /\ Fairness

-----------------------------------------------------------------------------
(* Properties *)

TypeOK ==
  /\ mcp \in MCPType
  /\ namespace \in NamespaceStates
  /\ request \in [Requests -> RequestStates]
  /\ healthy \in BOOLEAN
  /\ access \in [Providers -> AccessType]
  /\ secret \subseteq Providers
  /\ service \in [Services -> ServiceStates]
  /\ queued \in BOOLEAN
  /\ pc \in Steps
  /\ copy \in MCPType
  /\ granted \subseteq updated /\ updated \subseteq Providers
  /\ todo \subseteq Providers \cup Requests
  /\ doomed \subseteq Providers \cup Requests
  /\ waiting \in BOOLEAN /\ failed \in BOOLEAN
  /\ result \in {"error", "backoff", "done"}
  /\ edits \in 0 .. MaxEdits /\ faults \in 0 .. MaxFaults

\* The controller deletes the primary ClusterRequest only after all others are
\* gone, whose clusters may host what depends on the MCP's cluster.
PrimaryLast ==
  [][request[Primary] \in {"pending", "granted"} /\ request'[Primary] \in {"deleting", "absent"}
       => \A s \in Services : request[s] = "absent"]_vars

\* An access the spec asks for is taken away only on deletion of the MCP, and
\* only when no service that may need it is left.
AccessOutlivesServices ==
  [][\A p \in Providers :
       access[p].state = "active" /\ access'[p].state # "active"
         => \/ p \notin copy.desired
            \/ /\ copy.life = "deleting"
               /\ \A s \in Services : service[s] \in {"new", "gone"}]_vars

\* When the MCP is gone, nothing that was created for it is left, wherever the
\* deletion was interrupted.
NothingLeftBehind ==
  mcp.life = "gone" =>
    /\ namespace \in {"absent", "foreign"}
    /\ \A r \in Requests : request[r] = "absent"
    /\ \A p \in Providers : access[p].state = "absent"
    /\ secret = {}

Settled == pc = "idle" /\ ~queued /\ mcp.life = "active" /\ mcp.phase = "Ready"

\* When the controller rests, there are credentials for exactly the providers of
\* the current spec, and nothing else is left of earlier ones.
SettledIsAligned ==
  Settled =>
    /\ secret = mcp.desired
    /\ mcp.desired \subseteq mcp.access
    /\ \A p \in Providers : access[p].state # "absent" => p \in mcp.desired

\* The controller comes to rest with a Ready MCP, unless that is deleted.
EventuallyReady == mcp.life = "active" ~> Settled \/ mcp.life # "active"

\* A deleted MCP goes away, whatever fails during the teardown, unless its
\* namespace was created by another controller and never taken over.
EventuallyGone ==
  mcp.life = "deleting" ~> mcp.life = "gone" \/ namespace = "foreign"

\* access.go:28: "The bool return value specifies whether everything related to
\* MCP access is in the desired state or not" - so there is an AccessRequest for
\* every provider when the MCP is Ready and not looked at again.
ReadyMeansAccess ==
  Settled => \A p \in mcp.desired : access[p].state # "absent"

\* controller.go:239-240: "the MCP namespace might be created by another
\* controller first [...] Failing in this case is not desired as the MCP
\* reconciliation would be stuck" - so a deleted MCP goes away here as well.
NotStuck == mcp.life = "deleting" ~> mcp.life = "gone"
=============================================================================

--------------------------- MODULE ControlPlaneProofs ---------------------------
(***************************************************************************)
(* Theorems about the ControlPlane controller, for any number of providers *)
(* and services, of changes of the spec, failing calls and crashes.        *)
(***************************************************************************)
EXTENDS ControlPlane, FiniteSetTheorems, TLAPS

-----------------------------------------------------------------------------
(* The inductive invariant *)

Creating == {"namespace", "request", "cluster", "ensure"}

Managing == {"revoke", "sync", "drop"}

BeforeAccesses == {"services", "deleteServices", "list"}

AfterAccesses == {"requests", "deleteRequests", "releaseRequests", "deleteNamespace", "releaseMCP"}

\* Is the worker in the deletion of the MCP?
InDeletion ==
  pc \in BeforeAccesses \cup AfterAccesses \/ (pc \in Managing /\ copy.life = "deleting")

\* What the loops of the worker run over.
LoopsTyped ==
  /\ pc \in Managing \cup {"ensure"} => todo \subseteq Providers
  /\ pc = "deleteServices" => todo \subseteq Services
  /\ pc = "deleteRequests" => todo \subseteq doomed
  /\ pc \in {"deleteRequests", "releaseRequests"} => doomed \subseteq Requests

TypeInv == TypeOK /\ LoopsTyped

\* Nothing has been made for the MCP, or nothing is left of it.
Untouched ==
  /\ namespace \in {"absent", "foreign"}
  /\ \A r \in Requests : request[r] = "absent"
  /\ \A p \in Providers : access[p].state = "absent"
  /\ secret = {}

\* The finalizers of the MCP hold it as long as there is anything to be deleted.
Held ==
  /\ mcp.life \in {"new", "gone"} => mcp.finalizers = {}
  /\ mcp.life = "active" =>
       mcp.finalizers = {} \/ {MCPFinalizer, Primary} \subseteq mcp.finalizers
  /\ mcp.life = "deleting" => MCPFinalizer \in mcp.finalizers
  /\ mcp.finalizers = {} => Untouched
  /\ \A r \in Requests : request[r] # "absent" => r \in mcp.finalizers
  /\ namespace = "absent" =>
       /\ \A r \in Requests : request[r] = "absent"
       /\ \A p \in Providers : access[p].state = "absent"

\* What the worker's copy still tells of the MCP.
Copied ==
  /\ pc # "idle" => copy.life \in {"active", "deleting"}
  /\ pc = "finalizers" =>
       copy.life = "active" /\ copy.finalizers = {} /\ mcp.finalizers = {}
  /\ pc \in Creating => copy.life = "active"
  /\ pc \in Creating \cup Managing => InDeletion \/ {MCPFinalizer, Primary} \subseteq mcp.finalizers
  /\ InDeletion =>
       mcp.life = "deleting" /\ copy.life = "deleting" /\ copy.finalizers = mcp.finalizers
  /\ pc # "idle" /\ copy.life = "active" /\ mcp.life = "active" =>
       mcp.desired = copy.desired \/ queued

\* The deletion waits for the services, and no new ones come.
ServicesFirst ==
  /\ pc = "deleteServices" /\ ~failed /\ ~waiting =>
       \A s \in Services : service[s] \in {"new", "gone"} \/ s \in todo
  /\ InDeletion /\ pc \notin {"services", "deleteServices"} =>
       \A s \in Services : service[s] \in {"new", "gone"}

\* The AccessRequests there are: the ones the copy asks for, or they are waited for.
AccessesManaged ==
  /\ pc \in {"finalizers", "namespace", "request", "cluster"} => updated = {}
  /\ pc = "ensure" => copy.desired = updated \cup todo
  /\ pc \in Managing /\ copy.life = "active" => updated = copy.desired
  /\ InDeletion => updated = {}
  /\ pc = "revoke" => todo \cap updated = {} /\ \A p \in todo : access[p].state = "active"
  /\ pc \in Managing /\ ~waiting =>
       \A p \in Providers \ updated : access[p].state = "absent"

\* The Secrets there are: the same.
SecretsManaged ==
  /\ pc = "sync" => todo \subseteq updated
  /\ pc = "sync" /\ ~waiting => updated \ todo \subseteq secret \cap copy.access
  /\ pc = "drop" => todo \subseteq doomed /\ doomed \cap updated = {}
  /\ pc = "drop" /\ ~waiting => doomed = {} /\ updated = secret /\ updated \subseteq copy.access
  /\ pc \in AfterAccesses => secret = {}

\* The ClusterRequests that are left are the ones the worker has found.
RequestsFound ==
  /\ pc \in {"deleteRequests", "releaseRequests"} =>
       \A r \in Requests : request[r] # "absent" => r \in doomed
  /\ pc \in {"deleteNamespace", "releaseMCP"} => copy.finalizers = {MCPFinalizer}
  /\ pc = "releaseMCP" => namespace = "absent"

Aligned(of) ==
  /\ secret = of.desired
  /\ of.desired \subseteq of.access
  /\ \A p \in Providers : access[p].state # "absent" => p \in of.desired

\* A reconciliation that is done has aligned everything with its copy.
Done ==
  /\ pc = "status" /\ result = "done" /\ copy.life = "active" => Aligned(copy)
  /\ Settled => Aligned(mcp)

IInv ==
  /\ TypeInv
  /\ Held
  /\ Copied
  /\ ServicesFirst
  /\ AccessesManaged
  /\ SecretsManaged
  /\ RequestsFound
  /\ Done

-----------------------------------------------------------------------------
(* Who changes what *)

\* The actions, one by one, for a step of the worker.
LEMMA WorkerFrame ==
  ASSUME [Next]_vars
  PROVE  UNCHANGED local \/ Reconcile \/ CallFails \/ Crash
BY DEF Next, vars, local, User, OtherControllers, CreateMCP, EditMCP, DeleteMCP, CreateService,
       DeleteService, GrantRequest, RequestGone, ClusterHealthy, GrantAccess, AccessGone,
       ForeignNamespace, NamespaceGone, ProtectRequest, RequestCluster, ServiceGone

\* The MCP is changed by its user, by the worker and by service providers.
LEMMA MCPFrame ==
  ASSUME [Next]_vars
  PROVE  \/ UNCHANGED mcp
         \/ AddFinalizers \/ ReleaseClusterRequests \/ ReleaseMCP \/ UpdateStatus
         \/ \E desired \in SUBSET Providers : CreateMCP(desired) \/ EditMCP(desired)
         \/ DeleteMCP
         \/ \E s \in Services : ProtectRequest(s)
BY DEF Next, vars, objects, Reconcile, HandleCreateOrUpdate, ManageAccessRequests,
       HandleDelete, User,
       OtherControllers, Dequeue, EnsureNamespace, EnsureClusterRequest, GetCluster,
       EnsureAccessRequest, ListAccessRequests, DeleteAccessRequest, AccessRequestsDeleted,
       SyncAccessSecret, ListAccessSecrets, DeleteAccessSecret, AccessManaged, FindServices,
       DeleteServiceResource, ServicesDeleted, FindClusterRequests, DeleteClusterRequest,
       ClusterRequestsDeleted, DeleteNamespace, CallFails, Crash, CreateService, DeleteService,
       GrantRequest, RequestGone, ClusterHealthy, GrantAccess, AccessGone, ForeignNamespace,
       NamespaceGone, RequestCluster, ServiceGone

\* The namespace.
LEMMA NamespaceFrame ==
  ASSUME [Next]_vars
  PROVE  \/ UNCHANGED namespace
         \/ EnsureNamespace \/ DeleteNamespace \/ ForeignNamespace \/ NamespaceGone
BY DEF Next, vars, objects, Reconcile, HandleCreateOrUpdate, ManageAccessRequests,
       HandleDelete, User,
       OtherControllers, Dequeue, AddFinalizers, EnsureClusterRequest, GetCluster,
       EnsureAccessRequest, ListAccessRequests, DeleteAccessRequest, AccessRequestsDeleted,
       SyncAccessSecret, ListAccessSecrets, DeleteAccessSecret, AccessManaged, FindServices,
       DeleteServiceResource, ServicesDeleted, FindClusterRequests, DeleteClusterRequest,
       ClusterRequestsDeleted, ReleaseClusterRequests, ReleaseMCP, UpdateStatus, CallFails, Crash,
       CreateMCP, EditMCP, DeleteMCP, CreateService, DeleteService, GrantRequest, RequestGone,
       ClusterHealthy, GrantAccess, AccessGone, ProtectRequest, RequestCluster, ServiceGone

\* The ClusterRequests.
LEMMA RequestFrame ==
  ASSUME [Next]_vars
  PROVE  \/ UNCHANGED request
         \/ EnsureClusterRequest
         \/ \E r \in Requests : DeleteClusterRequest(r) \/ GrantRequest(r) \/ RequestGone(r)
         \/ \E s \in Services : RequestCluster(s)
BY DEF Next, vars, objects, Reconcile, HandleCreateOrUpdate, ManageAccessRequests,
       HandleDelete, User,
       OtherControllers, Dequeue, AddFinalizers, EnsureNamespace, GetCluster, EnsureAccessRequest,
       ListAccessRequests, DeleteAccessRequest, AccessRequestsDeleted, SyncAccessSecret,
       ListAccessSecrets, DeleteAccessSecret, AccessManaged, FindServices, DeleteServiceResource,
       ServicesDeleted, FindClusterRequests, ClusterRequestsDeleted, ReleaseClusterRequests,
       DeleteNamespace, ReleaseMCP, UpdateStatus, CallFails, Crash, CreateMCP, EditMCP, DeleteMCP,
       CreateService, DeleteService, ClusterHealthy, GrantAccess, AccessGone, ForeignNamespace,
       NamespaceGone, ProtectRequest, ServiceGone

\* The AccessRequests.
LEMMA AccessFrame ==
  ASSUME [Next]_vars
  PROVE  \/ UNCHANGED access
         \/ \E p \in Providers : \/ EnsureAccessRequest(p) \/ DeleteAccessRequest(p)
                                 \/ GrantAccess(p) \/ AccessGone(p)
BY DEF Next, vars, objects, Reconcile, HandleCreateOrUpdate, ManageAccessRequests,
       HandleDelete, User,
       OtherControllers, Dequeue, AddFinalizers, EnsureNamespace, EnsureClusterRequest, GetCluster,
       ListAccessRequests, AccessRequestsDeleted, SyncAccessSecret, ListAccessSecrets,
       DeleteAccessSecret, AccessManaged, FindServices, DeleteServiceResource, ServicesDeleted,
       FindClusterRequests, DeleteClusterRequest, ClusterRequestsDeleted, ReleaseClusterRequests,
       DeleteNamespace, ReleaseMCP, UpdateStatus, CallFails, Crash, CreateMCP, EditMCP, DeleteMCP,
       CreateService, DeleteService, GrantRequest, RequestGone, ClusterHealthy, ForeignNamespace,
       NamespaceGone, ProtectRequest, RequestCluster, ServiceGone

\* The Secrets.
LEMMA SecretFrame ==
  ASSUME [Next]_vars
  PROVE  \/ UNCHANGED secret
         \/ \E p \in Providers : SyncAccessSecret(p) \/ DeleteAccessSecret(p)
BY DEF Next, vars, objects, Reconcile, HandleCreateOrUpdate, ManageAccessRequests,
       HandleDelete, User,
       OtherControllers, Dequeue, AddFinalizers, EnsureNamespace, EnsureClusterRequest, GetCluster,
       EnsureAccessRequest, ListAccessRequests, DeleteAccessRequest, AccessRequestsDeleted,
       ListAccessSecrets, AccessManaged, FindServices, DeleteServiceResource, ServicesDeleted,
       FindClusterRequests, DeleteClusterRequest, ClusterRequestsDeleted, ReleaseClusterRequests,
       DeleteNamespace, ReleaseMCP, UpdateStatus, CallFails, Crash, CreateMCP, EditMCP, DeleteMCP,
       CreateService, DeleteService, GrantRequest, RequestGone, ClusterHealthy, GrantAccess,
       AccessGone, ForeignNamespace, NamespaceGone, ProtectRequest, RequestCluster, ServiceGone

\* The services.
LEMMA ServiceFrame ==
  ASSUME [Next]_vars
  PROVE  \/ UNCHANGED service
         \/ \E s \in Services : \/ DeleteServiceResource(s) \/ CreateService(s)
                                \/ DeleteService(s) \/ ServiceGone(s)
BY DEF Next, vars, objects, Reconcile, HandleCreateOrUpdate, ManageAccessRequests,
       HandleDelete, User,
       OtherControllers, Dequeue, AddFinalizers, EnsureNamespace, EnsureClusterRequest, GetCluster,
       EnsureAccessRequest, ListAccessRequests, DeleteAccessRequest, AccessRequestsDeleted,
       SyncAccessSecret, ListAccessSecrets, DeleteAccessSecret, AccessManaged, FindServices,
       ServicesDeleted, FindClusterRequests, DeleteClusterRequest, ClusterRequestsDeleted,
       ReleaseClusterRequests, DeleteNamespace, ReleaseMCP, UpdateStatus, CallFails, Crash,
       CreateMCP, EditMCP, DeleteMCP, GrantRequest, RequestGone, ClusterHealthy, GrantAccess,
       AccessGone, ForeignNamespace, NamespaceGone, ProtectRequest, RequestCluster

-----------------------------------------------------------------------------
(* Types *)

\* The initial values have the types.
LEMMA TypeInit == Init => TypeInv
<1>1. NewMCP \in MCPType /\ NoAccess \in AccessType
  BY DEF NewMCP, NoAccess, MCPType, AccessType
<1>2. Init => TypeOK
  <2>. SUFFICES ASSUME Init
                PROVE  TypeOK
    OBVIOUS
  <2>1. edits \in 0 .. MaxEdits /\ faults \in 0 .. MaxFaults
    BY ControlPlaneAssumption DEF Init
  <2>2. /\ mcp \in MCPType /\ copy \in MCPType
        /\ access \in [Providers -> AccessType]
    BY <1>1 DEF Init
  <2>3. /\ request \in [Requests -> RequestStates]
        /\ service \in [Services -> ServiceStates]
        /\ namespace \in NamespaceStates
    BY DEF Init, RequestStates, ServiceStates, NamespaceStates
  <2>4. QED
    BY <2>1, <2>2, <2>3 DEF Init, TypeOK, Steps
<1>3. Init => LoopsTyped
  BY DEF Init, LoopsTyped, Managing
<1>4. QED
  BY <1>2, <1>3 DEF TypeInv

\* The MCP and the worker's copy of it.
LEMMA MCPTyped ==
  ASSUME TypeInv, [Next]_vars
  PROVE  mcp' \in MCPType /\ copy' \in MCPType
<1>1. /\ mcp \in MCPType /\ copy \in MCPType
      /\ NewMCP \in MCPType
  BY DEF TypeInv, TypeOK, NewMCP, MCPType
<1>2. mcp' \in MCPType
  <2>1. CASE AddFinalizers
    <3>1. \/ mcp' = mcp
          \/ mcp' = [mcp EXCEPT !.finalizers = copy.finalizers \cup {MCPFinalizer, Primary}]
      BY <2>1 DEF AddFinalizers
    <3>2. copy.finalizers \cup {MCPFinalizer, Primary} \in SUBSET (Requests \cup {MCPFinalizer})
      BY <1>1 DEF MCPType, Requests
    <3>3. QED
      BY <1>1, <3>1, <3>2 DEF MCPType
  <2>2. ASSUME NEW fins \in SUBSET copy.finalizers,
               mcp' = [mcp EXCEPT !.finalizers = fins, !.life = IF fins = {} THEN "gone" ELSE @]
        PROVE  mcp' \in MCPType
    <3>1. fins \in SUBSET (Requests \cup {MCPFinalizer})
      BY <1>1 DEF MCPType
    <3>2. CASE fins = {}
      BY <1>1, <2>2, <3>1, <3>2 DEF MCPType
    <3>3. CASE fins # {}
      BY <1>1, <2>2, <3>1, <3>3 DEF MCPType
    <3>4. QED
      BY <3>2, <3>3
  <2>3. CASE ReleaseClusterRequests
    <3>. DEFINE fins == copy.finalizers \ (Requests \ doomed)
    <3>1. \/ mcp' = mcp
          \/ mcp' = [mcp EXCEPT !.finalizers = fins, !.life = IF fins = {} THEN "gone" ELSE @]
      BY <2>3 DEF ReleaseClusterRequests
    <3>2. fins \in SUBSET copy.finalizers
      OBVIOUS
    <3>. HIDE DEF fins
    <3>3. QED
      BY <1>1, <2>2, <3>1, <3>2
  <2>4. CASE ReleaseMCP
    BY <1>1, <2>2, <2>4 DEF ReleaseMCP
  <2>5. CASE UpdateStatus
    <3>. DEFINE phase == IF copy.life = "deleting" THEN "Terminating"
                         ELSE IF result = "done" THEN "Ready" ELSE "Progressing"
    <3>1. mcp' = mcp \/ mcp' = [mcp EXCEPT !.access = copy.access, !.phase = phase]
      BY <2>5 DEF UpdateStatus
    <3>2. copy.access \in SUBSET Providers /\ phase \in {"Progressing", "Ready", "Terminating"}
      BY <1>1 DEF MCPType
    <3>. HIDE DEF phase
    <3>3. QED
      BY <1>1, <3>1, <3>2 DEF MCPType
  <2>6. ASSUME NEW desired \in SUBSET Providers, CreateMCP(desired) \/ EditMCP(desired)
        PROVE  mcp' \in MCPType
    BY <1>1, <2>6 DEF CreateMCP, EditMCP, MCPType
  <2>7. CASE DeleteMCP
    BY <1>1, <2>7 DEF DeleteMCP, MCPType
  <2>8. ASSUME NEW s \in Services, ProtectRequest(s)
        PROVE  mcp' \in MCPType
    <3>1. mcp.finalizers \cup {s} \in SUBSET (Requests \cup {MCPFinalizer})
      BY <1>1 DEF MCPType, Requests
    <3>2. mcp' = [mcp EXCEPT !.finalizers = mcp.finalizers \cup {s}]
      BY <2>8 DEF ProtectRequest
    <3>3. QED
      BY <1>1, <3>1, <3>2 DEF MCPType
  <2>9. QED
    BY <1>1, <2>1, <2>3, <2>4, <2>5, <2>6, <2>7, <2>8, MCPFrame
<1>3. copy' \in MCPType
  <2>1. \/ copy' \in {copy, mcp, mcp', NewMCP}
        \/ \E a \in SUBSET Providers : copy' = [copy EXCEPT !.access = a]
    <3>1. CASE UNCHANGED copy
      BY <3>1
    <3>2. CASE Idle
      BY <3>2 DEF Idle, ResetBut
    <3>3. CASE Fail
      BY <3>3 DEF Fail
    <3>4. CASE Dequeue
      BY <3>4 DEF Dequeue, ResetBut, local
    <3>5. CASE AddFinalizers \/ ReleaseClusterRequests
      BY <3>3, <3>5 DEF AddFinalizers, ReleaseClusterRequests
    <3>6. ASSUME NEW p \in Providers, SyncAccessSecret(p)
          PROVE  \/ copy' = copy
                 \/ \E a \in SUBSET Providers : copy' = [copy EXCEPT !.access = a]
      <4>1. copy' = copy \/ copy' = [copy EXCEPT !.access = copy.access \cup {p}]
        BY <3>6 DEF SyncAccessSecret, Fail
      <4>2. copy.access \cup {p} \in SUBSET Providers
        BY <1>1 DEF MCPType
      <4>3. QED
        BY <4>1, <4>2
    <3>7. ASSUME AccessManaged
          PROVE  \/ copy' = copy
                 \/ \E a \in SUBSET Providers : copy' = [copy EXCEPT !.access = a]
      <4>1. copy' = copy \/ copy' = [copy EXCEPT !.access = copy.access \ doomed]
        BY <3>7 DEF AccessManaged, Fail
      <4>2. copy.access \ doomed \in SUBSET Providers
        BY <1>1 DEF MCPType
      <4>3. QED
        BY <4>1, <4>2
    <3>8. \/ UNCHANGED copy \/ Idle \/ Fail \/ Dequeue \/ AddFinalizers \/ ReleaseClusterRequests
          \/ (\E p \in Providers : SyncAccessSecret(p)) \/ AccessManaged
      BY WorkerFrame
         DEF local, Reconcile, HandleCreateOrUpdate, ManageAccessRequests, HandleDelete,
             EnsureNamespace, EnsureClusterRequest, GetCluster, EnsureAccessRequest,
             ListAccessRequests, DeleteAccessRequest, AccessRequestsDeleted, ListAccessSecrets,
             DeleteAccessSecret, FindServices, DeleteServiceResource, ServicesDeleted,
             FindClusterRequests, DeleteClusterRequest, ClusterRequestsDeleted, DeleteNamespace,
             ReleaseMCP, UpdateStatus, CallFails, Crash
    <3>9. QED
      BY <3>1, <3>2, <3>3, <3>4, <3>5, <3>6, <3>7, <3>8
  <2>2. \A a \in SUBSET Providers : [copy EXCEPT !.access = a] \in MCPType
    BY <1>1 DEF MCPType
  <2>3. QED
    BY <1>1, <1>2, <2>1, <2>2
<1>4. QED
  BY <1>2, <1>3

\* The other objects.
LEMMA ObjectsTyped ==
  ASSUME TypeInv, [Next]_vars
  PROVE  /\ namespace' \in NamespaceStates
         /\ request' \in [Requests -> RequestStates]
         /\ healthy' \in BOOLEAN
         /\ access' \in [Providers -> AccessType]
         /\ secret' \subseteq Providers
         /\ service' \in [Services -> ServiceStates]
<1>1. /\ namespace \in NamespaceStates
      /\ request \in [Requests -> RequestStates]
      /\ healthy \in BOOLEAN
      /\ access \in [Providers -> AccessType]
      /\ secret \subseteq Providers
      /\ service \in [Services -> ServiceStates]
  BY DEF TypeInv, TypeOK
<1>2. namespace' \in NamespaceStates
  BY <1>1, NamespaceFrame
     DEF EnsureNamespace, DeleteNamespace, ForeignNamespace, NamespaceGone, NamespaceStates
<1>3. request' \in [Requests -> RequestStates]
  BY <1>1, RequestFrame
     DEF EnsureClusterRequest, DeleteClusterRequest, GrantRequest, RequestGone, RequestCluster,
         RequestStates
<1>4. healthy' \in BOOLEAN
  <2>1. healthy' = healthy \/ healthy' = TRUE
    BY DEF Next, vars, objects, Reconcile, HandleCreateOrUpdate, ManageAccessRequests, HandleDelete,
           User, OtherControllers, Dequeue, AddFinalizers, EnsureNamespace, EnsureClusterRequest,
           GetCluster, EnsureAccessRequest, ListAccessRequests, DeleteAccessRequest,
           AccessRequestsDeleted, SyncAccessSecret, ListAccessSecrets, DeleteAccessSecret,
           AccessManaged, FindServices, DeleteServiceResource, ServicesDeleted,
           FindClusterRequests, DeleteClusterRequest, ClusterRequestsDeleted,
           ReleaseClusterRequests, DeleteNamespace, ReleaseMCP, UpdateStatus, CallFails, Crash,
           CreateMCP, EditMCP, DeleteMCP, CreateService, DeleteService, GrantRequest, RequestGone,
           ClusterHealthy, GrantAccess, AccessGone, ForeignNamespace, NamespaceGone,
           ProtectRequest, RequestCluster, ServiceGone
  <2>2. QED
    BY <1>1, <2>1
<1>5. access' \in [Providers -> AccessType]
  <2>1. NoAccess \in AccessType /\ [NoAccess EXCEPT !.state = "active"] \in AccessType
    BY DEF NoAccess, AccessType
  <2>2. ASSUME NEW p \in Providers, EnsureAccessRequest(p)
        PROVE  access' \in [Providers -> AccessType]
    <3>1. \/ access' = access
          \/ access' = [access EXCEPT ![p] = access[p]]
          \/ access' = [access EXCEPT ![p] = [NoAccess EXCEPT !.state = "active"]]
      BY <2>2 DEF EnsureAccessRequest
    <3>2. QED
      BY <1>1, <2>1, <3>1
  <2>3. ASSUME NEW p \in Providers, DeleteAccessRequest(p) \/ GrantAccess(p) \/ AccessGone(p)
        PROVE  access' \in [Providers -> AccessType]
    <3>1. /\ [access[p] EXCEPT !.state = "deleting"] \in AccessType
          /\ [access[p] EXCEPT !.granted = TRUE] \in AccessType
      BY <1>1 DEF AccessType
    <3>2. \/ access' = [access EXCEPT ![p] = [access[p] EXCEPT !.state = "deleting"]]
          \/ access' = [access EXCEPT ![p] = [access[p] EXCEPT !.granted = TRUE]]
          \/ access' = [access EXCEPT ![p] = NoAccess]
      BY <1>1, <2>3 DEF DeleteAccessRequest, GrantAccess, AccessGone
    <3>3. QED
      BY <1>1, <2>1, <3>1, <3>2
  <2>4. QED
    BY <1>1, <2>2, <2>3, AccessFrame
<1>6. secret' \subseteq Providers
  BY <1>1, SecretFrame DEF SyncAccessSecret, DeleteAccessSecret
<1>7. service' \in [Services -> ServiceStates]
  BY <1>1, ServiceFrame
     DEF DeleteServiceResource, CreateService, DeleteService, ServiceGone, ServiceStates
<1>8. QED
  BY <1>2, <1>3, <1>4, <1>5, <1>6, <1>7

\* The bounds, and the work queue.
LEMMA CountersTyped ==
  ASSUME TypeInv, [Next]_vars
  PROVE  /\ queued' \in BOOLEAN
         /\ edits' \in 0 .. MaxEdits /\ faults' \in 0 .. MaxFaults
<1>1. /\ queued \in BOOLEAN /\ edits \in 0 .. MaxEdits /\ faults \in 0 .. MaxFaults
      /\ MaxEdits \in Nat /\ MaxFaults \in Nat
  BY ControlPlaneAssumption DEF TypeInv, TypeOK
<1>. DEFINE Rest == /\ queued' \in {queued, FALSE, TRUE, queued \/ result # "done", Exists}
                    /\ edits' = edits \/ (edits < MaxEdits /\ edits' = edits + 1)
                    /\ faults' = faults \/ (faults < MaxFaults /\ faults' = faults + 1)
<1>2. Rest
  BY DEF Next, vars, objects, local, Reconcile, HandleCreateOrUpdate, ManageAccessRequests,
         HandleDelete, User, OtherControllers, Dequeue, AddFinalizers, EnsureNamespace,
         EnsureClusterRequest, GetCluster, EnsureAccessRequest, ListAccessRequests,
         DeleteAccessRequest, AccessRequestsDeleted, SyncAccessSecret, ListAccessSecrets,
         DeleteAccessSecret, AccessManaged, FindServices, DeleteServiceResource, ServicesDeleted,
         FindClusterRequests, DeleteClusterRequest, ClusterRequestsDeleted,
         ReleaseClusterRequests, DeleteNamespace, ReleaseMCP, UpdateStatus, CallFails, Crash,
         FaultBudget, CreateMCP, EditMCP, DeleteMCP, CreateService, DeleteService, GrantRequest,
         RequestGone, ClusterHealthy, GrantAccess, AccessGone, ForeignNamespace, NamespaceGone,
         ProtectRequest, RequestCluster, ServiceGone
<1>3. (queued \/ result # "done") \in BOOLEAN /\ Exists \in BOOLEAN
  BY DEF Exists
<1>4. queued' \in BOOLEAN
  <2>1. queued' \in {queued, FALSE, TRUE, queued \/ result # "done", Exists}
    BY <1>2
  <2>2. CASE queued' = queued
    BY <1>1, <2>2
  <2>3. CASE queued' = FALSE \/ queued' = TRUE
    BY <2>3
  <2>4. CASE queued' = (queued \/ result # "done")
    BY <1>3, <2>4
  <2>5. CASE queued' = Exists
    BY <1>3, <2>5
  <2>6. QED
    BY <2>1, <2>2, <2>3, <2>4, <2>5
<1>5. edits' \in 0 .. MaxEdits /\ faults' \in 0 .. MaxFaults
  BY <1>1, <1>2
<1>6. QED
  BY <1>4, <1>5

\* The variables of the worker.
WorkerTyped ==
  /\ pc \in Steps
  /\ granted \subseteq updated /\ updated \subseteq Providers
  /\ todo \subseteq Providers \cup Requests
  /\ doomed \subseteq Providers \cup Requests
  /\ waiting \in BOOLEAN /\ failed \in BOOLEAN
  /\ result \in {"error", "backoff", "done"}
  /\ LoopsTyped

\* They keep their types.
LEMMA WorkerKeepsTypes ==
  ASSUME TypeInv, [Next]_vars
  PROVE  WorkerTyped'
<1>1. WorkerTyped /\ copy \in MCPType /\ secret \subseteq Providers
  BY DEF TypeInv, TypeOK, WorkerTyped
<1>. USE DEF WorkerTyped, LoopsTyped, Managing, Steps
<1>2. CASE UNCHANGED local
  BY <1>1, <1>2 DEF local
<1>3. ASSUME NEW step \in Steps, NEW c, ResetBut(step, c)
      PROVE  WorkerTyped'
  BY <1>3 DEF ResetBut
<1>4. ASSUME NEW how \in {"error", "backoff", "done"}, Return(how)
      PROVE  WorkerTyped'
  BY <1>4 DEF Return
<1>5. Idle \/ Fail => WorkerTyped'
  BY <1>3, <1>4 DEF Idle, Fail
<1>6. CASE Dequeue
  <2>1. CASE UNCHANGED local
    BY <1>2, <2>1
  <2>2. \/ UNCHANGED local
        \/ \E step \in {"services", "namespace", "finalizers"} : ResetBut(step, mcp)
    BY <1>6 DEF Dequeue
  <2>3. QED
    BY <1>2, <1>3, <2>2
<1>7. CASE AddFinalizers
  BY <1>1, <1>5, <1>7 DEF AddFinalizers
<1>8. CASE EnsureNamespace
  BY <1>1, <1>8 DEF EnsureNamespace
<1>9. CASE EnsureClusterRequest
  BY <1>1, <1>4, <1>9 DEF EnsureClusterRequest
<1>10. CASE GetCluster
  <2>1. copy.desired \subseteq Providers /\ healthy \in BOOLEAN
    BY <1>1 DEF MCPType, TypeInv, TypeOK
  <2>2. QED
    BY <1>1, <1>10, <2>1 DEF GetCluster
<1>11. ASSUME NEW p \in Providers, EnsureAccessRequest(p)
       PROVE  WorkerTyped'
  <2>1. CASE Fail
    BY <1>5, <2>1
  <2>2. CASE /\ updated' = updated \cup {p}
             /\ granted' = IF access[p].granted THEN granted \cup {p} ELSE granted
             /\ todo' = todo \ {p}
             /\ UNCHANGED <<pc, copy, doomed, waiting, failed, result>>
    BY <1>1, <1>11, <2>2 DEF EnsureAccessRequest
  <2>3. QED
    BY <1>11, <2>1, <2>2 DEF EnsureAccessRequest
<1>12. CASE ListAccessRequests
  <2>. DEFINE found == Undesired({p \in Providers : access[p].state # "absent"})
  <2>1. waiting' = (waiting \/ found # {})
    BY <1>12 DEF ListAccessRequests
  <2>2. waiting' \in BOOLEAN
    BY <1>1, <2>1
  <2>3. todo' \subseteq Providers
    BY <1>12 DEF ListAccessRequests, Undesired
  <2>4. QED
    BY <1>1, <1>12, <2>2, <2>3 DEF ListAccessRequests
<1>13. ASSUME NEW p \in Providers, DeleteAccessRequest(p)
       PROVE  WorkerTyped'
  BY <1>1, <1>13 DEF DeleteAccessRequest
<1>14. CASE AccessRequestsDeleted
  BY <1>1, <1>5, <1>14 DEF AccessRequestsDeleted
<1>15. ASSUME NEW p \in Providers, SyncAccessSecret(p)
       PROVE  WorkerTyped'
  BY <1>1, <1>5, <1>15 DEF SyncAccessSecret
<1>16. CASE ListAccessSecrets
  <2>1. waiting' \in BOOLEAN
    BY <1>1, <1>16 DEF ListAccessSecrets
  <2>2. QED
    BY <1>1, <1>16, <2>1 DEF ListAccessSecrets, Undesired
<1>17. ASSUME NEW p \in Providers, DeleteAccessSecret(p)
       PROVE  WorkerTyped'
  BY <1>1, <1>17 DEF DeleteAccessSecret
<1>18. CASE AccessManaged
  BY <1>1, <1>4, <1>5, <1>18 DEF AccessManaged
<1>19. CASE FindServices
  <2>1. waiting' \in BOOLEAN
    BY <1>19 DEF FindServices
  <2>2. todo' \subseteq Services
    BY <1>19 DEF FindServices
  <2>3. QED
    BY <1>1, <1>19, <2>1, <2>2 DEF FindServices, Requests
<1>20. ASSUME NEW s \in Services, DeleteServiceResource(s)
       PROVE  WorkerTyped'
  BY <1>1, <1>20 DEF DeleteServiceResource
<1>21. CASE ServicesDeleted
  BY <1>1, <1>4, <1>21 DEF ServicesDeleted
<1>22. CASE FindClusterRequests
  BY <1>1, <1>22 DEF FindClusterRequests
<1>23. ASSUME NEW r \in Requests, DeleteClusterRequest(r)
       PROVE  WorkerTyped'
  <2>1. /\ pc = "deleteRequests" /\ todo' = todo \ {r} /\ doomed' \in {doomed, doomed \ {r}}
        /\ UNCHANGED <<pc, updated, granted, waiting, failed, result>>
    BY <1>23 DEF DeleteClusterRequest
  <2>2. QED
    BY <1>1, <2>1
<1>24. CASE ClusterRequestsDeleted
  BY <1>1, <1>4, <1>5, <1>24 DEF ClusterRequestsDeleted
<1>25. CASE ReleaseClusterRequests
  BY <1>1, <1>4, <1>5, <1>25 DEF ReleaseClusterRequests
<1>26. CASE DeleteNamespace
  BY <1>1, <1>4, <1>26 DEF DeleteNamespace
<1>27. CASE ReleaseMCP
  BY <1>1, <1>4, <1>5, <1>27 DEF ReleaseMCP
<1>28. CASE UpdateStatus \/ Crash
  BY <1>5, <1>28 DEF UpdateStatus, Crash
<1>29. CASE CallFails
  BY <1>1, <1>5, <1>29 DEF CallFails
<1>30. QED
  BY <1>2, <1>6, <1>7, <1>8, <1>9, <1>10, <1>11, <1>12, <1>13, <1>14, <1>15, <1>16, <1>17, <1>18,
     <1>19, <1>20, <1>21, <1>22, <1>23, <1>24, <1>25, <1>26, <1>27, <1>28, <1>29, WorkerFrame
     DEF Reconcile, HandleCreateOrUpdate, ManageAccessRequests, HandleDelete

\* Every step keeps the types.
LEMMA TypeStep ==
  ASSUME TypeInv, [Next]_vars
  PROVE  TypeInv'
BY MCPTyped, ObjectsTyped, CountersTyped, WorkerKeepsTypes DEF TypeInv, TypeOK, WorkerTyped

\* The variables have the values they should have.
THEOREM TypeCorrect == Spec => []TypeOK
<1>1. TypeInv /\ [Next]_vars => TypeInv'
  BY TypeStep
<1>2. TypeInv => TypeOK
  BY DEF TypeInv
<1>3. QED
  BY <1>1, <1>2, TypeInit, PTL DEF Spec

-----------------------------------------------------------------------------
(* What holds the MCP *)

\* The changes of the life and the finalizers of the MCP, and of its spec.  A copy
\* that the worker holds in a deletion has the finalizers of the MCP itself, so that
\* none is removed or brought back by a patch of the worker.
MCPChange ==
  \/ /\ UNCHANGED <<mcp.life, mcp.finalizers>>
     /\ mcp'.desired = mcp.desired \/ queued'
  \/ /\ AddFinalizers
     /\ mcp.life = "active" /\ mcp'.life = "active" /\ mcp'.desired = mcp.desired
     /\ mcp.finalizers = {} /\ mcp'.finalizers = {MCPFinalizer, Primary}
  \/ /\ ReleaseClusterRequests
     /\ mcp.life = "deleting" /\ mcp'.life = "deleting"
     /\ mcp'.finalizers = mcp.finalizers \ (Requests \ doomed)
  \/ /\ ReleaseMCP
     /\ mcp.life = "deleting" /\ mcp'.life = "gone" /\ mcp'.finalizers = {}
  \/ /\ mcp.life = "new" /\ mcp'.life = "active"
     /\ UNCHANGED <<mcp.finalizers, local>> /\ queued'
  \/ /\ mcp.life = "active" /\ mcp'.life = IF mcp.finalizers = {} THEN "gone" ELSE "deleting"
     /\ UNCHANGED <<mcp.finalizers, local>>
  \/ /\ mcp.life = "active" /\ mcp'.life = "active" /\ mcp'.desired = mcp.desired
     /\ MCPFinalizer \in mcp.finalizers
     /\ \E s \in Services : mcp'.finalizers = mcp.finalizers \cup {s} /\ ProtectRequest(s)

\* The MCP changes in no other way.
LEMMA MCPChanges ==
  ASSUME IInv, [Next]_vars
  PROVE  MCPChange
<1>1. mcp \in MCPType /\ copy \in MCPType
  BY DEF IInv, TypeInv, TypeOK
<1>2. CASE UNCHANGED mcp
  BY <1>2 DEF MCPChange
<1>3. CASE AddFinalizers
  <2>1. pc = "finalizers" /\ copy.finalizers = {} /\ mcp.finalizers = {}
    BY <1>3 DEF AddFinalizers, IInv, Copied
  <2>2. mcp.life # "deleting"
    BY <2>1 DEF IInv, Held
  <2>3. \/ UNCHANGED mcp
        \/ mcp.life = "active" /\ mcp' = [mcp EXCEPT !.finalizers = {MCPFinalizer, Primary}]
    BY <1>3, <2>1, <2>2 DEF AddFinalizers
  <2>4. QED
    BY <1>1, <1>2, <1>3, <2>1, <2>3 DEF MCPChange, MCPType
<1>4. CASE ReleaseClusterRequests
  <2>1. /\ copy.finalizers = mcp.finalizers /\ mcp.life = "deleting"
        /\ MCPFinalizer \in mcp.finalizers
    BY <1>4 DEF ReleaseClusterRequests, IInv, Copied, Held, InDeletion, AfterAccesses
  <2>. DEFINE fins == copy.finalizers \ (Requests \ doomed)
  <2>2. MCPFinalizer \in fins
    BY <2>1, ControlPlaneAssumption
  <2>3. \/ UNCHANGED mcp
        \/ mcp' = [mcp EXCEPT !.finalizers = fins, !.life = IF fins = {} THEN "gone" ELSE @]
    BY <1>4 DEF ReleaseClusterRequests
  <2>4. UNCHANGED mcp \/ (mcp'.finalizers = fins /\ mcp'.life = mcp.life)
    BY <1>1, <2>2, <2>3 DEF MCPType
  <2>5. QED
    BY <1>2, <1>4, <2>1, <2>4 DEF MCPChange
<1>5. CASE ReleaseMCP
  <2>1. /\ copy.finalizers = mcp.finalizers /\ mcp.life = "deleting"
        /\ copy.finalizers = {MCPFinalizer}
    BY <1>5 DEF ReleaseMCP, IInv, Copied, RequestsFound, InDeletion, AfterAccesses
  <2>. DEFINE fins == copy.finalizers \ {MCPFinalizer}
  <2>2. fins = {}
    BY <2>1
  <2>3. \/ UNCHANGED mcp
        \/ mcp' = [mcp EXCEPT !.finalizers = fins, !.life = IF fins = {} THEN "gone" ELSE @]
    BY <1>5 DEF ReleaseMCP
  <2>4. UNCHANGED mcp \/ (mcp'.finalizers = {} /\ mcp'.life = "gone")
    BY <1>1, <2>2, <2>3 DEF MCPType
  <2>5. QED
    BY <1>2, <1>5, <2>1, <2>4 DEF MCPChange
<1>6. CASE UpdateStatus
  <2>1. UNCHANGED <<mcp.life, mcp.finalizers, mcp.desired>>
    BY <1>1, <1>6 DEF UpdateStatus, MCPType
  <2>2. QED
    BY <2>1 DEF MCPChange
<1>7. ASSUME NEW desired \in SUBSET Providers, CreateMCP(desired)
      PROVE  MCPChange
  <2>1. /\ mcp.life = "new" /\ mcp'.life = "active" /\ mcp'.finalizers = mcp.finalizers
        /\ UNCHANGED local /\ queued'
    BY <1>1, <1>7 DEF CreateMCP, MCPType
  <2>2. QED
    BY <2>1 DEF MCPChange
<1>8. ASSUME NEW desired \in SUBSET Providers, EditMCP(desired)
      PROVE  MCPChange
  <2>1. mcp'.life = mcp.life /\ mcp'.finalizers = mcp.finalizers /\ queued'
    BY <1>1, <1>8 DEF EditMCP, MCPType
  <2>2. QED
    BY <2>1 DEF MCPChange
<1>9. CASE DeleteMCP
  <2>1. /\ mcp.life = "active" /\ UNCHANGED <<mcp.finalizers, local>>
        /\ mcp'.life = IF mcp.finalizers = {} THEN "gone" ELSE "deleting"
    BY <1>1, <1>9 DEF DeleteMCP, MCPType
  <2>2. QED
    BY <2>1 DEF MCPChange
<1>10. ASSUME NEW s \in Services, ProtectRequest(s)
       PROVE  MCPChange
  <2>1. /\ mcp.life = "active" /\ MCPFinalizer \in mcp.finalizers
        /\ mcp' = [mcp EXCEPT !.finalizers = mcp.finalizers \cup {s}]
    BY <1>10 DEF ProtectRequest
  <2>2. /\ mcp'.life = mcp.life /\ mcp'.finalizers = mcp.finalizers \cup {s}
        /\ mcp'.desired = mcp.desired
    BY <1>1, <2>1 DEF MCPType
  <2>3. QED
    BY <1>10, <2>1, <2>2 DEF MCPChange
<1>11. QED
  BY <1>2, <1>3, <1>4, <1>5, <1>6, <1>7, <1>8, <1>9, <1>10, MCPFrame

\* The finalizers hold the MCP.
LEMMA HeldInit == Init => Held
BY DEF Init, Held, NewMCP, NoAccess, Untouched

\* Something is made only for an MCP with the finalizer for it.
LEMMA MadeWhenHeld ==
  ASSUME IInv, [Next]_vars
  PROVE  /\ namespace' # namespace => namespace' \in {"absent", "foreign"} \/ mcp.finalizers # {}
         /\ \A r \in Requests : request[r] = "absent" /\ request'[r] # "absent" =>
              r \in mcp.finalizers /\ r \in mcp'.finalizers /\ namespace # "absent"
         /\ \A p \in Providers : access[p].state = "absent" /\ access'[p].state # "absent" =>
              mcp.finalizers # {} /\ namespace # "absent"
         /\ ~(secret' \subseteq secret) => mcp.finalizers # {}
<1>1. /\ request \in [Requests -> RequestStates] /\ access \in [Providers -> AccessType]
      /\ mcp \in MCPType
  BY DEF IInv, TypeInv, TypeOK
<1>2. namespace' # namespace => namespace' \in {"absent", "foreign"} \/ mcp.finalizers # {}
  <2>1. CASE EnsureNamespace \/ DeleteNamespace
    <3>1. pc \in {"namespace", "deleteNamespace"}
      BY <2>1 DEF EnsureNamespace, DeleteNamespace
    <3>2. mcp.finalizers # {}
      BY <3>1 DEF IInv, Held, Copied, Creating, Managing, InDeletion, AfterAccesses
    <3>3. QED
      BY <3>2
  <2>2. QED
    BY <2>1, NamespaceFrame DEF ForeignNamespace, NamespaceGone
<1>3. ASSUME NEW r \in Requests, request[r] = "absent", request'[r] # "absent"
      PROVE  r \in mcp.finalizers /\ r \in mcp'.finalizers /\ namespace # "absent"
  <2>1. CASE EnsureClusterRequest
    <3>1. pc = "request" /\ r = Primary /\ NamespaceOpen /\ UNCHANGED mcp
      BY <1>1, <1>3, <2>1 DEF EnsureClusterRequest
    <3>2. QED
      BY <3>1 DEF IInv, Copied, Creating, Managing, InDeletion, BeforeAccesses, AfterAccesses,
                  NamespaceOpen
  <2>2. ASSUME NEW q \in Requests, DeleteClusterRequest(q) \/ GrantRequest(q) \/ RequestGone(q)
        PROVE  FALSE
    <3>1. request'[r] # request[r] => q = r
      BY <1>1, <2>2 DEF DeleteClusterRequest, GrantRequest, RequestGone
    <3>2. QED
      BY <1>1, <1>3, <2>2, <3>1 DEF DeleteClusterRequest, GrantRequest, RequestGone
  <2>3. ASSUME NEW s \in Services, RequestCluster(s)
        PROVE  r \in mcp.finalizers /\ r \in mcp'.finalizers /\ namespace # "absent"
    BY <1>1, <1>3, <2>3 DEF RequestCluster, NamespaceOpen
  <2>4. QED
    BY <1>3, <2>1, <2>2, <2>3, RequestFrame
<1>4. ASSUME NEW p \in Providers, access[p].state = "absent", access'[p].state # "absent"
      PROVE  mcp.finalizers # {} /\ namespace # "absent"
  <2>1. ASSUME NEW q \in Providers, EnsureAccessRequest(q)
        PROVE  mcp.finalizers # {} /\ namespace # "absent"
    <3>1. pc = "ensure" /\ NamespaceOpen
      BY <1>1, <1>4, <2>1 DEF EnsureAccessRequest
    <3>2. QED
      BY <3>1 DEF IInv, Copied, Creating, InDeletion, BeforeAccesses, AfterAccesses, Managing,
                  NamespaceOpen
  <2>2. ASSUME NEW q \in Providers, DeleteAccessRequest(q)
        PROVE  mcp.finalizers # {} /\ namespace # "absent"
    <3>1. pc = "revoke" /\ q = p
      BY <1>1, <1>4, <2>2 DEF DeleteAccessRequest
    <3>2. access[q].state = "active"
      BY <2>2 DEF DeleteAccessRequest, IInv, AccessesManaged
    <3>3. QED
      BY <1>4, <3>1, <3>2
  <2>3. ASSUME NEW q \in Providers, GrantAccess(q) \/ AccessGone(q)
        PROVE  FALSE
    <3>1. q = p
      BY <1>1, <1>4, <2>3 DEF GrantAccess, AccessGone
    <3>2. QED
      BY <1>1, <1>4, <2>3, <3>1 DEF GrantAccess, AccessGone, AccessType, NoAccess
  <2>4. QED
    BY <1>4, <2>1, <2>2, <2>3, AccessFrame
<1>5. ~(secret' \subseteq secret) => mcp.finalizers # {}
  <2>1. ASSUME NEW p \in Providers, SyncAccessSecret(p)
        PROVE  mcp.finalizers # {}
    BY <2>1 DEF SyncAccessSecret, IInv, Held, Copied, Creating, Managing, InDeletion
  <2>2. QED
    BY <2>1, SecretFrame DEF DeleteAccessSecret
<1>6. QED
  BY <1>2, <1>3, <1>4, <1>5

\* Every step keeps the MCP held.
LEMMA HeldStep ==
  ASSUME IInv, [Next]_vars
  PROVE  Held'
<1>1. /\ request \in [Requests -> RequestStates] /\ access \in [Providers -> AccessType]
      /\ request' \in [Requests -> RequestStates] /\ access' \in [Providers -> AccessType]
  BY TypeStep DEF IInv, TypeInv, TypeOK
<1>2. Held /\ MCPChange
  BY MCPChanges DEF IInv
<1>3. ASSUME ReleaseMCP
      PROVE  /\ pc = "releaseMCP" /\ mcp.finalizers = {MCPFinalizer}
             /\ namespace = "absent" /\ secret = {}
             /\ UNCHANGED <<namespace, request, access, secret>>
  BY <1>3 DEF ReleaseMCP, IInv, Copied, SecretsManaged, RequestsFound, InDeletion, AfterAccesses
<1>4. ASSUME ReleaseClusterRequests, NEW r \in Requests, request[r] # "absent"
      PROVE  r \in doomed
  BY <1>4 DEF ReleaseClusterRequests, IInv, RequestsFound
<1>5. /\ mcp'.life \in {"new", "gone"} => mcp'.finalizers = {}
      /\ mcp'.life = "active" =>
           mcp'.finalizers = {} \/ {MCPFinalizer, Primary} \subseteq mcp'.finalizers
      /\ mcp'.life = "deleting" => MCPFinalizer \in mcp'.finalizers
  <2>1. /\ mcp.life \in {"new", "gone"} => mcp.finalizers = {}
        /\ mcp.life = "active" =>
             mcp.finalizers = {} \/ {MCPFinalizer, Primary} \subseteq mcp.finalizers
        /\ mcp.life = "deleting" => MCPFinalizer \in mcp.finalizers
        /\ MCPFinalizer \notin Requests
    BY <1>2, ControlPlaneAssumption DEF Held
  <2>2. QED
    BY <1>2, <2>1 DEF MCPChange
<1>6. ASSUME mcp'.finalizers = {}
      PROVE  Untouched'
  <2>1. CASE mcp.finalizers = {}
    <3>1. Untouched
      BY <1>2, <2>1 DEF Held
    <3>2. QED
      BY <2>1, <3>1, MadeWhenHeld DEF Untouched
  <2>2. CASE mcp.finalizers # {}
    <3>1. ReleaseMCP
      BY <1>2, <1>6, <2>2, ControlPlaneAssumption DEF MCPChange, Held
    <3>2. QED
      BY <1>2, <1>3, <3>1 DEF Untouched, Held
  <2>3. QED
    BY <2>1, <2>2
<1>7. ASSUME NEW r \in Requests, request'[r] # "absent"
      PROVE  r \in mcp'.finalizers
  <2>1. CASE request[r] = "absent"
    BY <1>7, <2>1, MadeWhenHeld
  <2>2. CASE request[r] # "absent"
    <3>1. r \in mcp.finalizers
      BY <1>2, <2>2 DEF Held
    <3>2. CASE ReleaseMCP
      BY <1>3, <3>1, <3>2, ControlPlaneAssumption
    <3>3. CASE ReleaseClusterRequests
      <4>1. r \in doomed
        BY <1>4, <2>2, <3>3
      <4>2. ~ReleaseMCP /\ ~AddFinalizers /\ pc = "releaseRequests"
        BY <3>3 DEF ReleaseClusterRequests, ReleaseMCP, AddFinalizers
      <4>3. QED
        BY <1>2, <3>1, <4>1, <4>2 DEF MCPChange
    <3>4. QED
      BY <1>2, <3>1, <3>2, <3>3 DEF MCPChange
  <2>3. QED
    BY <2>1, <2>2
<1>8. ASSUME namespace' = "absent"
      PROVE  /\ \A r \in Requests : request'[r] = "absent"
             /\ \A p \in Providers : access'[p].state = "absent"
  <2>1. CASE namespace = "absent"
    BY <1>2, <2>1, MadeWhenHeld DEF Held
  <2>2. CASE namespace # "absent"
    <3>1. NamespaceGone
      BY <1>8, <2>2, NamespaceFrame DEF EnsureNamespace, DeleteNamespace, ForeignNamespace
    <3>2. QED
      BY <3>1 DEF NamespaceGone
  <2>3. QED
    BY <2>1, <2>2
<1>9. QED
  BY <1>5, <1>6, <1>7, <1>8 DEF Held

-----------------------------------------------------------------------------
(* What the worker's copy tells *)

\* Initially there is none.
LEMMA CopiedInit == Init => Copied
BY DEF Init, Copied, Creating, Managing, InDeletion, BeforeAccesses, AfterAccesses

\* A step of the worker that neither changes the MCP nor reads it.
LEMMA CopiedGoesOn ==
  ASSUME Copied, UNCHANGED <<mcp, queued, copy.life, copy.finalizers, copy.desired>>,
         pc # "idle",
         \/ pc' \in {"idle", "status"}
         \/ pc \in Creating /\ pc' \in Creating \cup {"revoke"}
         \/ pc \in Managing /\ pc' \in Managing
         \/ InDeletion /\ pc' \in BeforeAccesses \cup AfterAccesses \cup Managing
  PROVE  Copied'
<1>1. CASE pc' \in {"idle", "status"}
  BY <1>1 DEF Copied, Creating, Managing, InDeletion, BeforeAccesses, AfterAccesses
<1>2. CASE pc \in Creating /\ pc' \in Creating \cup {"revoke"}
  BY <1>2 DEF Copied, Creating, Managing, InDeletion, BeforeAccesses, AfterAccesses
<1>3. CASE pc \in Managing /\ pc' \in Managing
  BY <1>3 DEF Copied, Creating, Managing, InDeletion, BeforeAccesses, AfterAccesses
<1>4. CASE InDeletion /\ pc' \in BeforeAccesses \cup AfterAccesses \cup Managing
  BY <1>4 DEF Copied, Creating, Managing, InDeletion, BeforeAccesses, AfterAccesses
<1>5. QED
  BY <1>1, <1>2, <1>3, <1>4

\* Only the worker, and a crash, take the MCP out of the queue.
LEMMA StaysQueued ==
  ASSUME queued, [Next]_vars
  PROVE  queued' \/ Dequeue \/ Crash
BY DEF Next, vars, Reconcile, HandleCreateOrUpdate, ManageAccessRequests, HandleDelete, User,
       OtherControllers, AddFinalizers, EnsureNamespace, EnsureClusterRequest, GetCluster,
       EnsureAccessRequest, ListAccessRequests, DeleteAccessRequest, AccessRequestsDeleted,
       SyncAccessSecret, ListAccessSecrets, DeleteAccessSecret, AccessManaged, FindServices,
       DeleteServiceResource, ServicesDeleted, FindClusterRequests, DeleteClusterRequest,
       ClusterRequestsDeleted, ReleaseClusterRequests, DeleteNamespace, ReleaseMCP, UpdateStatus,
       CallFails, CreateMCP, EditMCP, DeleteMCP, CreateService, DeleteService, GrantRequest,
       RequestGone, ClusterHealthy, GrantAccess, AccessGone, ForeignNamespace, NamespaceGone,
       ProtectRequest, RequestCluster, ServiceGone

\* Every step keeps what the copy tells.
LEMMA CopiedStep ==
  ASSUME IInv, [Next]_vars
  PROVE  Copied'
<1>1. Copied /\ Held /\ MCPChange /\ mcp \in MCPType /\ copy \in MCPType /\ queued \in BOOLEAN
  BY MCPChanges DEF IInv, TypeInv, TypeOK
<1>. USE DEF Creating, Managing, BeforeAccesses, AfterAccesses
<1>2. ASSUME UNCHANGED local
      PROVE  Copied'
  <2>1. CASE pc = "idle"
    BY <1>2, <2>1 DEF local, Copied, InDeletion
  <2>2. CASE pc # "idle"
    <3>1. queued => queued'
      BY <1>2, <2>2, StaysQueued DEF local, Dequeue, Crash, Idle, ResetBut
    <3>2. ~AddFinalizers /\ ~ReleaseClusterRequests /\ ~ReleaseMCP
      BY <1>2
         DEF local, AddFinalizers, ReleaseClusterRequests, ReleaseMCP, Fail, Return, Idle, ResetBut
    <3>3. UNCHANGED <<pc, copy>>
      BY <1>2 DEF local
    <3>4. QED
      BY <1>1, <3>1, <3>2, <3>3 DEF MCPChange, Copied, Held, InDeletion
  <2>3. QED
    BY <2>1, <2>2
<1>3. ASSUME Idle
      PROVE  Copied'
  BY <1>3 DEF Idle, ResetBut, Copied, InDeletion
<1>4. ASSUME pc # "idle", Fail, UNCHANGED <<mcp, queued>>
      PROVE  Copied'
  BY <1>4, <1>1, CopiedGoesOn DEF Fail, Return
<1>5. CASE Dequeue
  <2>1. CASE UNCHANGED local
    BY <1>2, <2>1
  <2>2. CASE Exists /\ ResetBut(IF mcp.life = "deleting" THEN "services"
                               ELSE IF {MCPFinalizer, Primary} \subseteq mcp.finalizers
                                 THEN "namespace" ELSE "finalizers", mcp)
    <3>1. copy' = mcp /\ UNCHANGED mcp
      BY <1>5, <2>2 DEF Dequeue, ResetBut, objects
    <3>2. \/ mcp.life = "deleting" /\ pc' = "services"
          \/ /\ mcp.life = "active" /\ pc' = "namespace"
             /\ {MCPFinalizer, Primary} \subseteq mcp.finalizers
          \/ mcp.life = "active" /\ pc' = "finalizers" /\ mcp.finalizers = {}
      BY <1>1, <2>2 DEF Exists, ResetBut, Held
    <3>3. QED
      BY <3>1, <3>2 DEF Copied, InDeletion
  <2>3. QED
    BY <1>5, <2>1, <2>2 DEF Dequeue
<1>6. CASE AddFinalizers
  <2>1. CASE Fail /\ UNCHANGED mcp
    BY <1>4, <1>6, <2>1 DEF AddFinalizers
  <2>2. CASE /\ mcp' = [mcp EXCEPT !.finalizers = copy.finalizers \cup {MCPFinalizer, Primary}]
             /\ copy' = mcp' /\ pc' = "namespace"
    <3>1. pc = "finalizers" /\ mcp.finalizers = {} /\ copy.finalizers = {}
      BY <1>1, <1>6 DEF AddFinalizers, Copied
    <3>2. mcp'.finalizers = {MCPFinalizer, Primary} /\ mcp'.life = mcp.life
      BY <1>1, <2>2, <3>1 DEF MCPType
    <3>3. mcp.life = "active"
      BY <1>1, <1>6, <2>2, <3>1 DEF AddFinalizers, Fail, Return, Held
    <3>4. QED
      BY <2>2, <3>2, <3>3 DEF Copied, InDeletion
  <2>3. QED
    BY <1>6, <2>1, <2>2 DEF AddFinalizers
<1>7. CASE EnsureNamespace
  BY <1>1, <1>7, CopiedGoesOn DEF EnsureNamespace
<1>8. CASE EnsureClusterRequest
  BY <1>1, <1>8, CopiedGoesOn DEF EnsureClusterRequest, Return
<1>9. CASE GetCluster
  BY <1>1, <1>9, CopiedGoesOn DEF GetCluster, objects
<1>10. ASSUME NEW p \in Providers, EnsureAccessRequest(p)
       PROVE  Copied'
  BY <1>1, <1>4, <1>10, CopiedGoesOn DEF EnsureAccessRequest
<1>11. CASE ListAccessRequests
  <2>1. pc = "ensure" \/ (pc = "list" /\ InDeletion)
    BY <1>11 DEF ListAccessRequests, InDeletion
  <2>2. QED
    BY <1>1, <1>11, <2>1, CopiedGoesOn DEF ListAccessRequests, objects
<1>12. ASSUME NEW p \in Providers, DeleteAccessRequest(p) \/ DeleteAccessSecret(p)
       PROVE  Copied'
  BY <1>1, <1>12, CopiedGoesOn DEF DeleteAccessRequest, DeleteAccessSecret
<1>13. CASE AccessRequestsDeleted
  BY <1>1, <1>4, <1>13, CopiedGoesOn DEF AccessRequestsDeleted, objects
<1>14. ASSUME NEW p \in Providers, SyncAccessSecret(p)
       PROVE  Copied'
  <2>1. UNCHANGED copy \/ copy' = [copy EXCEPT !.access = copy.access \cup {p}]
    BY <1>14 DEF SyncAccessSecret, Fail
  <2>2. UNCHANGED <<copy.life, copy.finalizers, copy.desired>>
    BY <1>1, <2>1 DEF MCPType
  <2>3. pc = "sync" /\ pc' \in {"sync", "status"} /\ UNCHANGED <<mcp, queued>>
    BY <1>14 DEF SyncAccessSecret, Fail, Return
  <2>4. QED
    BY <1>1, <2>2, <2>3, CopiedGoesOn
<1>15. CASE ListAccessSecrets
  BY <1>1, <1>15, CopiedGoesOn DEF ListAccessSecrets, objects
<1>16. CASE AccessManaged
  <2>1. UNCHANGED copy \/ copy' = [copy EXCEPT !.access = copy.access \ doomed]
    BY <1>16 DEF AccessManaged, Fail
  <2>2. UNCHANGED <<copy.life, copy.finalizers, copy.desired>>
    BY <1>1, <2>1 DEF MCPType
  <2>3. /\ pc = "drop" /\ UNCHANGED <<mcp, queued>>
        /\ pc' = "status" \/ (pc' = "requests" /\ InDeletion)
    BY <1>16 DEF AccessManaged, Fail, Return, objects, InDeletion
  <2>4. QED
    BY <1>1, <2>2, <2>3, CopiedGoesOn
<1>17. CASE FindServices \/ (\E s \in Services : DeleteServiceResource(s))
  <2>1. InDeletion /\ pc # "idle" /\ pc' = "deleteServices" /\ UNCHANGED <<mcp, queued, copy>>
    BY <1>17 DEF FindServices, DeleteServiceResource, objects, InDeletion
  <2>2. QED
    BY <1>1, <2>1, CopiedGoesOn
<1>18. CASE ServicesDeleted
  <2>1. InDeletion /\ pc # "idle" /\ pc' \in {"status", "list"} /\ UNCHANGED <<mcp, queued, copy>>
    BY <1>18 DEF ServicesDeleted, Return, objects, InDeletion
  <2>2. QED
    BY <1>1, <2>1, CopiedGoesOn
<1>19. CASE FindClusterRequests \/ (\E r \in Requests : DeleteClusterRequest(r))
  <2>1. InDeletion /\ pc # "idle" /\ pc' = "deleteRequests" /\ UNCHANGED <<mcp, queued, copy>>
    BY <1>19 DEF FindClusterRequests, DeleteClusterRequest, objects, InDeletion
  <2>2. QED
    BY <1>1, <2>1, CopiedGoesOn
<1>20. CASE ClusterRequestsDeleted
  <2>1. /\ InDeletion /\ pc # "idle" /\ pc' \in {"status", "deleteNamespace", "releaseRequests"}
        /\ UNCHANGED <<mcp, queued, copy>>
    BY <1>20 DEF ClusterRequestsDeleted, Fail, Return, objects, InDeletion
  <2>2. QED
    BY <1>1, <2>1, CopiedGoesOn
<1>21. CASE ReleaseClusterRequests
  <2>1. CASE Fail /\ UNCHANGED mcp
    BY <1>4, <1>21, <2>1 DEF ReleaseClusterRequests
  <2>2. CASE copy' = mcp' /\ pc' \in {"status", "deleteNamespace"} /\ mcp.life = "deleting"
    <3>1. mcp'.life = "deleting"
      BY <1>1, <1>21, <2>2 DEF MCPChange, ReleaseClusterRequests, AddFinalizers, ReleaseMCP
    <3>2. QED
      BY <2>2, <3>1 DEF Copied, InDeletion
  <2>3. QED
    BY <1>21, <2>1, <2>2 DEF ReleaseClusterRequests, Return
<1>22. CASE DeleteNamespace
  <2>1. /\ InDeletion /\ pc # "idle" /\ pc' \in {"status", "releaseMCP"}
        /\ UNCHANGED <<mcp, queued, copy>>
    BY <1>22 DEF DeleteNamespace, Return, InDeletion
  <2>2. QED
    BY <1>1, <2>1, CopiedGoesOn
<1>23. CASE ReleaseMCP
  <2>1. CASE pc' = "idle"
    BY <2>1 DEF Copied, InDeletion
  <2>2. CASE pc' = "status" /\ UNCHANGED copy
    <3>1. copy.life = "deleting"
      BY <1>1, <1>23 DEF ReleaseMCP, Copied, InDeletion
    <3>2. QED
      BY <2>2, <3>1 DEF Copied, InDeletion
  <2>3. QED
    BY <1>23, <2>1, <2>2 DEF ReleaseMCP, Idle, ResetBut, Return, Fail
<1>24. CASE UpdateStatus \/ Crash
  BY <1>3, <1>24 DEF UpdateStatus, Crash
<1>25. CASE CallFails
  <2>1. CASE Idle
    BY <1>3, <2>1
  <2>2. CASE pc # "idle" /\ Fail /\ UNCHANGED queued
    BY <1>4, <1>25, <2>2 DEF CallFails, objects
  <2>3. CASE /\ pc \in {"revoke", "drop", "deleteServices", "deleteRequests"}
             /\ UNCHANGED <<queued, pc, copy>>
    BY <1>1, <1>25, <2>3, CopiedGoesOn DEF CallFails, objects, InDeletion
  <2>4. QED
    BY <1>25, <2>1, <2>2, <2>3 DEF CallFails
<1>26. QED
  BY <1>2, <1>5, <1>6, <1>7, <1>8, <1>9, <1>10, <1>11, <1>12, <1>13, <1>14, <1>15, <1>16, <1>17,
     <1>18, <1>19, <1>20, <1>21, <1>22, <1>23, <1>24, <1>25, WorkerFrame
     DEF Reconcile, HandleCreateOrUpdate, ManageAccessRequests, HandleDelete

-----------------------------------------------------------------------------
(* How far the worker has come *)

Progress == ServicesFirst /\ AccessesManaged /\ SecretsManaged /\ RequestsFound

\* Nothing is known between reconciliations, and little before the loops.
LEMMA ProgressEnds ==
  ASSUME \/ pc' \in {"idle", "status"}
         \/ pc' \in {"finalizers", "namespace", "request", "cluster"} /\ updated' = {}
  PROVE  Progress'
BY DEF Progress, ServicesFirst, AccessesManaged, SecretsManaged, RequestsFound, InDeletion,
       Managing, BeforeAccesses, AfterAccesses

\* Everybody else makes no AccessRequests, deletes none, and leaves the Secrets alone.
LEMMA ElseKeeps ==
  ASSUME TypeInv, [Next]_vars, UNCHANGED local
  PROVE  /\ UNCHANGED secret
         /\ \A p \in Providers :
              /\ access[p].state = "absent" => access'[p].state = "absent"
              /\ access[p].state = "active" => access'[p].state = "active"
<1>1. access \in [Providers -> AccessType]
  BY DEF TypeInv, TypeOK
<1>2. UNCHANGED <<pc, copy, updated, granted, todo, doomed, waiting, failed, result>>
  BY DEF local
<1>3. ASSUME NEW p \in Providers
      PROVE  /\ access[p].state = "absent" => access'[p].state = "absent"
             /\ access[p].state = "active" => access'[p].state = "active"
  <2>1. CASE UNCHANGED access
    BY <2>1
  <2>2. ASSUME NEW q \in Providers, GrantAccess(q)
        PROVE  access'[p].state = access[p].state
    BY <1>1, <2>2 DEF GrantAccess, AccessType
  <2>3. ASSUME NEW q \in Providers, AccessGone(q)
        PROVE  /\ access[q].state = "deleting"
               /\ access'[p] = access[p] \/ (q = p /\ access'[p] = NoAccess)
    BY <1>1, <2>3 DEF AccessGone
  <2>4. NoAccess.state = "absent"
    BY DEF NoAccess
  <2>5. UNCHANGED access \/ \E q \in Providers : GrantAccess(q) \/ AccessGone(q)
    BY <1>2, AccessFrame DEF EnsureAccessRequest, DeleteAccessRequest, Fail, Return
  <2>6. QED
    BY <2>1, <2>2, <2>3, <2>4, <2>5
<1>4. UNCHANGED secret
  BY <1>2, SecretFrame DEF SyncAccessSecret, DeleteAccessSecret, Fail, Return
<1>5. QED
  BY <1>3, <1>4

\* The steps of everybody else keep what the worker knows.
LEMMA ProgressElse ==
  ASSUME IInv, [Next]_vars, UNCHANGED local
  PROVE  Progress'
<1>1. /\ request \in [Requests -> RequestStates] /\ access \in [Providers -> AccessType]
      /\ service \in [Services -> ServiceStates]
      /\ updated \subseteq Providers /\ LoopsTyped
      /\ Progress /\ Copied
  BY DEF IInv, TypeInv, TypeOK, Progress
<1>2. UNCHANGED <<pc, copy, updated, granted, todo, doomed, waiting, failed, result>>
  BY DEF local
<1>3. InDeletion' <=> InDeletion
  BY <1>2 DEF InDeletion
<1>4. CASE pc = "idle"
  BY <1>2, <1>4, ProgressEnds
<1>5. CASE pc # "idle"
  <2>1. ASSUME mcp.life = "deleting", NEW s \in Services, service[s] \in {"new", "gone"}
        PROVE  service'[s] \in {"new", "gone"}
    BY <1>1, <1>2, <2>1, ServiceFrame
       DEF DeleteServiceResource, CreateService, DeleteService, ServiceGone
  <2>2. ASSUME NEW p \in Providers
        PROVE  /\ access[p].state = "absent" => access'[p].state = "absent"
               /\ access[p].state = "active" => access'[p].state = "active"
    BY ElseKeeps DEF IInv
  <2>3. ASSUME NEW r \in Requests, request[r] = "absent",
               \A s \in Services : service[s] \in {"new", "gone"}
        PROVE  request'[r] = "absent"
    <3>1. UNCHANGED request \/ \E q \in Requests : GrantRequest(q) \/ RequestGone(q)
      BY <1>2, <2>3, RequestFrame
         DEF EnsureClusterRequest, DeleteClusterRequest, RequestCluster, Return
    <3>2. QED
      BY <1>1, <2>3, <3>1 DEF GrantRequest, RequestGone
  <2>4. UNCHANGED secret
    BY ElseKeeps DEF IInv
  <2>5. mcp.life = "deleting" /\ namespace = "absent" => namespace' = "absent"
    BY <1>2, NamespaceFrame DEF EnsureNamespace, DeleteNamespace, ForeignNamespace, NamespaceGone
  <2>6. InDeletion => mcp.life = "deleting"
    BY <1>1 DEF Copied
  <2>7. ServicesFirst'
    BY <1>1, <1>2, <1>3, <2>1, <2>6 DEF Progress, ServicesFirst, InDeletion, BeforeAccesses
  <2>8. AccessesManaged'
    BY <1>1, <1>2, <1>3, <2>2 DEF Progress, AccessesManaged, LoopsTyped, Managing
  <2>9. SecretsManaged'
    BY <1>1, <1>2, <2>4 DEF Progress, SecretsManaged
  <2>10. RequestsFound'
    BY <1>1, <1>2, <2>3, <2>5, <2>6
       DEF Progress, RequestsFound, ServicesFirst, InDeletion, AfterAccesses
  <2>11. QED
    BY <2>7, <2>8, <2>9, <2>10 DEF Progress
<1>6. QED
  BY <1>4, <1>5

\* The steps of the worker, up to the end of a reconciliation.
LEMMA ProgressStep ==
  ASSUME IInv, [Next]_vars
  PROVE  Progress'
<1>1. /\ request \in [Requests -> RequestStates] /\ access \in [Providers -> AccessType]
      /\ service \in [Services -> ServiceStates] /\ secret \subseteq Providers
      /\ mcp \in MCPType /\ copy \in MCPType
      /\ updated \subseteq Providers /\ LoopsTyped
      /\ Progress /\ Copied /\ Held
  BY DEF IInv, TypeInv, TypeOK, Progress
<1>2. ASSUME \/ pc' \in {"idle", "status"}
             \/ pc' \in {"finalizers", "namespace", "request", "cluster"} /\ updated' = {}
      PROVE  Progress'
  BY <1>2, ProgressEnds
<1>3. (Idle => pc' = "idle") /\ (Fail => pc' = "status") /\ \A how : Return(how) => pc' = "status"
  BY DEF Idle, ResetBut, Fail, Return
<1>. USE DEF Managing, BeforeAccesses, AfterAccesses
<1>4. CASE Dequeue
  <2>1. CASE UNCHANGED local
    BY <2>1, ProgressElse
  <2>2. CASE ~ UNCHANGED local
    <3>1. pc' \in {"services", "namespace", "finalizers"} /\ updated' = {}
      BY <1>4, <2>2 DEF Dequeue, ResetBut
    <3>2. CASE pc' = "services"
      BY <3>1, <3>2 DEF Progress, ServicesFirst, AccessesManaged, SecretsManaged, RequestsFound,
                        InDeletion
    <3>3. QED
      BY <1>2, <3>1, <3>2
  <2>3. QED
    BY <2>1, <2>2
<1>5. CASE AddFinalizers
  BY <1>1, <1>2, <1>3, <1>5 DEF AddFinalizers, Progress, AccessesManaged
<1>6. CASE EnsureNamespace
  BY <1>1, <1>2, <1>6 DEF EnsureNamespace, Progress, AccessesManaged
<1>7. CASE EnsureClusterRequest
  BY <1>1, <1>2, <1>3, <1>7 DEF EnsureClusterRequest, Progress, AccessesManaged
<1>8. CASE GetCluster
  BY <1>1, <1>8 DEF GetCluster, Progress, ServicesFirst, AccessesManaged, SecretsManaged,
                    RequestsFound, InDeletion
<1>9. ASSUME NEW p \in Providers, EnsureAccessRequest(p)
      PROVE  Progress'
  <2>1. CASE Fail
    BY <1>2, <1>3, <2>1
  <2>2. CASE updated' = updated \cup {p} /\ todo' = todo \ {p} /\ UNCHANGED <<pc, copy>>
    BY <1>1, <1>9, <2>2
       DEF EnsureAccessRequest, Progress, ServicesFirst, AccessesManaged, SecretsManaged,
           RequestsFound, InDeletion
  <2>3. QED
    BY <1>9, <2>1, <2>2 DEF EnsureAccessRequest
<1>10. CASE ListAccessRequests
  <2>. DEFINE found == Undesired({p \in Providers : access[p].state # "absent"})
  <2>1. /\ pc' = "revoke" /\ UNCHANGED <<objects, copy, updated>>
        /\ todo' = {p \in found : access[p].state = "active"}
        /\ waiting' = (waiting \/ found # {})
        /\ pc \in {"ensure", "list"} /\ (pc = "ensure" => todo = {})
    BY <1>10 DEF ListAccessRequests
  <2>2. InDeletion' <=> InDeletion
    BY <1>1, <2>1 DEF InDeletion, Copied, Creating
  <2>3. ServicesFirst'
    BY <1>1, <2>1, <2>2 DEF Progress, ServicesFirst, InDeletion, objects
  <2>4. AccessesManaged'
    <3>1. copy.life = "active" => updated = copy.desired
      BY <1>1, <2>1 DEF Progress, AccessesManaged, Copied, InDeletion
    <3>2. InDeletion => updated = {}
      BY <1>1 DEF Progress, AccessesManaged
    <3>3. todo' \cap updated = {} /\ \A p \in todo' : access[p].state = "active"
      BY <2>1 DEF Undesired
    <3>4. ~waiting' => \A p \in Providers \ updated : access[p].state = "absent"
      BY <2>1 DEF Undesired
    <3>5. QED
      BY <2>1, <2>2, <3>1, <3>2, <3>3, <3>4 DEF AccessesManaged, objects
  <2>5. SecretsManaged' /\ RequestsFound'
    BY <2>1 DEF SecretsManaged, RequestsFound
  <2>6. QED
    BY <2>3, <2>4, <2>5 DEF Progress
<1>11. ASSUME NEW p \in Providers, DeleteAccessRequest(p)
       PROVE  Progress'
  <2>1. /\ pc = "revoke" /\ p \in todo /\ todo' = todo \ {p}
        /\ UNCHANGED <<pc, copy, updated, waiting, service>>
        /\ \A q \in Providers \ {p} : access'[q] = access[q]
    BY <1>1, <1>11 DEF DeleteAccessRequest
  <2>2. InDeletion' <=> InDeletion
    BY <2>1 DEF InDeletion
  <2>3. access[p].state = "active" /\ p \notin updated
    BY <1>1, <2>1 DEF Progress, AccessesManaged
  <2>4. todo \subseteq Providers
    BY <1>1, <2>1 DEF LoopsTyped
  <2>5. AccessesManaged'
    BY <1>1, <2>1, <2>2, <2>3, <2>4 DEF Progress, AccessesManaged
  <2>6. ServicesFirst' /\ SecretsManaged' /\ RequestsFound'
    BY <1>1, <2>1, <2>2 DEF Progress, ServicesFirst, SecretsManaged, RequestsFound
  <2>7. QED
    BY <2>5, <2>6 DEF Progress
<1>12. CASE AccessRequestsDeleted
  <2>1. CASE Fail
    BY <1>2, <1>3, <2>1
  <2>2. CASE pc' = "sync" /\ todo' = updated /\ UNCHANGED <<copy, updated, waiting, failed, doomed>>
    <3>1. InDeletion' <=> InDeletion
      BY <1>12, <2>2 DEF AccessRequestsDeleted, InDeletion
    <3>2. QED
      BY <1>1, <1>12, <2>2, <3>1
         DEF AccessRequestsDeleted, objects, Progress, ServicesFirst, AccessesManaged,
             SecretsManaged, RequestsFound
  <2>3. QED
    BY <1>12, <2>1, <2>2 DEF AccessRequestsDeleted
<1>13. ASSUME NEW p \in Providers, SyncAccessSecret(p)
       PROVE  Progress'
  <2>1. CASE Fail
    BY <1>2, <1>3, <2>1
  <2>2. CASE ~Fail
    <3>1. /\ pc = "sync" /\ todo' = todo \ {p}
          /\ UNCHANGED <<pc, updated, doomed, failed, access, service, request, namespace>>
          /\ \/ waiting' /\ UNCHANGED <<secret, copy>>
             \/ /\ secret' = secret \cup {p} /\ UNCHANGED waiting
                /\ copy' = [copy EXCEPT !.access = copy.access \cup {p}]
      BY <1>13, <2>2 DEF SyncAccessSecret
    <3>2. /\ UNCHANGED <<copy.life, copy.finalizers, copy.desired>>
          /\ waiting' \/ (copy'.access = copy.access \cup {p} /\ secret' = secret \cup {p}
                            /\ UNCHANGED waiting)
      BY <1>1, <3>1 DEF MCPType
    <3>3. InDeletion' <=> InDeletion
      BY <3>1, <3>2 DEF InDeletion
    <3>4. ServicesFirst' /\ RequestsFound'
      BY <1>1, <3>1, <3>3 DEF Progress, ServicesFirst, RequestsFound
    <3>5. AccessesManaged'
      BY <1>1, <3>1, <3>2, <3>3 DEF Progress, AccessesManaged
    <3>6. SecretsManaged'
      BY <1>1, <3>1, <3>2 DEF Progress, SecretsManaged
    <3>7. QED
      BY <3>4, <3>5, <3>6 DEF Progress
  <2>3. QED
    BY <2>1, <2>2
<1>14. CASE ListAccessSecrets
  <2>1. /\ pc = "sync" /\ todo = {} /\ pc' = "drop" /\ UNCHANGED <<objects, copy, updated, failed>>
        /\ todo' = secret \ updated /\ doomed' = secret \ updated
        /\ waiting' = (waiting \/ secret \ updated # {})
    BY <1>14 DEF ListAccessSecrets, Undesired
  <2>2. InDeletion' <=> InDeletion
    BY <2>1 DEF InDeletion
  <2>3. ServicesFirst' /\ RequestsFound'
    BY <1>1, <2>1, <2>2 DEF Progress, ServicesFirst, RequestsFound, objects
  <2>4. AccessesManaged'
    BY <1>1, <2>1, <2>2 DEF Progress, AccessesManaged, objects
  <2>5. SecretsManaged'
    BY <1>1, <2>1 DEF Progress, SecretsManaged, objects
  <2>6. QED
    BY <2>3, <2>4, <2>5 DEF Progress
<1>15. ASSUME NEW p \in Providers, DeleteAccessSecret(p)
       PROVE  Progress'
  <2>1. InDeletion' <=> InDeletion
    BY <1>15 DEF DeleteAccessSecret, InDeletion
  <2>2. QED
    BY <1>1, <1>15, <2>1 DEF DeleteAccessSecret, Progress, ServicesFirst, AccessesManaged,
                             SecretsManaged, RequestsFound
<1>16. CASE AccessManaged
  <2>1. CASE pc' = "status"
    BY <1>2, <2>1
  <2>2. CASE pc' # "status"
    <3>1. /\ pc = "drop" /\ copy.life = "deleting" /\ ~waiting /\ pc' = "requests"
          /\ UNCHANGED <<objects, updated, todo, waiting, failed>>
      BY <1>3, <1>16, <2>2 DEF AccessManaged
    <3>2. updated = {} /\ \A s \in Services : service[s] \in {"new", "gone"}
      BY <1>1, <3>1 DEF Progress, AccessesManaged, ServicesFirst, InDeletion
    <3>3. secret = {}
      BY <1>1, <3>1, <3>2 DEF Progress, SecretsManaged
    <3>4. QED
      BY <3>1, <3>2, <3>3 DEF Progress, ServicesFirst, AccessesManaged, SecretsManaged,
                              RequestsFound, objects
  <2>3. QED
    BY <2>1, <2>2
<1>17. CASE FindServices
  <2>1. /\ pc = "services" /\ pc' = "deleteServices" /\ UNCHANGED <<objects, updated>>
        /\ todo' = {s \in Services : service[s] = "active"}
        /\ waiting' = (\E s \in Services : service[s] = "deleting")
    BY <1>17 DEF FindServices
  <2>2. updated = {}
    BY <1>1, <2>1 DEF Progress, AccessesManaged, InDeletion
  <2>3. ServicesFirst'
    BY <1>1, <2>1 DEF ServicesFirst, objects, ServiceStates
  <2>4. QED
    BY <2>1, <2>2, <2>3 DEF Progress, AccessesManaged, SecretsManaged, RequestsFound
<1>18. ASSUME NEW s \in Services, DeleteServiceResource(s)
       PROVE  Progress'
  <2>1. /\ pc = "deleteServices" /\ pc' = pc /\ UNCHANGED <<updated, failed>>
    BY <1>18 DEF DeleteServiceResource
  <2>2. updated = {}
    BY <1>1, <2>1 DEF Progress, AccessesManaged, InDeletion
  <2>3. ServicesFirst'
    BY <1>1, <1>18, <2>1 DEF DeleteServiceResource, Progress, ServicesFirst
  <2>4. QED
    BY <2>1, <2>2, <2>3 DEF Progress, AccessesManaged, SecretsManaged, RequestsFound
<1>19. CASE ServicesDeleted
  <2>1. CASE pc' = "status"
    BY <1>2, <2>1
  <2>2. CASE pc' # "status"
    <3>1. /\ pc = "deleteServices" /\ todo = {} /\ ~failed /\ ~waiting /\ pc' = "list"
          /\ UNCHANGED <<objects, updated>>
      BY <1>3, <1>19, <2>2 DEF ServicesDeleted
    <3>2. updated = {} /\ \A s \in Services : service[s] \in {"new", "gone"}
      BY <1>1, <3>1 DEF Progress, AccessesManaged, ServicesFirst, InDeletion
    <3>3. QED
      BY <3>1, <3>2 DEF Progress, ServicesFirst, AccessesManaged, SecretsManaged, RequestsFound,
                        objects
  <2>3. QED
    BY <2>1, <2>2
<1>20. ASSUME InDeletion, pc \in AfterAccesses, pc' \in AfterAccesses,
              UNCHANGED <<service, updated, secret>>, RequestsFound'
       PROVE  Progress'
  <2>1. updated = {} /\ secret = {} /\ \A s \in Services : service[s] \in {"new", "gone"}
    BY <1>1, <1>20 DEF Progress, AccessesManaged, SecretsManaged, ServicesFirst
  <2>2. QED
    BY <1>20, <2>1 DEF Progress, ServicesFirst, AccessesManaged, SecretsManaged
<1>21. CASE FindClusterRequests
  <2>1. /\ pc = "requests" /\ pc' = "deleteRequests" /\ UNCHANGED <<objects, updated>>
        /\ doomed' = {r \in Requests \cap copy.finalizers : request[r] # "absent"}
    BY <1>21 DEF FindClusterRequests
  <2>2. InDeletion
    BY <2>1 DEF InDeletion
  <2>3. copy.finalizers = mcp.finalizers
    BY <1>1, <2>2 DEF Copied
  <2>4. RequestsFound'
    BY <1>1, <2>1, <2>3 DEF RequestsFound, Held, objects
  <2>5. QED
    BY <1>20, <2>1, <2>2, <2>4 DEF objects
<1>22. ASSUME NEW r \in Requests, DeleteClusterRequest(r)
       PROVE  Progress'
  <2>1. /\ pc = "deleteRequests" /\ UNCHANGED <<pc, service, updated, secret>>
        /\ \A q \in Requests \ {r} : request'[q] = request[q]
        /\ \/ UNCHANGED <<request, doomed>>
           \/ request[r] # "absent" /\ UNCHANGED doomed
           \/ request[r] = "absent" /\ UNCHANGED request /\ doomed' = doomed \ {r}
    BY <1>1, <1>22 DEF DeleteClusterRequest
  <2>2. InDeletion
    BY <2>1 DEF InDeletion
  <2>3. RequestsFound'
    BY <1>1, <2>1 DEF Progress, RequestsFound
  <2>4. QED
    BY <1>20, <2>1, <2>2, <2>3
<1>23. CASE ClusterRequestsDeleted
  <2>1. CASE pc' = "status"
    BY <1>2, <2>1
  <2>2. CASE pc' # "status"
    <3>1. /\ pc = "deleteRequests" /\ UNCHANGED <<objects, copy, updated, doomed>>
          /\ \/ pc' = "releaseRequests"
             \/ /\ pc' = "deleteNamespace"
                /\ Requests \cap copy.finalizers \subseteq doomed /\ doomed = {}
      BY <1>3, <1>23, <2>2 DEF ClusterRequestsDeleted
    <3>2. InDeletion
      BY <3>1 DEF InDeletion
    <3>3. /\ MCPFinalizer \in copy.finalizers
          /\ copy.finalizers \subseteq Requests \cup {MCPFinalizer}
      BY <1>1, <3>2 DEF Copied, Held, MCPType
    <3>4. RequestsFound'
      BY <1>1, <3>1, <3>3 DEF Progress, RequestsFound, objects
    <3>5. QED
      BY <1>20, <3>1, <3>2, <3>4 DEF objects
  <2>3. QED
    BY <2>1, <2>2
<1>24. CASE ReleaseClusterRequests
  <2>1. CASE pc' = "status"
    BY <1>2, <2>1
  <2>2. CASE pc' # "status"
    <3>1. /\ pc = "releaseRequests" /\ pc' = "deleteNamespace" /\ copy' = mcp' /\ doomed = {}
          /\ UNCHANGED <<service, updated, secret>>
          /\ mcp' = [mcp EXCEPT !.finalizers = copy.finalizers \ (Requests \ doomed),
                       !.life = IF copy.finalizers \ (Requests \ doomed) = {} THEN "gone" ELSE @]
      BY <1>3, <1>24, <2>2 DEF ReleaseClusterRequests
    <3>2. InDeletion
      BY <3>1 DEF InDeletion
    <3>3. /\ MCPFinalizer \in copy.finalizers
          /\ copy.finalizers \subseteq Requests \cup {MCPFinalizer}
      BY <1>1, <3>2 DEF Copied, Held, MCPType
    <3>4. mcp'.finalizers = {MCPFinalizer}
      BY <1>1, <3>1, <3>3, ControlPlaneAssumption DEF MCPType
    <3>5. RequestsFound'
      BY <3>1, <3>4 DEF RequestsFound
    <3>6. QED
      BY <1>20, <3>1, <3>2, <3>5
  <2>3. QED
    BY <2>1, <2>2
<1>25. CASE DeleteNamespace
  <2>1. CASE pc' = "status"
    BY <1>2, <2>1
  <2>2. CASE pc' # "status"
    <3>1. /\ pc = "deleteNamespace" /\ pc' = "releaseMCP" /\ namespace = "absent"
          /\ UNCHANGED <<namespace, copy, service, updated, secret>>
      BY <1>3, <1>25, <2>2 DEF DeleteNamespace
    <3>2. InDeletion
      BY <3>1 DEF InDeletion
    <3>3. RequestsFound'
      BY <1>1, <3>1 DEF Progress, RequestsFound
    <3>4. QED
      BY <1>20, <3>1, <3>2, <3>3
  <2>3. QED
    BY <2>1, <2>2
<1>26. CASE ReleaseMCP \/ UpdateStatus \/ Crash
  BY <1>2, <1>3, <1>26 DEF ReleaseMCP, UpdateStatus, Crash
<1>27. CASE CallFails
  <2>1. CASE pc' \in {"idle", "status"}
    BY <1>2, <2>1
  <2>2. CASE /\ UNCHANGED <<objects, pc, copy, updated, granted, doomed, waiting, result>>
             /\ failed' /\ todo' \subseteq todo
             /\ pc \in {"revoke", "drop", "deleteServices", "deleteRequests"}
    <3>1. InDeletion' <=> InDeletion
      BY <2>2 DEF InDeletion
    <3>2. QED
      BY <1>1, <2>2, <3>1 DEF Progress, ServicesFirst, AccessesManaged, SecretsManaged,
                              RequestsFound, objects
  <2>3. QED
    BY <1>3, <1>27, <2>1, <2>2 DEF CallFails
<1>28. QED
  BY <1>4, <1>5, <1>6, <1>7, <1>8, <1>9, <1>10, <1>11, <1>12, <1>13, <1>14, <1>15, <1>16, <1>17,
     <1>18, <1>19, <1>21, <1>22, <1>23, <1>24, <1>25, <1>26, <1>27, WorkerFrame, ProgressElse
     DEF Reconcile, HandleCreateOrUpdate, ManageAccessRequests, HandleDelete

-----------------------------------------------------------------------------
(* What is done *)

\* The end of a reconciliation aligns everything, and it stays aligned until the MCP
\* is queued again.
LEMMA DoneStep ==
  ASSUME IInv, [Next]_vars
  PROVE  Done'
<1>1. /\ mcp \in MCPType /\ copy \in MCPType /\ updated \subseteq Providers
      /\ Copied /\ Held /\ MCPChange /\ Done
  BY MCPChanges DEF IInv, TypeInv, TypeOK
<1>2. ASSUME pc' = "status", result' = "done", copy'.life = "active"
      PROVE  Aligned(copy)'
  <2>1. CASE UNCHANGED local
    <3>1. Aligned(copy)
      BY <1>1, <1>2, <2>1 DEF local, Done
    <3>2. QED
      BY <2>1, <3>1, ElseKeeps DEF local, Aligned, IInv
  <2>2. CASE AccessManaged
    <3>1. /\ pc = "drop" /\ ~waiting /\ copy.life = "active" /\ UNCHANGED objects
          /\ copy' = [copy EXCEPT !.access = copy.access \ doomed]
      BY <1>2, <2>2 DEF AccessManaged, Return, Fail
    <3>2. /\ doomed = {} /\ updated = secret /\ updated \subseteq copy.access
          /\ updated = copy.desired
          /\ \A p \in Providers \ updated : access[p].state = "absent"
      BY <3>1 DEF IInv, SecretsManaged, AccessesManaged, Managing
    <3>3. copy'.desired = copy.desired /\ copy'.access = copy.access
      BY <1>1, <3>1, <3>2 DEF MCPType
    <3>4. QED
      BY <3>1, <3>2, <3>3 DEF Aligned, objects
  <2>3. CASE ReleaseMCP
    <3>1. copy.life = "deleting" /\ (copy' = copy \/ pc' = "idle")
      BY <1>1, <2>3 DEF ReleaseMCP, Idle, ResetBut, Fail, Copied, InDeletion, AfterAccesses
    <3>2. QED
      BY <1>2, <3>1
  <2>4. UNCHANGED local \/ AccessManaged \/ ReleaseMCP
    BY <1>2, WorkerFrame
       DEF local, Reconcile, HandleCreateOrUpdate, ManageAccessRequests, HandleDelete, Dequeue,
           ResetBut, AddFinalizers, EnsureNamespace, EnsureClusterRequest, GetCluster,
           EnsureAccessRequest, ListAccessRequests, DeleteAccessRequest, AccessRequestsDeleted,
           SyncAccessSecret, ListAccessSecrets, DeleteAccessSecret, FindServices,
           DeleteServiceResource, ServicesDeleted, FindClusterRequests, DeleteClusterRequest,
           ClusterRequestsDeleted, ReleaseClusterRequests, DeleteNamespace, UpdateStatus,
           CallFails, Crash, Idle, Fail, Return
  <2>5. QED
    BY <2>1, <2>2, <2>3, <2>4
<1>3. ASSUME Settled'
      PROVE  Aligned(mcp)'
  <2>1. pc' = "idle" /\ ~queued' /\ mcp'.life = "active" /\ mcp'.phase = "Ready"
    BY <1>3 DEF Settled
  <2>2. CASE UNCHANGED local
    <3>1. CASE Dequeue \/ Crash
      BY <1>1, <2>1, <3>1 DEF Dequeue, Crash, Exists, objects, local, ResetBut
    <3>2. CASE ~Dequeue /\ ~Crash
      <4>1. ~queued /\ pc = "idle"
        BY <2>1, <2>2, <3>2, StaysQueued DEF local
      <4>2. UNCHANGED mcp \/ \E s \in Services : ProtectRequest(s)
        BY <2>1, <4>1, <1>1, MCPFrame
           DEF AddFinalizers, ReleaseClusterRequests, ReleaseMCP, UpdateStatus, CreateMCP, EditMCP,
               DeleteMCP, MCPType
      <4>3. /\ mcp'.desired = mcp.desired /\ mcp'.access = mcp.access
            /\ mcp.life = "active" /\ mcp.phase = "Ready"
        BY <1>1, <2>1, <4>2 DEF ProtectRequest, MCPType
      <4>4. Aligned(mcp)
        BY <1>1, <4>1, <4>3 DEF Done, Settled
      <4>5. QED
        BY <2>2, <4>3, <4>4, ElseKeeps DEF Aligned, IInv
    <3>3. QED
      BY <3>1, <3>2
  <2>3. CASE UpdateStatus
    <3>1. Exists /\ queued' = (queued \/ result # "done")
      BY <2>1, <2>3 DEF UpdateStatus
    <3>2. ~queued /\ result = "done" /\ pc = "status"
      BY <2>1, <2>3, <3>1 DEF UpdateStatus
    <3>. DEFINE phase == IF copy.life = "deleting" THEN "Terminating"
                         ELSE IF result = "done" THEN "Ready" ELSE "Progressing"
    <3>3. mcp' = [mcp EXCEPT !.access = copy.access, !.phase = phase]
      BY <2>3, <3>1 DEF UpdateStatus
    <3>4. /\ mcp'.access = copy.access /\ mcp'.phase = phase
          /\ mcp'.desired = mcp.desired /\ mcp'.life = mcp.life
      BY <1>1, <3>3 DEF MCPType
    <3>5. copy.life = "active"
      BY <1>1, <2>1, <3>2, <3>4 DEF Copied
    <3>6. mcp.desired = copy.desired /\ Aligned(copy)
      BY <1>1, <2>1, <3>2, <3>4, <3>5 DEF Copied, Done
    <3>7. UNCHANGED <<access, secret>>
      BY <2>3 DEF UpdateStatus
    <3>8. QED
      BY <3>4, <3>6, <3>7 DEF Aligned
  <2>4. CASE ReleaseMCP
    <3>1. mcp.life = "deleting" \/ UNCHANGED mcp
      BY <2>4 DEF ReleaseMCP
    <3>2. pc = "releaseMCP"
      BY <2>4 DEF ReleaseMCP
    <3>3. mcp.life = "deleting"
      BY <1>1, <3>2 DEF Copied, InDeletion, AfterAccesses
    <3>4. mcp'.life # "active"
      BY <1>1, <2>4, <3>2, <3>3
         DEF MCPChange, ReleaseMCP, AddFinalizers, ReleaseClusterRequests
    <3>5. QED
      BY <2>1, <3>4
  <2>5. CASE CallFails \/ Crash \/ Dequeue
    <3>1. CASE queued' = TRUE
      BY <2>1, <3>1
    <3>2. CASE queued' # TRUE /\ UNCHANGED mcp
      <4>1. Exists
        BY <2>1, <3>2 DEF Exists
      <4>2. queued' = TRUE
        BY <2>1, <2>5, <4>1
           DEF CallFails, Crash, Dequeue, Idle, Fail, Return, ResetBut, objects, local
      <4>3. QED
        BY <3>2, <4>2
    <3>3. UNCHANGED mcp \/ queued' = TRUE
      BY <2>5 DEF CallFails, Crash, Dequeue, Idle, Fail, Return, ResetBut, objects, local
    <3>4. QED
      BY <3>1, <3>2, <3>3
  <2>6. UNCHANGED local \/ UpdateStatus \/ ReleaseMCP \/ CallFails \/ Crash \/ Dequeue
    BY <2>1, WorkerFrame
       DEF local, Reconcile, HandleCreateOrUpdate, ManageAccessRequests, HandleDelete,
           AddFinalizers, EnsureNamespace, EnsureClusterRequest, GetCluster,
           EnsureAccessRequest, ListAccessRequests, DeleteAccessRequest, AccessRequestsDeleted,
           SyncAccessSecret, ListAccessSecrets, DeleteAccessSecret, AccessManaged, FindServices,
           DeleteServiceResource, ServicesDeleted, FindClusterRequests, DeleteClusterRequest,
           ClusterRequestsDeleted, ReleaseClusterRequests, DeleteNamespace, Fail, Return
  <2>7. QED
    BY <2>2, <2>3, <2>4, <2>5, <2>6
<1>4. QED
  BY <1>2, <1>3 DEF Done

-----------------------------------------------------------------------------
(* The theorems *)

\* The invariant holds in every state.
LEMMA Inductive == Spec => []IInv
<1>1. Init => IInv
  <2>. SUFFICES ASSUME Init
                PROVE  IInv
    OBVIOUS
  <2>1. TypeInv /\ Held /\ Copied
    BY TypeInit, HeldInit, CopiedInit
  <2>2. ServicesFirst /\ AccessesManaged /\ SecretsManaged /\ RequestsFound
    BY DEF Init, ServicesFirst, AccessesManaged, SecretsManaged, RequestsFound, InDeletion,
           Managing, BeforeAccesses, AfterAccesses
  <2>3. Done
    BY DEF Init, Done, Settled, NewMCP
  <2>4. QED
    BY <2>1, <2>2, <2>3 DEF IInv
<1>2. IInv /\ [Next]_vars => IInv'
  <2>. SUFFICES ASSUME IInv, [Next]_vars
                PROVE  IInv'
    OBVIOUS
  <2>1. TypeInv'
    BY TypeStep DEF IInv
  <2>2. QED
    BY <2>1, HeldStep, CopiedStep, ProgressStep, DoneStep DEF IInv, Progress
<1>3. QED
  BY <1>1, <1>2, PTL DEF Spec

\* NothingLeftBehind: when the MCP is gone, its namespace, its ClusterRequests, its
\* AccessRequests and the copied Secrets are gone, wherever its deletion was interrupted.
THEOREM NothingLeftBehindAlways == Spec => []NothingLeftBehind
<1>1. IInv => NothingLeftBehind
  BY DEF IInv, Held, Untouched, NothingLeftBehind
<1>2. QED
  BY <1>1, Inductive, PTL

\* SettledIsAligned: when the controller rests with a Ready MCP, there are credentials
\* for exactly the providers of the current spec.
THEOREM SettledIsAlignedAlways == Spec => []SettledIsAligned
<1>1. IInv => SettledIsAligned
  BY DEF IInv, Done, Aligned, SettledIsAligned
<1>2. QED
  BY <1>1, Inductive, PTL

\* PrimaryLast: the controller deletes the primary ClusterRequest only after all others
\* are gone, with any number of services.
THEOREM PrimaryLastAlways == Spec => PrimaryLast
<1>1. ASSUME IInv, [Next]_vars, request[Primary] \in {"pending", "granted"},
             request'[Primary] \in {"deleting", "absent"}, NEW s \in Services
      PROVE  request[s] = "absent"
  <2>1. /\ request \in [Requests -> RequestStates]
        /\ Primary \in Requests /\ s \in Requests /\ s # Primary
    BY <1>1, ControlPlaneAssumption DEF IInv, TypeInv, TypeOK, Requests
  <2>2. PICK r \in Requests : DeleteClusterRequest(r)
    BY <1>1, <2>1, RequestFrame
       DEF EnsureClusterRequest, GrantRequest, RequestGone, RequestCluster
  <2>3. /\ pc = "deleteRequests" /\ r = Primary /\ Primary \in todo
        /\ Cardinality(doomed) = 1
    BY <1>1, <2>1, <2>2 DEF DeleteClusterRequest
  <2>4. todo \subseteq doomed /\ \A q \in Requests : request[q] # "absent" => q \in doomed
    BY <1>1, <2>3 DEF IInv, TypeInv, LoopsTyped, RequestsFound
  <2>5. IsFiniteSet(doomed)
    <3>1. IsFiniteSet(Requests)
      BY ControlPlaneAssumption, FS_AddElement DEF Requests
    <3>2. doomed \subseteq Requests
      BY <1>1, <2>3 DEF IInv, TypeInv, LoopsTyped
    <3>3. QED
      BY <3>1, <3>2, FS_Subset
  <2>6. PICK x : doomed = {x}
    BY <2>3, <2>5, FS_Singleton
  <2>7. QED
    BY <2>1, <2>3, <2>4, <2>6
<1>2. IInv /\ [Next]_vars =>
        [request[Primary] \in {"pending", "granted"} /\ request'[Primary] \in {"deleting", "absent"}
           => \A s \in Services : request[s] = "absent"]_vars
  BY <1>1
<1>3. QED
  BY <1>2, Inductive, PTL DEF Spec, PrimaryLast

\* AccessOutlivesServices: an access the spec asks for is taken away only on deletion of
\* the MCP, and only when no service that may need it is left.
THEOREM AccessOutlivesServicesAlways == Spec => AccessOutlivesServices
<1>1. ASSUME IInv, [Next]_vars, NEW p \in Providers,
             access[p].state = "active", access'[p].state # "active"
      PROVE  \/ p \notin copy.desired
             \/ /\ copy.life = "deleting"
                /\ \A s \in Services : service[s] \in {"new", "gone"}
  <2>1. access \in [Providers -> AccessType]
    BY <1>1 DEF IInv, TypeInv, TypeOK
  <2>2. PICK q \in Providers : DeleteAccessRequest(q)
    <3>1. ASSUME NEW q \in Providers, EnsureAccessRequest(q) \/ GrantAccess(q) \/ AccessGone(q)
          PROVE  access'[p].state = "active"
      BY <1>1, <2>1, <3>1 DEF EnsureAccessRequest, GrantAccess, AccessGone, AccessType, NoAccess
    <3>2. QED
      BY <1>1, <3>1, AccessFrame
  <2>3. pc = "revoke" /\ p \in todo
    BY <1>1, <2>1, <2>2 DEF DeleteAccessRequest
  <2>4. p \notin updated /\ copy.life \in {"active", "deleting"}
    BY <1>1, <2>3 DEF IInv, AccessesManaged, Copied
  <2>5. CASE copy.life = "active"
    BY <1>1, <2>3, <2>4, <2>5 DEF IInv, AccessesManaged, Managing
  <2>6. CASE copy.life = "deleting"
    BY <1>1, <2>3, <2>6 DEF IInv, ServicesFirst, InDeletion, Managing
  <2>7. QED
    BY <2>4, <2>5, <2>6
<1>2. IInv /\ [Next]_vars =>
        [\A p \in Providers :
           access[p].state = "active" /\ access'[p].state # "active"
             => \/ p \notin copy.desired
                \/ /\ copy.life = "deleting"
                   /\ \A s \in Services : service[s] \in {"new", "gone"}]_vars
  BY <1>1
<1>3. QED
  BY <1>2, Inductive, PTL DEF Spec, AccessOutlivesServices

=============================================================================

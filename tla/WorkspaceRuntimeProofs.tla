----------------------- MODULE WorkspaceRuntimeProofs -----------------------
(***************************************************************************)
(* Theorems about the workspace runtime, for every number of engagements   *)
(* and of the other bounded events.                                        *)
(***************************************************************************)
EXTENDS WorkspaceRuntime, TLAPS

-----------------------------------------------------------------------------
(* The inductive invariant *)

Steps ==
  {"idle", "default", "marker", "webhook", "namespace", "cluster", "provider", "requests",
   "holdCluster", "grantRequest", "releaseRequest", "access", "resolve", "ensureAccess",
   "ensureGrants", "secret", "store", "grantAccess", "deleteAccess", "releaseAccess"}

\* An object in deletion exists because of a finalizer, and one that is not there
\* has none.
Sound(object) == object.state = "deleting" <=> object.held /\ object.state # "active"

\* The timers fire in the order of the engagements they belong to, and only the last
\* one can belong to the newest engagement, which has ended then.
Ordered ==
  /\ entry <= engagements
  /\ \A i, j \in DOMAIN timers : i < j => timers[i] < timers[j]
  /\ \A i \in DOMAIN timers : timers[i] <= entry
  /\ engaged => entry > 0 /\ \A i \in DOMAIN timers : timers[i] < entry

\* Only an engaged workspace is reconciled.
Running == pc # "idle" => engaged

\* Nothing is left in a namespace that is gone, and it is gone when ControlPlanes are
\* finalized; nobody makes it again without an engagement.
Emptied ==
  /\ namespace = "absent" =>
       cluster.state = "absent" /\ cr.state = "absent" /\ ar.state = "absent"
  /\ cleaner = "finalize" /\ entry = 0 => namespace = "absent"

\* What an AccessRequest grants exists only while it is held, and the steps that
\* grant something work on one that is held or gone.
Guarded ==
  /\ grants \/ access => ar.held
  /\ pc \in {"resolve", "ensureAccess", "ensureGrants", "secret", "store", "grantAccess"} =>
       ar.held \/ ar.state = "absent"
  /\ pc = "deleteAccess" => ~grants
  /\ pc = "releaseAccess" => ~grants /\ ~access

\* The guard's answer stays true until the deletion it is about.
Answered == asked => leaving \/ orders # "before"

IInv ==
  /\ TypeOK
  /\ Ordered
  /\ Running
  /\ Emptied
  /\ Guarded
  /\ Answered

-----------------------------------------------------------------------------
(* Types *)

\* The conjuncts of TypeOK, by where the variables belong.
WorkspaceTyped ==
  /\ binding \in States
  /\ leaving \in BOOLEAN
  /\ orders \in {"none", "before", "during"}
  /\ webhook \in BOOLEAN
  /\ home \in States
  /\ marker \in BOOLEAN
  /\ cp \in States
  /\ access \in BOOLEAN
  /\ grants \in BOOLEAN
  /\ orphans \in BOOLEAN

PlatformTyped ==
  /\ namespace \in States
  /\ deployed \in BOOLEAN
  /\ cluster \in ClusterType /\ Sound(cluster)
  /\ cr \in RequestType /\ Sound(cr)
  /\ ar \in AccessType /\ Sound(ar)
  /\ secret \in Tokens

EngagementTyped ==
  /\ engaged \in BOOLEAN
  /\ engagements \in 0..MaxEngagements
  /\ entry \in 0..MaxEngagements
  /\ timers \in Seq(1..MaxEngagements)

WorkTyped ==
  /\ pc \in Steps
  /\ minted \in Tokens
  /\ cleaner \in {"idle", "access", "cluster", "request", "dropCluster", "namespace", "await",
                  "finalize", "grants", "accounts", "home", "failed"}
  /\ asked \in BOOLEAN
  /\ events \in 0..MaxEvents

\* The parts make up TypeOK.
LEMMA TypeParts == TypeOK <=> WorkspaceTyped /\ PlatformTyped /\ EngagementTyped /\ WorkTyped
BY DEF TypeOK, WorkspaceTyped, PlatformTyped, EngagementTyped, WorkTyped, Sound, Steps

\* What the API server makes of a Cluster is a sound Cluster.
LEMMA ClusterOperations ==
  ASSUME NEW c \in ClusterType, Sound(c)
  PROVE  /\ Released(c, NoCluster) \in ClusterType /\ Sound(Released(c, NoCluster))
         /\ Deleted(c, NoCluster) \in ClusterType /\ Sound(Deleted(c, NoCluster))
         /\ NoCluster \in ClusterType /\ Sound(NoCluster)
BY DEF ClusterType, NoCluster, States, Sound, Released, Deleted

\* The same for a ClusterRequest,
LEMMA RequestOperations ==
  ASSUME NEW r \in RequestType, Sound(r)
  PROVE  /\ Deleted(r, NoRequest) \in RequestType /\ Sound(Deleted(r, NoRequest))
         /\ NoRequest \in RequestType /\ Sound(NoRequest)
BY DEF RequestType, NoRequest, States, Sound, Deleted

\* and for an AccessRequest.
LEMMA AccessOperations ==
  ASSUME NEW a \in AccessType, Sound(a)
  PROVE  /\ Deleted(a, NoAccess) \in AccessType /\ Sound(Deleted(a, NoAccess))
         /\ NoAccess \in AccessType /\ Sound(NoAccess)
BY DEF AccessType, NoAccess, States, Sound, Deleted

\* The actions that change the workspace, and those that change the platform.
WorkspaceStep ==
  \/ EnsureHome
  \/ CreateDefault
  \/ CreateMarker
  \/ EnsureWebhook
  \/ ReconcileAccess
  \/ EnsureAccess
  \/ EnsureGrants
  \/ DeleteAccess
  \/ ReleaseAccess
  \/ CleanAccess
  \/ FinalizeControlPlane
  \/ CleanGrants
  \/ CleanAccounts
  \/ CleanHome
  \/ Disconnect
  \/ Order
  \/ RemoveOrder
  \/ Leave
  \/ KcpDeletesBound
  \/ BindingGoes
  \/ CollectGarbage
  \/ Rebind
  \/ HomeGoes
  \/ NamespaceGoes
  \/ ControlPlaneReleased
  \/ DropsAccess

PlatformStep ==
  \/ EnsureNamespace
  \/ EnsureCluster
  \/ EnsureProvider
  \/ ReconcileRequest
  \/ HoldCluster
  \/ GrantRequest
  \/ ReleaseRequest
  \/ ReconcileAccess
  \/ ResolveAccess
  \/ Store
  \/ GrantAccess
  \/ DeleteAccess
  \/ ReleaseAccess
  \/ CleanAccess
  \/ FreeCluster
  \/ CleanRequest
  \/ DropCluster
  \/ DropNamespace
  \/ CleanAccounts
  \/ CollectGarbage
  \/ NamespaceGoes
  \/ ProviderAsks
  \/ DropsAccess
  \/ DropsRequest

\* Every other action leaves the workspace alone,
LEMMA WorkspaceFrame == Next => WorkspaceStep \/ UNCHANGED workspace
BY DEF Next, Reconcile, Cleanup, Kubernetes, WorkspaceStep, engagement, workspace, platform,
   run, Engage, Disengage, TimerFires, EnsureHome, CreateDefault, CreateMarker, EnsureWebhook,
   EnsureNamespace, EnsureCluster, EnsureProvider, ReconcileRequest, HoldCluster, GrantRequest,
   ReleaseRequest, ReconcileAccess, ResolveAccess, EnsureAccess, EnsureGrants, Mint, Store,
   GrantAccess, DeleteAccess, ReleaseAccess, CallFails, CleanAccess, FreeCluster, CleanRequest,
   DropCluster, DropNamespace, AwaitNamespace, AwaitTimesOut, FinalizeControlPlane, CleanGrants,
   CleanAccounts, CleanHome, CleanupCallFails, Ask, Disconnect, Order, RemoveOrder, Leave,
   KcpDeletesBound, BindingGoes, CollectGarbage, HomeGoes, NamespaceGoes, Rebind,
   ControlPlaneReleased, ProviderAsks, DropsAccess, DropsRequest, Goto, Idle

\* and the platform.
LEMMA PlatformFrame == Next => PlatformStep \/ UNCHANGED platform
BY DEF Next, Reconcile, Cleanup, Kubernetes, PlatformStep, engagement, workspace, platform, run,
   Engage, Disengage, TimerFires, EnsureHome, CreateDefault, CreateMarker, EnsureWebhook,
   EnsureNamespace, EnsureCluster, EnsureProvider, ReconcileRequest, HoldCluster, GrantRequest,
   ReleaseRequest, ReconcileAccess, ResolveAccess, EnsureAccess, EnsureGrants, Mint, Store,
   GrantAccess, DeleteAccess, ReleaseAccess, CallFails, CleanAccess, FreeCluster, CleanRequest,
   DropCluster, DropNamespace, AwaitNamespace, AwaitTimesOut, FinalizeControlPlane, CleanGrants,
   CleanAccounts, CleanHome, CleanupCallFails, Ask, Disconnect, Order, RemoveOrder, Leave,
   KcpDeletesBound, BindingGoes, CollectGarbage, HomeGoes, NamespaceGoes, Rebind,
   ControlPlaneReleased, ProviderAsks, DropsAccess, DropsRequest, Goto, Idle

\* No step leaves the types of the workspace's variables.
LEMMA WorkspaceType ==
  ASSUME WorkspaceTyped, Next
  PROVE  WorkspaceTyped'
<1>1. CASE EnsureHome
  BY <1>1 DEF EnsureHome, WorkspaceTyped, States, Ending, ChangeAccess
<1>2. CASE CreateDefault
  BY <1>2 DEF CreateDefault, WorkspaceTyped, States, Ending, ChangeAccess
<1>3. CASE CreateMarker
  BY <1>3 DEF CreateMarker, WorkspaceTyped, States, Ending, ChangeAccess
<1>4. CASE EnsureWebhook
  BY <1>4 DEF EnsureWebhook, WorkspaceTyped, States, Ending, ChangeAccess
<1>5. CASE ReconcileAccess
  <2>1. grants' = grants \/ grants' = FALSE
    BY <1>5, Zenon DEF ReconcileAccess
  <2>2. UNCHANGED <<binding, leaving, orders, webhook, home, marker, cp, access, orphans>>
    BY <1>5, Zenon DEF ReconcileAccess
  <2>3. QED
    BY <2>1, <2>2 DEF WorkspaceTyped
<1>6. CASE EnsureAccess
  BY <1>6 DEF EnsureAccess, WorkspaceTyped, States, Ending, ChangeAccess
<1>7. CASE EnsureGrants
  BY <1>7 DEF EnsureGrants, WorkspaceTyped, States, Ending, ChangeAccess
<1>8. CASE DeleteAccess
  BY <1>8 DEF DeleteAccess, WorkspaceTyped, States, Ending, ChangeAccess
<1>9. CASE ReleaseAccess
  BY <1>9 DEF ReleaseAccess, WorkspaceTyped, States, Ending, ChangeAccess
<1>10. CASE CleanAccess
  BY <1>10 DEF CleanAccess, WorkspaceTyped, States, Ending, ChangeAccess
<1>11. CASE FinalizeControlPlane
  BY <1>11 DEF FinalizeControlPlane, WorkspaceTyped, States, Ending, ChangeAccess
<1>12. CASE CleanGrants
  BY <1>12 DEF CleanGrants, WorkspaceTyped, States, Ending, ChangeAccess
<1>13. CASE CleanAccounts
  BY <1>13 DEF CleanAccounts, WorkspaceTyped, States, Ending, ChangeAccess
<1>14. CASE CleanHome
  BY <1>14 DEF CleanHome, WorkspaceTyped, States, Ending, ChangeAccess
<1>15. CASE Disconnect
  BY <1>15 DEF Disconnect, WorkspaceTyped, States, Ending, ChangeAccess
<1>16. CASE Order
  BY <1>16 DEF Order, WorkspaceTyped, States, Ending, ChangeAccess
<1>17. CASE RemoveOrder
  BY <1>17 DEF RemoveOrder, WorkspaceTyped, States, Ending, ChangeAccess
<1>18. CASE Leave
  BY <1>18 DEF Leave, WorkspaceTyped, States, Ending, ChangeAccess
<1>19. CASE KcpDeletesBound
  BY <1>19 DEF KcpDeletesBound, WorkspaceTyped, States, Ending, ChangeAccess
<1>20. CASE BindingGoes
  BY <1>20 DEF BindingGoes, WorkspaceTyped, States, Ending, ChangeAccess
<1>21. CASE CollectGarbage
  BY <1>21 DEF CollectGarbage, WorkspaceTyped, States, Ending, ChangeAccess
<1>22. CASE Rebind
  BY <1>22 DEF Rebind, WorkspaceTyped, States, Ending, ChangeAccess
<1>23. CASE HomeGoes
  BY <1>23 DEF HomeGoes, WorkspaceTyped, States, Ending, ChangeAccess
<1>24. CASE NamespaceGoes
  BY <1>24 DEF NamespaceGoes, WorkspaceTyped, States, Ending, ChangeAccess
<1>25. CASE ControlPlaneReleased
  BY <1>25 DEF ControlPlaneReleased, WorkspaceTyped, States, Ending, ChangeAccess
<1>26. CASE DropsAccess
  BY <1>26 DEF DropsAccess, WorkspaceTyped, States, Ending, ChangeAccess
<1>27. CASE UNCHANGED workspace
  BY <1>27 DEF WorkspaceTyped, workspace
<1>28. QED
  BY WorkspaceFrame, <1>1, <1>2, <1>3, <1>4, <1>5, <1>6, <1>7, <1>8, <1>9, <1>10, <1>11, <1>12,
     <1>13, <1>14, <1>15, <1>16, <1>17, <1>18, <1>19, <1>20, <1>21, <1>22, <1>23, <1>24, <1>25,
     <1>26, <1>27 DEF WorkspaceStep

\* No step leaves the types of the platform's objects, nor makes one unsound.
LEMMA PlatformType ==
  ASSUME PlatformTyped, minted \in Tokens, Next
  PROVE  PlatformTyped'
<1>1. CASE EnsureNamespace
  BY <1>1 DEF EnsureNamespace, PlatformTyped, Sound, States, Tokens, Ending, ChangeAccess,
     ClusterType, RequestType, AccessType, NoCluster, NoRequest, NoAccess, Deleted, Released,
     WithoutAccount, Goto, Idle
<1>2. CASE EnsureCluster
  <2>1. cluster' \in ClusterType /\ Sound(cluster')
    BY <1>2 DEF EnsureCluster, PlatformTyped, ClusterType, NoCluster, States, Sound
  <2>2. UNCHANGED <<namespace, deployed, cr, ar, secret>>
    BY <1>2 DEF EnsureCluster
  <2>3. QED
    BY <2>1, <2>2 DEF PlatformTyped, Sound
<1>3. CASE EnsureProvider
  <2>1. deployed' \in BOOLEAN
    BY <1>3 DEF EnsureProvider, PlatformTyped
  <2>2. UNCHANGED <<namespace, cluster, cr, ar, secret>>
    BY <1>3 DEF EnsureProvider
  <2>3. QED
    BY <2>1, <2>2 DEF PlatformTyped, Sound
<1>4. CASE ReconcileRequest
  <2>1. \/ UNCHANGED cluster
        \/ cluster' = Released(cluster, NoCluster)
    BY <1>4, Zenon DEF ReconcileRequest
  <2>2. \/ UNCHANGED cr
        \/ cr.state = "active" /\ cr' = [cr EXCEPT !.held = TRUE]
    BY <1>4, Zenon DEF ReconcileRequest
  <2>3. cluster' \in ClusterType /\ Sound(cluster')
    BY <2>1, ClusterOperations DEF PlatformTyped, Sound
  <2>4. cr' \in RequestType /\ Sound(cr')
    BY <2>2 DEF PlatformTyped, RequestType, Sound
  <2>5. UNCHANGED <<namespace, deployed, ar, secret>>
    BY <1>4, Zenon DEF ReconcileRequest
  <2>6. QED
    BY <2>3, <2>4, <2>5 DEF PlatformTyped, Sound
<1>5. CASE HoldCluster
  <2>1. \/ UNCHANGED cluster
        \/ (cluster.held \/ cluster.state = "active") /\ cluster' = [cluster EXCEPT !.held = TRUE]
    BY <1>5, Zenon DEF HoldCluster
  <2>2. cluster' \in ClusterType /\ Sound(cluster')
    BY <2>1 DEF PlatformTyped, ClusterType, Sound
  <2>3. UNCHANGED <<namespace, deployed, cr, ar, secret>>
    BY <1>5, Zenon DEF HoldCluster
  <2>4. QED
    BY <2>2, <2>3 DEF PlatformTyped, Sound
<1>6. CASE GrantRequest
  <2>1. \/ UNCHANGED cr
        \/ cr.state # "absent" /\ cr' = [cr EXCEPT !.granted = TRUE]
    BY <1>6, Zenon DEF GrantRequest
  <2>2. cr' \in RequestType /\ Sound(cr')
    BY <2>1 DEF PlatformTyped, RequestType, Sound
  <2>3. UNCHANGED <<namespace, cluster, deployed, ar, secret>>
    BY <1>6, Zenon DEF GrantRequest
  <2>4. QED
    BY <2>2, <2>3 DEF PlatformTyped, Sound
<1>7. CASE ReleaseRequest
  BY <1>7 DEF ReleaseRequest, PlatformTyped, Sound, States, Tokens, Ending, ChangeAccess,
     ClusterType, RequestType, AccessType, NoCluster, NoRequest, NoAccess, Deleted, Released,
     WithoutAccount, Goto, Idle
<1>8. CASE ReconcileAccess
  BY <1>8 DEF ReconcileAccess, PlatformTyped, Sound, States, Tokens, Ending, ChangeAccess,
     ClusterType, RequestType, AccessType, NoCluster, NoRequest, NoAccess, Deleted, Released,
     WithoutAccount, Goto, Idle
<1>9. CASE ResolveAccess
  BY <1>9 DEF ResolveAccess, PlatformTyped, Sound, States, Tokens, Ending, ChangeAccess,
     ClusterType, RequestType, AccessType, NoCluster, NoRequest, NoAccess, Deleted, Released,
     WithoutAccount, Goto, Idle
<1>10. CASE Store
  BY <1>10 DEF Store, PlatformTyped, Sound, States, Tokens, Ending, ChangeAccess, ClusterType,
     RequestType, AccessType, NoCluster, NoRequest, NoAccess, Deleted, Released, WithoutAccount,
     Goto, Idle
<1>11. CASE GrantAccess
  BY <1>11 DEF GrantAccess, PlatformTyped, Sound, States, Tokens, Ending, ChangeAccess,
     ClusterType, RequestType, AccessType, NoCluster, NoRequest, NoAccess, Deleted, Released,
     WithoutAccount, Goto, Idle
<1>12. CASE DeleteAccess
  BY <1>12 DEF DeleteAccess, PlatformTyped, Sound, States, Tokens, Ending, ChangeAccess,
     ClusterType, RequestType, AccessType, NoCluster, NoRequest, NoAccess, Deleted, Released,
     WithoutAccount, Goto, Idle
<1>13. CASE ReleaseAccess
  BY <1>13 DEF ReleaseAccess, PlatformTyped, Sound, States, Tokens, Ending, ChangeAccess,
     ClusterType, RequestType, AccessType, NoCluster, NoRequest, NoAccess, Deleted, Released,
     WithoutAccount, Goto, Idle
<1>14. CASE CleanAccess
  BY <1>14 DEF CleanAccess, PlatformTyped, Sound, States, Tokens, Ending, ChangeAccess,
     ClusterType, RequestType, AccessType, NoCluster, NoRequest, NoAccess, Deleted, Released,
     WithoutAccount, Goto, Idle
<1>15. CASE FreeCluster
  <2>1. cluster' \in ClusterType /\ Sound(cluster')
    BY <1>15, ClusterOperations DEF FreeCluster, PlatformTyped, Sound
  <2>2. UNCHANGED <<namespace, deployed, cr, ar, secret>>
    BY <1>15, Zenon DEF FreeCluster
  <2>3. QED
    BY <2>1, <2>2 DEF PlatformTyped, Sound
<1>16. CASE CleanRequest
  BY <1>16 DEF CleanRequest, PlatformTyped, Sound, States, Tokens, Ending, ChangeAccess,
     ClusterType, RequestType, AccessType, NoCluster, NoRequest, NoAccess, Deleted, Released,
     WithoutAccount, Goto, Idle
<1>17. CASE DropCluster
  BY <1>17 DEF DropCluster, PlatformTyped, Sound, States, Tokens, Ending, ChangeAccess,
     ClusterType, RequestType, AccessType, NoCluster, NoRequest, NoAccess, Deleted, Released,
     WithoutAccount, Goto, Idle
<1>18. CASE DropNamespace
  BY <1>18 DEF DropNamespace, PlatformTyped, Sound, States, Tokens, Ending, ChangeAccess,
     ClusterType, RequestType, AccessType, NoCluster, NoRequest, NoAccess, Deleted, Released,
     WithoutAccount, Goto, Idle
<1>19. CASE CleanAccounts
  BY <1>19 DEF CleanAccounts, PlatformTyped, Sound, States, Tokens, Ending, ChangeAccess,
     ClusterType, RequestType, AccessType, NoCluster, NoRequest, NoAccess, Deleted, Released,
     WithoutAccount, Goto, Idle
<1>20. CASE CollectGarbage
  BY <1>20 DEF CollectGarbage, PlatformTyped, Sound, States, Tokens, Ending, ChangeAccess,
     ClusterType, RequestType, AccessType, NoCluster, NoRequest, NoAccess, Deleted, Released,
     WithoutAccount, Goto, Idle
<1>21. CASE NamespaceGoes
  BY <1>21 DEF NamespaceGoes, PlatformTyped, Sound, States, Tokens, Ending, ChangeAccess,
     ClusterType, RequestType, AccessType, NoCluster, NoRequest, NoAccess, Deleted, Released,
     WithoutAccount, Goto, Idle
<1>22. CASE ProviderAsks
  BY <1>22 DEF ProviderAsks, PlatformTyped, Sound, States, Tokens, Ending, ChangeAccess,
     ClusterType, RequestType, AccessType, NoCluster, NoRequest, NoAccess, Deleted, Released,
     WithoutAccount, Goto, Idle
<1>23. CASE DropsAccess
  BY <1>23 DEF DropsAccess, PlatformTyped, Sound, States, Tokens, Ending, ChangeAccess,
     ClusterType, RequestType, AccessType, NoCluster, NoRequest, NoAccess, Deleted, Released,
     WithoutAccount, Goto, Idle
<1>24. CASE DropsRequest
  BY <1>24 DEF DropsRequest, PlatformTyped, Sound, States, Tokens, Ending, ChangeAccess,
     ClusterType, RequestType, AccessType, NoCluster, NoRequest, NoAccess, Deleted, Released,
     WithoutAccount, Goto, Idle
<1>25. CASE UNCHANGED platform
  BY <1>25 DEF PlatformTyped, platform, Sound
<1>26. QED
  BY PlatformFrame, <1>1, <1>2, <1>3, <1>4, <1>5, <1>6, <1>7, <1>8, <1>9, <1>10, <1>11, <1>12,
     <1>13, <1>14, <1>15, <1>16, <1>17, <1>18, <1>19, <1>20, <1>21, <1>22, <1>23, <1>24,
     <1>25 DEF PlatformStep

\* No step leaves the types of the goroutines' variables.
LEMMA WorkType ==
  ASSUME WorkTyped, Next
  PROVE  WorkTyped'
<1>1. CASE Reconcile
  BY <1>1, SMTT(60) DEF Reconcile, EnsureHome, CreateDefault, CreateMarker, EnsureWebhook,
     EnsureNamespace, EnsureCluster, EnsureProvider, ReconcileRequest, HoldCluster,
     GrantRequest, ReleaseRequest, ReconcileAccess, ResolveAccess, EnsureAccess, EnsureGrants,
     Mint, Store, GrantAccess, DeleteAccess, ReleaseAccess, WorkTyped, Steps, Tokens, Goto,
     Idle, Event, WithoutAccount, run
<1>2. CASE Cleanup \/ AwaitTimesOut
  BY <1>2, SMTT(60) DEF Cleanup, CleanAccess, FreeCluster, CleanRequest, DropCluster,
     DropNamespace, AwaitNamespace, AwaitTimesOut, FinalizeControlPlane, CleanGrants,
     CleanAccounts, CleanHome, WorkTyped, Steps, Tokens, Goto, Idle, Event, WithoutAccount, run
<1>3. CASE Kubernetes
  BY <1>3, SMTT(60) DEF Kubernetes, KcpDeletesBound, BindingGoes, CollectGarbage, HomeGoes,
     NamespaceGoes, WorkTyped, Steps, Tokens, Goto, Idle, Event, WithoutAccount, run
<1>4. CASE Engage
  BY <1>4, RuntimeAssumption DEF Engage, WorkTyped, Steps, Tokens, Goto, Idle, Event,
     WithoutAccount, run
<1>5. CASE Disengage
  BY <1>5, RuntimeAssumption DEF Disengage, WorkTyped, Steps, Tokens, Goto, Idle, Event,
     WithoutAccount, run
<1>6. CASE TimerFires
  BY <1>6, RuntimeAssumption DEF TimerFires, WorkTyped, Steps, Tokens, Goto, Idle, Event,
     WithoutAccount, run
<1>7. CASE CallFails
  BY <1>7, RuntimeAssumption DEF CallFails, WorkTyped, Steps, Tokens, Goto, Idle, Event,
     WithoutAccount, run
<1>8. CASE CleanupCallFails
  BY <1>8, RuntimeAssumption DEF CleanupCallFails, WorkTyped, Steps, Tokens, Goto, Idle, Event,
     WithoutAccount, run
<1>9. CASE Ask
  BY <1>9, RuntimeAssumption DEF Ask, WorkTyped, Steps, Tokens, Goto, Idle, Event,
     WithoutAccount, run
<1>10. CASE Disconnect
  BY <1>10, RuntimeAssumption DEF Disconnect, WorkTyped, Steps, Tokens, Goto, Idle, Event,
     WithoutAccount, run
<1>11. CASE Order
  BY <1>11, RuntimeAssumption DEF Order, WorkTyped, Steps, Tokens, Goto, Idle, Event,
     WithoutAccount, run
<1>12. CASE RemoveOrder
  BY <1>12, RuntimeAssumption DEF RemoveOrder, WorkTyped, Steps, Tokens, Goto, Idle, Event,
     WithoutAccount, run
<1>13. CASE Leave
  BY <1>13, RuntimeAssumption DEF Leave, WorkTyped, Steps, Tokens, Goto, Idle, Event,
     WithoutAccount, run
<1>14. CASE Rebind
  BY <1>14, RuntimeAssumption DEF Rebind, WorkTyped, Steps, Tokens, Goto, Idle, Event,
     WithoutAccount, run
<1>15. CASE ControlPlaneReleased
  BY <1>15, RuntimeAssumption DEF ControlPlaneReleased, WorkTyped, Steps, Tokens, Goto, Idle,
     Event, WithoutAccount, run
<1>16. CASE ProviderAsks
  BY <1>16, RuntimeAssumption DEF ProviderAsks, WorkTyped, Steps, Tokens, Goto, Idle, Event,
     WithoutAccount, run
<1>17. CASE DropsAccess
  BY <1>17, RuntimeAssumption DEF DropsAccess, WorkTyped, Steps, Tokens, Goto, Idle, Event,
     WithoutAccount, run
<1>18. CASE DropsRequest
  BY <1>18, RuntimeAssumption DEF DropsRequest, WorkTyped, Steps, Tokens, Goto, Idle, Event,
     WithoutAccount, run
<1>19. QED
  BY <1>1, <1>2, <1>3, <1>4, <1>5, <1>6, <1>7, <1>8, <1>9, <1>10, <1>11, <1>12, <1>13, <1>14,
     <1>15, <1>16, <1>17, <1>18 DEF Next

-----------------------------------------------------------------------------
(* The maps *)

\* Only engagements, their ends and timers change the maps.
LEMMA EngagementFrame == Next => Engage \/ Disengage \/ TimerFires \/ UNCHANGED engagement
BY DEF Next, Reconcile, Cleanup, Kubernetes, engagement, workspace, platform, run, Engage,
   Disengage, TimerFires, EnsureHome, CreateDefault, CreateMarker, EnsureWebhook,
   EnsureNamespace, EnsureCluster, EnsureProvider, ReconcileRequest, HoldCluster, GrantRequest,
   ReleaseRequest, ReconcileAccess, ResolveAccess, EnsureAccess, EnsureGrants, Mint, Store,
   GrantAccess, DeleteAccess, ReleaseAccess, CallFails, CleanAccess, FreeCluster, CleanRequest,
   DropCluster, DropNamespace, AwaitNamespace, AwaitTimesOut, FinalizeControlPlane, CleanGrants,
   CleanAccounts, CleanHome, CleanupCallFails, Ask, Disconnect, Order, RemoveOrder, Leave,
   KcpDeletesBound, BindingGoes, CollectGarbage, HomeGoes, NamespaceGoes, Rebind,
   ControlPlaneReleased, ProviderAsks, DropsAccess, DropsRequest, Goto, Idle

\* The timers stay in order: a new one belongs to the newest engagement, and the one
\* that takes the entry away is the last.
LEMMA EngagementStep ==
  ASSUME EngagementTyped, Ordered, Next
  PROVE  EngagementTyped' /\ Ordered'
<1>1. CASE Engage
  <2>1. /\ UNCHANGED timers
        /\ engaged' = TRUE
        /\ entry' = entry + 1
        /\ engagements' = engagements + 1
    BY <1>1 DEF Engage
  <2>2. engagements < MaxEngagements
    BY <1>1 DEF Engage
  <2>3. EngagementTyped'
    BY <2>1, <2>2, RuntimeAssumption DEF EngagementTyped, Ordered
  <2>4. \A i \in DOMAIN timers : timers[i] \in Nat
    BY RuntimeAssumption DEF EngagementTyped
  <2>5. Ordered'
    BY <2>1, <2>2, <2>4, RuntimeAssumption DEF EngagementTyped, Ordered
  <2>6. QED
    BY <2>3, <2>5
<1>2. CASE Disengage
  <2>1. /\ engaged
        /\ engaged' = FALSE
        /\ timers' = Append(timers, entry)
        /\ UNCHANGED <<engagements, entry>>
    BY <1>2 DEF Disengage
  <2>2. entry \in 1..MaxEngagements
    BY <2>1, RuntimeAssumption DEF EngagementTyped, Ordered
  <2>3. EngagementTyped'
    <3>1. timers' \in Seq(1..MaxEngagements)
      BY <2>1, <2>2 DEF EngagementTyped
    <3>2. QED
      BY <2>1, <3>1 DEF EngagementTyped
  <2>4. /\ DOMAIN timers' = 1..(Len(timers) + 1)
        /\ DOMAIN timers = 1..Len(timers)
        /\ Len(timers) \in Nat
        /\ \A i \in DOMAIN timers : timers'[i] = timers[i]
        /\ timers'[Len(timers) + 1] = entry
    BY <2>1, <2>2 DEF EngagementTyped
  <2>5. ASSUME NEW i \in DOMAIN timers', NEW j \in DOMAIN timers', i < j
        PROVE  timers'[i] < timers'[j]
    <3>1. i \in DOMAIN timers
      BY <2>4, <2>5
    <3>2. CASE j \in DOMAIN timers
      BY <2>4, <2>5, <3>1, <3>2 DEF Ordered
    <3>3. CASE j = Len(timers) + 1
      BY <2>1, <2>4, <3>1, <3>3 DEF Ordered
    <3>4. QED
      BY <2>4, <3>2, <3>3
  <2>6. ASSUME NEW i \in DOMAIN timers'
        PROVE  timers'[i] <= entry'
    <3>1. CASE i \in DOMAIN timers
      BY <2>1, <2>4, <3>1 DEF Ordered
    <3>2. CASE i = Len(timers) + 1
      BY <2>1, <2>2, <2>4, <3>2
    <3>3. QED
      BY <2>4, <3>1, <3>2
  <2>7. Ordered'
    BY <2>1, <2>5, <2>6 DEF Ordered
  <2>8. QED
    BY <2>3, <2>7
<1>3. CASE TimerFires
  <2>1. /\ timers # <<>>
        /\ timers' = Tail(timers)
        /\ UNCHANGED <<engaged, engagements>>
        /\ entry' = IF entry = timers[1] THEN 0 ELSE entry
    BY <1>3 DEF TimerFires
  <2>2. timers \in Seq(1..MaxEngagements) /\ timers' \in Seq(1..MaxEngagements)
    BY <2>1 DEF EngagementTyped
  <2>3. EngagementTyped'
    BY <2>1, <2>2, RuntimeAssumption DEF EngagementTyped
  <2>4. /\ DOMAIN timers = 1..Len(timers)
        /\ Len(timers) \in Nat \ {0}
        /\ DOMAIN timers' = 1..(Len(timers) - 1)
        /\ \A i \in DOMAIN timers' : timers'[i] = timers[i + 1]
    BY <2>1, <2>2
  <2>5. \A i, j \in DOMAIN timers' : i < j => timers'[i] < timers'[j]
    BY <2>4 DEF Ordered
  <2>6. \A i \in DOMAIN timers : timers[i] \in Nat
    BY <2>2, RuntimeAssumption
  <2>7. CASE entry = timers[1]
    <3>1. ~engaged
      BY <2>4, <2>6, <2>7 DEF Ordered
    <3>2. Len(timers) = 1
      <4>1. SUFFICES ASSUME Len(timers) # 1
                     PROVE  FALSE
        OBVIOUS
      <4>2. 1 \in DOMAIN timers /\ 2 \in DOMAIN timers
        BY <2>4, <4>1
      <4>3. timers[1] < timers[2] /\ timers[2] <= entry
        BY <4>2 DEF Ordered
      <4>4. QED
        BY <2>6, <2>7, <4>2, <4>3
    <3>3. DOMAIN timers' = {}
      BY <2>4, <3>2
    <3>4. entry' = 0 /\ entry' <= engagements'
      BY <2>1, <2>7, RuntimeAssumption DEF EngagementTyped
    <3>5. QED
      BY <2>1, <2>3, <3>1, <3>3, <3>4 DEF Ordered
  <2>8. CASE entry # timers[1]
    <3>1. UNCHANGED entry
      BY <2>1, <2>8
    <3>2. \A i \in DOMAIN timers' : timers'[i] <= entry' /\ (engaged' => timers'[i] < entry')
      BY <2>1, <2>4, <3>1 DEF Ordered
    <3>3. QED
      BY <2>1, <2>3, <2>5, <3>1, <3>2 DEF Ordered
  <2>9. QED
    BY <2>7, <2>8
<1>4. CASE UNCHANGED engagement
  BY <1>4 DEF engagement, EngagementTyped, Ordered
<1>5. QED
  BY <1>1, <1>2, <1>3, <1>4, EngagementFrame

\* A reconciliation ends with its engagement.
LEMMA RunningStep ==
  ASSUME WorkTyped, Running, Next
  PROVE  Running'
<1>1. pc' # "idle" => engaged'
  BY SMTT(60) DEF Running, Next, Reconcile, Cleanup, Kubernetes, engagement, workspace,
     platform, run, Engage, Disengage, TimerFires, EnsureHome, CreateDefault, CreateMarker,
     EnsureWebhook, EnsureNamespace, EnsureCluster, EnsureProvider, ReconcileRequest,
     HoldCluster, GrantRequest, ReleaseRequest, ReconcileAccess, ResolveAccess, EnsureAccess,
     EnsureGrants, Mint, Store, GrantAccess, DeleteAccess, ReleaseAccess, CallFails,
     CleanAccess, FreeCluster, CleanRequest, DropCluster, DropNamespace, AwaitNamespace,
     AwaitTimesOut, FinalizeControlPlane, CleanGrants, CleanAccounts, CleanHome,
     CleanupCallFails, Ask, Disconnect, Order, RemoveOrder, Leave, KcpDeletesBound, BindingGoes,
     CollectGarbage, HomeGoes, NamespaceGoes, Rebind, ControlPlaneReleased, ProviderAsks,
     DropsAccess, DropsRequest, Goto, Idle
<1>2. QED
  BY <1>1 DEF Running

\* The namespace ends with all it holds, and is not made again while ControlPlanes are
\* finalized.
LEMMA EmptiedStep ==
  ASSUME IInv, Next
  PROVE  Emptied'
<1>. DEFINE Empty == cluster.state = "absent" /\ cr.state = "absent" /\ ar.state = "absent"
<1>1. namespace' = "absent" => Empty'
  <2>1. CASE EnsureNamespace
    BY <2>1 DEF EnsureNamespace, IInv, TypeOK, Emptied, Sound, Ending, ChangeAccess,
       ClusterType, RequestType, AccessType, NoCluster, NoRequest, NoAccess, Deleted, Released,
       Goto, Idle
  <2>2. CASE EnsureCluster
    BY <2>2 DEF EnsureCluster, IInv, TypeOK, Emptied, Sound, Ending, ChangeAccess, ClusterType,
       RequestType, AccessType, NoCluster, NoRequest, NoAccess, Deleted, Released, Goto, Idle
  <2>3. CASE EnsureProvider
    BY <2>3 DEF EnsureProvider, IInv, TypeOK, Emptied, Sound, Ending, ChangeAccess, ClusterType,
       RequestType, AccessType, NoCluster, NoRequest, NoAccess, Deleted, Released, Goto, Idle
  <2>4. CASE ReconcileRequest
    BY <2>4 DEF ReconcileRequest, IInv, TypeOK, Emptied, Sound, Ending, ChangeAccess,
       ClusterType, RequestType, AccessType, NoCluster, NoRequest, NoAccess, Deleted, Released,
       Goto, Idle
  <2>5. CASE HoldCluster
    BY <2>5 DEF HoldCluster, IInv, TypeOK, Emptied, Sound, Ending, ChangeAccess, ClusterType,
       RequestType, AccessType, NoCluster, NoRequest, NoAccess, Deleted, Released, Goto, Idle
  <2>6. CASE GrantRequest
    BY <2>6 DEF GrantRequest, IInv, TypeOK, Emptied, Sound, Ending, ChangeAccess, ClusterType,
       RequestType, AccessType, NoCluster, NoRequest, NoAccess, Deleted, Released, Goto, Idle
  <2>7. CASE ReleaseRequest
    BY <2>7 DEF ReleaseRequest, IInv, TypeOK, Emptied, Sound, Ending, ChangeAccess, ClusterType,
       RequestType, AccessType, NoCluster, NoRequest, NoAccess, Deleted, Released, Goto, Idle
  <2>8. CASE ReconcileAccess
    BY <2>8 DEF ReconcileAccess, IInv, TypeOK, Emptied, Sound, Ending, ChangeAccess,
       ClusterType, RequestType, AccessType, NoCluster, NoRequest, NoAccess, Deleted, Released,
       Goto, Idle
  <2>9. CASE ResolveAccess
    BY <2>9 DEF ResolveAccess, IInv, TypeOK, Emptied, Sound, Ending, ChangeAccess, ClusterType,
       RequestType, AccessType, NoCluster, NoRequest, NoAccess, Deleted, Released, Goto, Idle
  <2>10. CASE Store
    BY <2>10 DEF Store, IInv, TypeOK, Emptied, Sound, Ending, ChangeAccess, ClusterType,
       RequestType, AccessType, NoCluster, NoRequest, NoAccess, Deleted, Released, Goto, Idle
  <2>11. CASE GrantAccess
    BY <2>11 DEF GrantAccess, IInv, TypeOK, Emptied, Sound, Ending, ChangeAccess, ClusterType,
       RequestType, AccessType, NoCluster, NoRequest, NoAccess, Deleted, Released, Goto, Idle
  <2>12. CASE DeleteAccess
    BY <2>12 DEF DeleteAccess, IInv, TypeOK, Emptied, Sound, Ending, ChangeAccess, ClusterType,
       RequestType, AccessType, NoCluster, NoRequest, NoAccess, Deleted, Released, Goto, Idle
  <2>13. CASE ReleaseAccess
    BY <2>13 DEF ReleaseAccess, IInv, TypeOK, Emptied, Sound, Ending, ChangeAccess, ClusterType,
       RequestType, AccessType, NoCluster, NoRequest, NoAccess, Deleted, Released, Goto, Idle
  <2>14. CASE CleanAccess
    BY <2>14 DEF CleanAccess, IInv, TypeOK, Emptied, Sound, Ending, ChangeAccess, ClusterType,
       RequestType, AccessType, NoCluster, NoRequest, NoAccess, Deleted, Released, Goto, Idle
  <2>15. CASE FreeCluster
    BY <2>15 DEF FreeCluster, IInv, TypeOK, Emptied, Sound, Ending, ChangeAccess, ClusterType,
       RequestType, AccessType, NoCluster, NoRequest, NoAccess, Deleted, Released, Goto, Idle
  <2>16. CASE CleanRequest
    BY <2>16 DEF CleanRequest, IInv, TypeOK, Emptied, Sound, Ending, ChangeAccess, ClusterType,
       RequestType, AccessType, NoCluster, NoRequest, NoAccess, Deleted, Released, Goto, Idle
  <2>17. CASE DropCluster
    BY <2>17 DEF DropCluster, IInv, TypeOK, Emptied, Sound, Ending, ChangeAccess, ClusterType,
       RequestType, AccessType, NoCluster, NoRequest, NoAccess, Deleted, Released, Goto, Idle
  <2>18. CASE DropNamespace
    BY <2>18 DEF DropNamespace, IInv, TypeOK, Emptied, Sound, Ending, ChangeAccess, ClusterType,
       RequestType, AccessType, NoCluster, NoRequest, NoAccess, Deleted, Released, Goto, Idle
  <2>19. CASE CleanAccounts
    BY <2>19 DEF CleanAccounts, IInv, TypeOK, Emptied, Sound, Ending, ChangeAccess, ClusterType,
       RequestType, AccessType, NoCluster, NoRequest, NoAccess, Deleted, Released, Goto, Idle
  <2>20. CASE CollectGarbage
    BY <2>20 DEF CollectGarbage, IInv, TypeOK, Emptied, Sound, Ending, ChangeAccess,
       ClusterType, RequestType, AccessType, NoCluster, NoRequest, NoAccess, Deleted, Released,
       Goto, Idle
  <2>21. CASE NamespaceGoes
    BY <2>21 DEF NamespaceGoes, IInv, TypeOK, Emptied, Sound, Ending, ChangeAccess, ClusterType,
       RequestType, AccessType, NoCluster, NoRequest, NoAccess, Deleted, Released, Goto, Idle
  <2>22. CASE ProviderAsks
    BY <2>22 DEF ProviderAsks, IInv, TypeOK, Emptied, Sound, Ending, ChangeAccess, ClusterType,
       RequestType, AccessType, NoCluster, NoRequest, NoAccess, Deleted, Released, Goto, Idle
  <2>23. CASE DropsAccess
    BY <2>23 DEF DropsAccess, IInv, TypeOK, Emptied, Sound, Ending, ChangeAccess, ClusterType,
       RequestType, AccessType, NoCluster, NoRequest, NoAccess, Deleted, Released, Goto, Idle
  <2>24. CASE DropsRequest
    BY <2>24 DEF DropsRequest, IInv, TypeOK, Emptied, Sound, Ending, ChangeAccess, ClusterType,
       RequestType, AccessType, NoCluster, NoRequest, NoAccess, Deleted, Released, Goto, Idle
  <2>25. CASE UNCHANGED platform
    BY <2>25 DEF platform, IInv, Emptied
  <2>26. QED
    BY PlatformFrame, <2>1, <2>2, <2>3, <2>4, <2>5, <2>6, <2>7, <2>8, <2>9, <2>10, <2>11, <2>12,
       <2>13, <2>14, <2>15, <2>16, <2>17, <2>18, <2>19, <2>20, <2>21, <2>22, <2>23, <2>24,
       <2>25 DEF PlatformStep
<1>2. cleaner' = "finalize" /\ entry' = 0 =>
         \/ cleaner = "await" /\ namespace' = "absent"
         \/ cleaner = "finalize" /\ entry = 0
  <2>1. CASE Engage
    BY <2>1, RuntimeAssumption DEF Engage, IInv, TypeOK
  <2>2. CASE ~Engage
    BY <2>2 DEF Next, Reconcile, Cleanup, Kubernetes, engagement, workspace, platform, run,
       Engage, Disengage, TimerFires, EnsureHome, CreateDefault, CreateMarker, EnsureWebhook,
       EnsureNamespace, EnsureCluster, EnsureProvider, ReconcileRequest, HoldCluster,
       GrantRequest, ReleaseRequest, ReconcileAccess, ResolveAccess, EnsureAccess, EnsureGrants,
       Mint, Store, GrantAccess, DeleteAccess, ReleaseAccess, CallFails, CleanAccess,
       FreeCluster, CleanRequest, DropCluster, DropNamespace, AwaitNamespace, AwaitTimesOut,
       FinalizeControlPlane, CleanGrants, CleanAccounts, CleanHome, CleanupCallFails, Ask,
       Disconnect, Order, RemoveOrder, Leave, KcpDeletesBound, BindingGoes, CollectGarbage,
       HomeGoes, NamespaceGoes, Rebind, ControlPlaneReleased, ProviderAsks, DropsAccess,
       DropsRequest, Goto, Idle
  <2>3. QED
    BY <2>1, <2>2
<1>3. cleaner = "finalize" /\ entry = 0 => namespace' = "absent"
  <2>1. SUFFICES ASSUME cleaner = "finalize", entry = 0
                 PROVE  namespace' = "absent"
    OBVIOUS
  <2>2. namespace = "absent" /\ pc = "idle"
    BY <2>1 DEF IInv, Emptied, Running, Ordered
  <2>3. UNCHANGED namespace
    BY <2>1, <2>2, PlatformFrame DEF PlatformStep, platform, EnsureNamespace, EnsureCluster,
       EnsureProvider, ReconcileRequest, HoldCluster, GrantRequest, ReleaseRequest,
       ReconcileAccess, ResolveAccess, Store, GrantAccess, DeleteAccess, ReleaseAccess,
       CleanAccess, FreeCluster, CleanRequest, DropCluster, DropNamespace, CleanAccounts,
       CollectGarbage, NamespaceGoes, ProviderAsks, DropsAccess, DropsRequest, workspace
  <2>4. QED
    BY <2>2, <2>3
<1>4. QED
  BY <1>1, <1>2, <1>3 DEF Emptied

\* Services ordered after the answer do not count as orders before it.
LEMMA AnsweredStep ==
  ASSUME Answered, Next
  PROVE  Answered'
BY DEF Answered, Next, Reconcile, Cleanup, Kubernetes, engagement, workspace, platform, run,
   Engage, Disengage, TimerFires, EnsureHome, CreateDefault, CreateMarker, EnsureWebhook,
   EnsureNamespace, EnsureCluster, EnsureProvider, ReconcileRequest, HoldCluster, GrantRequest,
   ReleaseRequest, ReconcileAccess, ResolveAccess, EnsureAccess, EnsureGrants, Mint, Store,
   GrantAccess, DeleteAccess, ReleaseAccess, CallFails, CleanAccess, FreeCluster, CleanRequest,
   DropCluster, DropNamespace, AwaitNamespace, AwaitTimesOut, FinalizeControlPlane, CleanGrants,
   CleanAccounts, CleanHome, CleanupCallFails, Ask, Disconnect, Order, RemoveOrder, Leave,
   KcpDeletesBound, BindingGoes, CollectGarbage, HomeGoes, NamespaceGoes, Rebind,
   ControlPlaneReleased, ProviderAsks, DropsAccess, DropsRequest, Goto, Idle

-----------------------------------------------------------------------------
(* Access *)

\* The actions about AccessRequests.
AccessStep ==
  \/ ReconcileAccess
  \/ ResolveAccess
  \/ EnsureAccess
  \/ EnsureGrants
  \/ Mint
  \/ Store
  \/ GrantAccess
  \/ DeleteAccess
  \/ ReleaseAccess
  \/ CleanAccess
  \/ CleanGrants
  \/ CleanAccounts
  \/ CollectGarbage
  \/ NamespaceGoes
  \/ ProviderAsks
  \/ DropsAccess

\* The others leave it alone and take no step that grants or revokes something.
LEMMA AccessFrame ==
  Next => \/ AccessStep
          \/ /\ UNCHANGED <<grants, access, ar>>
             /\ \/ pc' = pc
                \/ pc' \in {"idle", "default", "marker", "webhook", "namespace", "cluster",
                            "provider", "requests", "holdCluster", "grantRequest",
                            "releaseRequest", "access"}
BY SMTT(60) DEF AccessStep, Next, Reconcile, Cleanup, Kubernetes, engagement, workspace,
   platform, run, Engage, Disengage, TimerFires, EnsureHome, CreateDefault, CreateMarker,
   EnsureWebhook, EnsureNamespace, EnsureCluster, EnsureProvider, ReconcileRequest, HoldCluster,
   GrantRequest, ReleaseRequest, CallFails, FreeCluster, CleanRequest, DropCluster,
   DropNamespace, AwaitNamespace, AwaitTimesOut, FinalizeControlPlane, CleanHome,
   CleanupCallFails, Ask, Disconnect, Order, RemoveOrder, Leave, KcpDeletesBound, BindingGoes,
   HomeGoes, Rebind, ControlPlaneReleased, DropsRequest, Goto, Idle

\* Access is granted to held AccessRequests and revoked before they are let go.
LEMMA GuardedStep ==
  ASSUME IInv, Next
  PROVE  Guarded'
<1>1. CASE ReconcileAccess
  BY <1>1 DEF ReconcileAccess, IInv, TypeOK, Guarded, Sound, Ending, ChangeAccess, AccessType,
     NoAccess, Deleted, Goto, Idle, run, workspace, platform
<1>2. CASE ResolveAccess
  BY <1>2 DEF ResolveAccess, IInv, TypeOK, Guarded, Sound, Ending, ChangeAccess, AccessType,
     NoAccess, Deleted, Goto, Idle, run, workspace, platform
<1>3. CASE EnsureAccess
  BY <1>3 DEF EnsureAccess, IInv, TypeOK, Guarded, Sound, Ending, ChangeAccess, AccessType,
     NoAccess, Deleted, Goto, Idle, run, workspace, platform
<1>4. CASE EnsureGrants
  BY <1>4 DEF EnsureGrants, IInv, TypeOK, Guarded, Sound, Ending, ChangeAccess, AccessType,
     NoAccess, Deleted, Goto, Idle, run, workspace, platform
<1>5. CASE Mint
  BY <1>5 DEF Mint, IInv, TypeOK, Guarded, Sound, Ending, ChangeAccess, AccessType, NoAccess,
     Deleted, Goto, Idle, run, workspace, platform
<1>6. CASE Store
  BY <1>6 DEF Store, IInv, TypeOK, Guarded, Sound, Ending, ChangeAccess, AccessType, NoAccess,
     Deleted, Goto, Idle, run, workspace, platform
<1>7. CASE GrantAccess
  BY <1>7 DEF GrantAccess, IInv, TypeOK, Guarded, Sound, Ending, ChangeAccess, AccessType,
     NoAccess, Deleted, Goto, Idle, run, workspace, platform
<1>8. CASE DeleteAccess
  BY <1>8 DEF DeleteAccess, IInv, TypeOK, Guarded, Sound, Ending, ChangeAccess, AccessType,
     NoAccess, Deleted, Goto, Idle, run, workspace, platform
<1>9. CASE ReleaseAccess
  BY <1>9 DEF ReleaseAccess, IInv, TypeOK, Guarded, Sound, Ending, ChangeAccess, AccessType,
     NoAccess, Deleted, Goto, Idle, run, workspace, platform
<1>10. CASE CleanAccess
  BY <1>10 DEF CleanAccess, IInv, TypeOK, Guarded, Sound, Ending, ChangeAccess, AccessType,
     NoAccess, Deleted, Goto, Idle, run, workspace, platform
<1>11. CASE CleanGrants
  BY <1>11 DEF CleanGrants, IInv, TypeOK, Guarded, Sound, Ending, ChangeAccess, AccessType,
     NoAccess, Deleted, Goto, Idle, run, workspace, platform
<1>12. CASE CleanAccounts
  BY <1>12 DEF CleanAccounts, IInv, TypeOK, Guarded, Sound, Ending, ChangeAccess, AccessType,
     NoAccess, Deleted, Goto, Idle, run, workspace, platform
<1>13. CASE CollectGarbage
  BY <1>13 DEF CollectGarbage, IInv, TypeOK, Guarded, Sound, Ending, ChangeAccess, AccessType,
     NoAccess, Deleted, Goto, Idle, run, workspace, platform
<1>14. CASE NamespaceGoes
  BY <1>14 DEF NamespaceGoes, IInv, TypeOK, Guarded, Sound, Ending, ChangeAccess, AccessType,
     NoAccess, Deleted, Goto, Idle, run, workspace, platform
<1>15. CASE ProviderAsks
  BY <1>15 DEF ProviderAsks, IInv, TypeOK, Guarded, Sound, Ending, ChangeAccess, AccessType,
     NoAccess, Deleted, Goto, Idle, run, workspace, platform
<1>16. CASE DropsAccess
  BY <1>16 DEF DropsAccess, IInv, TypeOK, Guarded, Sound, Ending, ChangeAccess, AccessType,
     NoAccess, Deleted, Goto, Idle, run, workspace, platform
<1>17. CASE ~AccessStep
  BY <1>17, AccessFrame DEF IInv, Guarded
<1>18. QED
  BY <1>1, <1>2, <1>3, <1>4, <1>5, <1>6, <1>7, <1>8, <1>9, <1>10, <1>11, <1>12, <1>13, <1>14,
     <1>15, <1>16, <1>17 DEF AccessStep

-----------------------------------------------------------------------------
(* Theorems *)

\* The invariant holds at the start,
LEMMA Initially == Init => IInv
<1> SUFFICES ASSUME Init
             PROVE  IInv
  OBVIOUS
<1>1. TypeOK
  <2>1. 0 \in 0..MaxEngagements /\ 0 \in 0..MaxEvents
    BY RuntimeAssumption
  <2>2. WorkspaceTyped
    BY DEF Init, WorkspaceTyped, States
  <2>3. WorkTyped
    BY <2>1, Zenon DEF Init, WorkTyped, Tokens, Steps
  <2>4. PlatformTyped
    BY DEF Init, PlatformTyped, Sound, States, ClusterType, NoCluster, RequestType, NoRequest,
           AccessType, NoAccess, Tokens
  <2>5. EngagementTyped
    <3>1. timers \in Seq(1..MaxEngagements)
      BY DEF Init
    <3>2. QED
      BY <2>1, <3>1, Zenon DEF Init, EngagementTyped
  <2>6. QED
    BY <2>2, <2>3, <2>4, <2>5, TypeParts
<1>2. Ordered
  <2>1. DOMAIN timers = {} /\ entry = 0 /\ engagements = 0 /\ ~engaged
    BY DEF Init
  <2>2. QED
    BY <2>1 DEF Ordered
<1>3. Running /\ Emptied /\ Guarded /\ Answered
  BY DEF Init, Running, Emptied, Guarded, Answered, NoCluster, NoRequest, NoAccess
<1>4. QED
  BY <1>1, <1>2, <1>3 DEF IInv

\* every step preserves it,
LEMMA Inductive == IInv /\ [Next]_vars => IInv'
<1> SUFFICES ASSUME IInv, [Next]_vars
             PROVE  IInv'
  OBVIOUS
<1>1. CASE Next
  <2>1. WorkspaceTyped /\ PlatformTyped /\ EngagementTyped /\ WorkTyped
    BY TypeParts DEF IInv
  <2>2. TypeOK'
    <3>1. WorkspaceTyped' /\ PlatformTyped' /\ EngagementTyped' /\ WorkTyped'
      BY <1>1, <2>1, WorkspaceType, PlatformType, EngagementStep, WorkType DEF IInv, WorkTyped
    <3>2. QED
      BY <3>1 DEF TypeOK, WorkspaceTyped, PlatformTyped, EngagementTyped, WorkTyped, Sound, Steps
  <2>3. Ordered' /\ Running' /\ Answered'
    BY <1>1, <2>1, EngagementStep, RunningStep, AnsweredStep DEF IInv
  <2>4. Emptied' /\ Guarded'
    BY <1>1, EmptiedStep, GuardedStep
  <2>5. QED
    BY <2>2, <2>3, <2>4 DEF IInv
<1>2. CASE UNCHANGED vars
  BY <1>2 DEF vars, IInv, TypeOK, Ordered, Running, Emptied, Guarded, Answered
<1>3. QED
  BY <1>1, <1>2

\* and so it holds always.
LEMMA Invariance == Spec => []IInv
BY Initially, Inductive, PTL DEF Spec

\* The variables of the runtime, its maps and the objects it works on keep their types,
\* and an object in deletion exists because of a finalizer.
THEOREM TypeCorrect == Spec => []TypeOK
<1>1. IInv => TypeOK
  BY DEF IInv
<1>2. QED
  BY <1>1, Invariance, PTL

\* An engaged workspace is in the maps, and no timer of an earlier engagement takes it
\* out (scheduleCleanup), for any number of engagements.
THEOREM KnownWhileEngagedAlways == Spec => []KnownWhileEngaged
<1>1. IInv => KnownWhileEngaged
  <2>1. SUFFICES ASSUME IInv, engaged
                 PROVE  entry > 0 /\ \A i \in DOMAIN timers : timers[i] # entry
    BY DEF KnownWhileEngaged
  <2>2. \A i \in DOMAIN timers : timers[i] \in Nat
    BY <2>1, RuntimeAssumption DEF IInv, TypeOK
  <2>3. QED
    BY <2>1, <2>2 DEF IInv, Ordered, TypeOK
<1>2. QED
  BY <1>1, Invariance, PTL

\* An AccessRequest goes when the runtime releases it or because it never held it.
LEMMA ArGoes ==
  ASSUME IInv, Next, cleaner # "access", ar.state # "absent", ar'.state = "absent"
  PROVE  ~grants /\ ~access
<1>1. ReleaseAccess \/ (~ar.held)
  <2>1. CASE ReconcileAccess
    BY <2>1 DEF ReconcileAccess, IInv, TypeOK, AccessType
  <2>2. CASE ResolveAccess
    BY <2>2 DEF ResolveAccess, IInv, TypeOK, AccessType
  <2>3. CASE GrantAccess
    BY <2>3 DEF GrantAccess, IInv, TypeOK, AccessType
  <2>4. CASE CleanAccess
    BY <2>4 DEF CleanAccess
  <2>5. CASE NamespaceGoes
    BY <2>5 DEF NamespaceGoes, IInv, TypeOK, AccessType, Deleted, ChangeAccess
  <2>6. CASE ProviderAsks
    BY <2>6 DEF ProviderAsks
  <2>7. CASE DropsAccess
    BY <2>7 DEF DropsAccess, IInv, TypeOK, AccessType, Deleted, ChangeAccess
  <2>8. CASE \/ EnsureAccess \/ EnsureGrants \/ Mint \/ Store \/ DeleteAccess
             \/ CleanGrants \/ CleanAccounts \/ CollectGarbage \/ ~AccessStep
    BY <2>8, AccessFrame DEF EnsureAccess, EnsureGrants, Mint, Store, DeleteAccess, CleanGrants,
       CleanAccounts, CollectGarbage, platform
  <2>9. QED
    BY <2>1, <2>2, <2>3, <2>4, <2>5, <2>6, <2>7, <2>8 DEF AccessStep
<1>2. QED
  BY <1>1 DEF ReleaseAccess, IInv, Guarded

\* The runtime revokes what an AccessRequest granted before it lets it go
\* (reconcileAccessRequests).
THEOREM RevokedBeforeReleasedAlways == Spec => RevokedBeforeReleased
<1>1. IInv /\ [Next]_vars =>
        [engaged /\ cleaner \in {"idle", "failed"} /\ ar.state # "absent" /\ ar'.state = "absent"
           => ~grants /\ ~access]_vars
  BY ArGoes
<1>2. QED
  BY <1>1, Invariance, PTL DEF Spec, RevokedBeforeReleased

\* ControlPlanes are finalized when no object of the platform is left
\* (finalizeWorkspaceControlPlanes), whatever fails and however often the workspace is
\* engaged.
THEOREM PlatformFirstAlways == Spec => PlatformFirst
<1>1. IInv /\ [Next]_vars =>
        [entry = 0 /\ cp = "deleting" /\ cp' = "absent"
           => cr.state = "absent" /\ ar.state = "absent" /\ cluster.state = "absent"]_vars
  <2>1. SUFFICES ASSUME IInv, Next, entry = 0, cp = "deleting", cp' = "absent"
                 PROVE  cr.state = "absent" /\ ar.state = "absent" /\ cluster.state = "absent"
    OBVIOUS
  <2>2. ControlPlaneReleased \/ FinalizeControlPlane
    BY <2>1, WorkspaceFrame DEF WorkspaceStep, workspace, Ending, EnsureHome, CreateDefault,
       CreateMarker, EnsureWebhook, ReconcileAccess, EnsureAccess, EnsureGrants, DeleteAccess,
       ReleaseAccess, CleanAccess, CleanGrants, CleanAccounts, CleanHome, Disconnect, Order,
       RemoveOrder, Leave, KcpDeletesBound, BindingGoes, CollectGarbage, Rebind, HomeGoes,
       NamespaceGoes, DropsAccess
  <2>3. ~engaged
    BY <2>1 DEF IInv, Ordered
  <2>4. cleaner = "finalize"
    BY <2>2, <2>3 DEF ControlPlaneReleased, FinalizeControlPlane
  <2>5. QED
    BY <2>1, <2>4 DEF IInv, Emptied
<1>2. QED
  BY <1>1, Invariance, PTL DEF Spec, PlatformFirst

\* With the webhook no workspace with services ordered before is disconnected
\* (Handler.Handle and Inspector.Check).
THEOREM OrdersStayConnectedAlways == Spec => OrdersStayConnected
<1>1. IInv /\ [Next]_vars =>
        [webhook /\ binding = "active" /\ binding' = "deleting" /\ ~leaving
           => orders # "before"]_vars
  <2>1. SUFFICES ASSUME IInv, Next, webhook, binding = "active", binding' = "deleting", ~leaving
                 PROVE  orders # "before"
    OBVIOUS
  <2>2. Disconnect
    BY <2>1, WorkspaceFrame DEF WorkspaceStep, workspace, EnsureHome, CreateDefault,
       CreateMarker, EnsureWebhook, ReconcileAccess, EnsureAccess, EnsureGrants, DeleteAccess,
       ReleaseAccess, CleanAccess, FinalizeControlPlane, CleanGrants, CleanAccounts, CleanHome,
       Order, RemoveOrder, Leave, KcpDeletesBound, BindingGoes, CollectGarbage, Rebind,
       HomeGoes, NamespaceGoes, ControlPlaneReleased, DropsAccess
  <2>3. asked
    BY <2>1, <2>2 DEF Disconnect
  <2>4. QED
    BY <2>1, <2>3 DEF IInv, Answered
<1>2. QED
  BY <1>1, Invariance, PTL DEF Spec, OrdersStayConnected

=============================================================================

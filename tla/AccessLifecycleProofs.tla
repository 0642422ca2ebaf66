------------------------ MODULE AccessLifecycleProofs ------------------------
(***************************************************************************)
(* Theorems about the access library and the AccessRequest controller, for *)
(* any number of registrations, of AccessRequests with a TTL and of        *)
(* updates, failing calls and restarts.                                    *)
(***************************************************************************)
EXTENDS AccessLifecycle, TLAPS

-----------------------------------------------------------------------------
(* The inductive invariant *)

\* The conjuncts of TypeOK, by who changes the variables, and what the workers work
\* on.
OwnerTyped ==
  /\ owner \in {"live", "deleting", "gone"}
  /\ first \in BOOLEAN
  /\ wanted \subseteq Registrations
  /\ config \in [Registrations -> Nat]
  /\ expired \subseteq Timed
  /\ events \in 0..MaxEvents

RequestsTyped ==
  /\ namespace \in BOOLEAN
  /\ cr \in [Registrations -> RequestType]
  /\ ar \in [Names -> AccessType]
  /\ \A x \in Names : ar[x].state = "absent" => ar[x] = NoAccess
  /\ provided \in [Names -> Nat]

InRegistration ==
  {"request", "access", "getAccess", "deleteAccess", "releaseAccess", "getRequest",
   "deleteRequest", "releaseRequest"}

LibraryTyped ==
  /\ queued \in BOOLEAN
  /\ pc \in {"idle", "visit", "finalize"} \cup InRegistration
  /\ pc \in InRegistration => at \in Registrations
  /\ call \in {"Reconcile", "ReconcileDelete"}
  /\ copy \in {"live", "deleting"}
  /\ marked \in BOOLEAN
  /\ todo \subseteq Registrations
  /\ at \in Registrations \cup {"none"}
  /\ seen \subseteq {Finalizer, "scheduler", "provider"}
  /\ again \in BOOLEAN

ControllerTyped ==
  /\ arQueue \subseteq Names
  /\ arPc \in {"idle", "delete", "label", "status"}
  /\ arPc # "idle" => arAt \in Names
  /\ arAt \in Names \cup {"none"}
  /\ arCopy \in AccessType
  /\ arFailed \in BOOLEAN
  /\ timers \subseteq Timed

TypeInv == OwnerTyped /\ RequestsTyped /\ LibraryTyped /\ ControllerTyped

Gone(r) ==
  /\ r \in wanted => ar[r].state = "absent"
  /\ r \in Own => cr[r].state = "absent"

\* What is known while an owner's registrations are taken down, one after the other.
\* The AccessRequest of the current one is in deletion when its finalizer is removed,
\* and gone when its ClusterRequest has its turn, if its access is wanted.
Ordered ==
  /\ pc \in {"idle", "request", "access"} => call = "Reconcile"
  /\ pc \in {"getRequest", "deleteRequest", "releaseRequest"} =>
       call = "ReconcileDelete" /\ (at \in wanted => ar[at].state = "absent")
  /\ pc = "releaseAccess" => ar[at].state # "active"
  /\ pc = "releaseRequest" => cr[at].state # "active"

\* What ReconcileDelete has visited is gone, unless it asks for a requeue.
Visited ==
  call = "ReconcileDelete" /\ ~again =>
    \A r \in Registrations \ todo : (pc \in InRegistration /\ r = at) \/ Gone(r)

\* The controller lets its object go at the end of such a ReconcileDelete, and never
\* touches it again.
Finished ==
  /\ pc = "finalize" => call = "ReconcileDelete" /\ ~again /\ todo = {}
  /\ owner = "gone" => pc = "idle" /\ \A r \in Registrations : Gone(r)

TearDown == Ordered /\ Visited /\ Finished

IInv == TypeInv /\ TearDown

-----------------------------------------------------------------------------
(* Types *)

\* The parts make up TypeOK.
LEMMA TypeParts == TypeInv => TypeOK
BY DEF TypeInv, TypeOK, OwnerTyped, RequestsTyped, LibraryTyped, ControllerTyped, InRegistration

\* The initial values have the types.
LEMMA TypeInit == Init => TypeInv
<1>. SUFFICES ASSUME Init
              PROVE  TypeInv
  OBVIOUS
<1>1. OwnerTyped
  BY AccessAssumption DEF Init, OwnerTyped
<1>2. RequestsTyped
  <2>1. NoAccess \in AccessType
    BY DEF NoAccess, AccessType, States
  <2>2. \A r \in Registrations : Registered(r) \in RequestType
    BY DEF Registered, RequestType, NoRequest, States
  <2>3. QED
    BY <2>1, <2>2 DEF Init, RequestsTyped
<1>3. LibraryTyped
  BY DEF Init, LibraryTyped, InRegistration
<1>4. ControllerTyped
  BY DEF Init, ControllerTyped, NoAccess, AccessType, States
<1>5. QED
  BY <1>1, <1>2, <1>3, <1>4 DEF TypeInv

\* A value of an AccessRequest.
Proper(a) == a \in AccessType /\ (a.state = "absent" => a = NoAccess)

\* The updates of an AccessRequest that change its generation give another one.
LEMMA AccessUpdates ==
  ASSUME NEW a \in AccessType, NEW v \in Nat
  PROVE  /\ [a EXCEPT !.state = "deleting", !.generation = @ + 1] \in AccessType
         /\ [a EXCEPT !.version = v, !.generation = @ + 1] \in AccessType
         /\ [a EXCEPT !.labelled = TRUE, !.generation = @ + 1] \in AccessType
<1>1. a.generation \in Nat
  BY DEF AccessType
<1>2. a.generation + 1 \in Nat
  BY <1>1
<1>3. \A g \in Nat : [a EXCEPT !.state = "deleting", !.generation = g] \in AccessType
  BY DEF AccessType, States
<1>4. \A g \in Nat : [a EXCEPT !.version = v, !.generation = g] \in AccessType
  BY DEF AccessType
<1>5. \A g \in Nat : [a EXCEPT !.labelled = TRUE, !.generation = g] \in AccessType
  BY DEF AccessType
<1>6. QED
  BY <1>2, <1>3, <1>4, <1>5

\* What the API server and the library make of an AccessRequest is one.
LEMMA AccessOperations ==
  ASSUME NEW a, Proper(a), NEW fins
  PROVE  /\ Proper(Deleted(a)) /\ Deleted(a).state # "active"
         /\ a.state = "absent" => Deleted(a).state = "absent"
         /\ a.state # "absent" =>
              /\ Proper(Without(a, fins, NoAccess))
              /\ Without(a, fins, NoAccess).state \in {a.state, "absent"}
         /\ a.state = "deleting" => Without(a, a.finalizers, NoAccess) = NoAccess
<1>1. a.finalizers \subseteq {Finalizer, "provider"} /\ a.state \in States
  BY DEF Proper, AccessType
<1>2. NoAccess \in AccessType /\ NoAccess.state = "absent" /\ NoAccess.finalizers = {}
  BY DEF NoAccess, AccessType, States
<1>3. [a EXCEPT !.state = "deleting", !.generation = @ + 1] \in AccessType
  BY AccessUpdates, 0 \in Nat DEF Proper
<1>4. /\ Proper(Deleted(a)) /\ Deleted(a).state # "active"
      /\ a.state = "absent" => Deleted(a).state = "absent"
  BY <1>1, <1>2, <1>3 DEF Deleted, Proper, AccessType, States
<1>5. ASSUME a.state # "absent"
      PROVE  /\ Proper(Without(a, fins, NoAccess))
             /\ Without(a, fins, NoAccess).state \in {a.state, "absent"}
  <2>1. [a EXCEPT !.finalizers = a.finalizers \ fins] \in AccessType
    BY <1>1 DEF Proper, AccessType
  <2>2. [a EXCEPT !.finalizers = a.finalizers \ fins].state = a.state
    BY DEF Proper, AccessType
  <2>3. QED
    BY <1>2, <1>5, <2>1, <2>2 DEF Without, Proper
<1>6. a.state = "deleting" => Without(a, a.finalizers, NoAccess) = NoAccess
  BY DEF Without
<1>7. QED
  BY <1>4, <1>5, <1>6

\* A new AccessRequest.
LEMMA NewAccessOperation ==
  ASSUME NEW fins \in SUBSET {Finalizer, "provider"}, NEW v \in Nat
  PROVE  Proper(NewAccess(fins, v))
BY DEF Proper, NewAccess, NoAccess, AccessType, States

\* The event filter adds at most the AccessRequest that has changed.
LEMMA NotifyType == \A x, a : Notify(x, a) \subseteq arQueue \cup {x}
BY DEF Notify

\* AccessRequest x becomes a.  Nobody but the library makes one of a registration.
Changes(x, a) ==
  /\ ar' = [ar EXCEPT ![x] = a]
  /\ Proper(a)
  /\ x \in Registrations /\ pc # "access" =>
       /\ ar[x].state # "active" => a.state # "active"
       /\ ar[x].state = "absent" => a.state = "absent"


\* The API calls on AccessRequests, each of which changes one of them.
LEMMA AccessChange ==
  ASSUME TypeInv, Next
  PROVE  UNCHANGED ar \/ \E x \in Names, a \in AccessType : Changes(x, a)
<1>. DEFINE Change == UNCHANGED ar \/ \E x \in Names, a \in AccessType : Changes(x, a)
<1>1. \A x \in Names : Proper(ar[x])
  BY DEF TypeInv, RequestsTyped, Proper
<1>2. ASSUME NEW x \in Names, NEW a, Changes(x, a)
      PROVE  Change
  BY <1>2 DEF Changes, Proper
<1>3. Registrations \subseteq Names /\ Timed \subseteq Names
  BY DEF Names
<1>. HIDE DEF Change
<1>4. CASE EnsureAccess
  <2>1. at \in Registrations /\ config[at] \in Nat
    BY <1>4 DEF EnsureAccess, TypeInv, LibraryTyped, OwnerTyped, InRegistration
  <2>. DEFINE a == ar[at]
              newer == IF a.version = config[at] THEN a
                       ELSE [a EXCEPT !.version = config[at], !.generation = @ + 1]
  <2>2. \/ UNCHANGED ar
        \/ ar' = [ar EXCEPT ![at] = NewAccess({Finalizer}, config[at])]
        \/ a.state = "active" /\ ar' = [ar EXCEPT ![at] = newer]
    BY <1>4, Zenon DEF EnsureAccess, ChangeAccess
  <2>3. Proper(NewAccess({Finalizer}, config[at]))
    BY <2>1, NewAccessOperation
  <2>4. ASSUME a.state = "active"
        PROVE  Proper(newer)
    <3>1. a \in AccessType
      BY <1>1, <1>3, <2>1 DEF Proper
    <3>2. [a EXCEPT !.version = config[at], !.generation = @ + 1] \in AccessType
      BY <2>1, <3>1, AccessUpdates
    <3>3. [a EXCEPT !.version = config[at], !.generation = @ + 1].state = a.state
      BY <3>1 DEF AccessType
    <3>4. QED
      BY <2>4, <3>1, <3>2, <3>3 DEF Proper
  <2>5. pc = "access"
    BY <1>4 DEF EnsureAccess
  <2>6. QED
    BY <1>2, <1>3, <2>1, <2>2, <2>3, <2>4, <2>5 DEF Changes, Change
<1>5. CASE DeleteAccess
  <2>1. at \in Registrations /\ ar' = [ar EXCEPT ![at] = Deleted(ar[at])]
    BY <1>5 DEF DeleteAccess, ChangeAccess, TypeInv, LibraryTyped, InRegistration
  <2>2. Changes(at, Deleted(ar[at]))
    BY <1>1, <1>3, <2>1, AccessOperations DEF Changes
  <2>3. QED
    BY <1>2, <1>3, <2>1, <2>2 DEF Change
<1>6. CASE ReleaseAccess
  <2>1. at \in Registrations
    BY <1>6 DEF ReleaseAccess, TypeInv, LibraryTyped, InRegistration
  <2>2. \/ UNCHANGED ar
        \/ ar' = [ar EXCEPT ![at] = Without(ar[at], ar[at].finalizers, NoAccess)]
    BY <1>6 DEF ReleaseAccess
  <2>. DEFINE b == Without(ar[at], ar[at].finalizers, NoAccess)
  <2>3. CASE ar[at].state = "absent"
    <3>1. ar[at] = NoAccess
      BY <1>1, <1>3, <2>1, <2>3 DEF Proper
    <3>2. b = NoAccess
      <4>1. /\ NoAccess.finalizers = {} /\ NoAccess.finalizers \ NoAccess.finalizers = {}
            /\ NoAccess.state # "deleting"
        BY DEF NoAccess
      <4>2. \A a \in AccessType : [a EXCEPT !.finalizers = a.finalizers] = a
        BY DEF AccessType
      <4>3. NoAccess \in AccessType
        BY DEF NoAccess, AccessType, States
      <4>4. [NoAccess EXCEPT !.finalizers = {}] = NoAccess
        BY <4>1, <4>2, <4>3
      <4>5. QED
        BY <3>1, <4>1, <4>4 DEF Without
    <3>3. Proper(NoAccess) /\ NoAccess.state = "absent"
      BY DEF Proper, NoAccess, AccessType, States
    <3>4. QED
      BY <1>2, <1>3, <2>1, <2>2, <2>3, <3>2, <3>3 DEF Changes, Change
  <2>4. CASE ar[at].state # "absent"
    <3>1. Proper(b) /\ b.state \in {ar[at].state, "absent"}
      BY <1>1, <1>3, <2>1, <2>4, AccessOperations
    <3>2. QED
      BY <1>2, <1>3, <2>1, <2>2, <2>4, <3>1 DEF Changes, Change
  <2>5. QED
    BY <2>3, <2>4
<1>7. CASE ArDelete
  <2>1. arAt \in Names /\ ar' = [ar EXCEPT ![arAt] = Deleted(ar[arAt])]
    BY <1>7 DEF ArDelete, TypeInv, ControllerTyped
  <2>2. Changes(arAt, Deleted(ar[arAt]))
    BY <1>1, <2>1, AccessOperations DEF Changes
  <2>3. QED
    BY <1>2, <2>1, <2>2 DEF Change
<1>8. CASE ArLabel
  <2>1. arAt \in Names
    BY <1>8 DEF ArLabel, TypeInv, ControllerTyped
  <2>. DEFINE a == [ar[arAt] EXCEPT !.labelled = TRUE, !.generation = @ + 1]
  <2>2. \/ UNCHANGED ar
        \/ ar[arAt].state # "absent" /\ ar' = [ar EXCEPT ![arAt] = a]
    BY <1>8, Zenon DEF ArLabel, ChangeAccess
  <2>3. ar[arAt] \in AccessType
    BY <1>1, <2>1 DEF Proper
  <2>4. a \in AccessType
    BY <2>3, AccessUpdates, 0 \in Nat
  <2>5. a.state = ar[arAt].state
    BY <2>3 DEF AccessType
  <2>6. QED
    BY <1>1, <1>2, <2>1, <2>2, <2>4, <2>5 DEF Changes, Change, Proper
<1>9. CASE ArStatus
  <2>1. arAt \in Names /\ arCopy \in AccessType
    BY <1>9 DEF ArStatus, TypeInv, ControllerTyped
  <2>. DEFINE phase == IF arCopy.phase = "Pending" THEN ar[arAt].phase ELSE "Pending"
              observed == IF arCopy.observed = arCopy.generation THEN ar[arAt].observed
                                                                 ELSE arCopy.generation
              a == [ar[arAt] EXCEPT !.phase = phase, !.observed = observed]
  <2>2. \/ UNCHANGED ar
        \/ ar[arAt].state # "absent" /\ ar' = [ar EXCEPT ![arAt] = a]
    BY <1>9, <2>1 DEF ArStatus, TypeInv, RequestsTyped
  <2>3. a \in AccessType /\ a.state = ar[arAt].state
    BY <1>1, <2>1 DEF Proper, AccessType
  <2>4. QED
    BY <1>1, <1>2, <2>1, <2>2, <2>3 DEF Changes, Change, Proper
<1>10. CASE \E x \in Timed : UserAsks(x)
  <2>1. PICK x \in Timed : UserAsks(x)
    BY <1>10
  <2>2. ar' = [ar EXCEPT ![x] = NewAccess({}, 1)]
    BY <2>1 DEF UserAsks, ChangeAccess
  <2>3. Changes(x, NewAccess({}, 1))
    BY <2>1, <2>2, NewAccessOperation, AccessAssumption DEF Changes
  <2>4. QED
    BY <1>2, <1>3, <2>1, <2>3 DEF Change
<1>11. CASE \E x \in Names : ProviderStep(x)
  <2>1. PICK x \in Names : ProviderStep(x)
    BY <1>11
  <2>2. CASE ProviderAdopts(x)
    <3>1. ar' = [ar EXCEPT ![x] = [ar[x] EXCEPT !.finalizers = @ \cup {"provider"}]]
      BY <2>2 DEF ProviderAdopts, TypeInv, RequestsTyped
    <3>2. ar[x].state = "active" /\ Proper([ar[x] EXCEPT !.finalizers = @ \cup {"provider"}])
      BY <1>1, <2>2 DEF ProviderAdopts, Proper, AccessType
    <3>3. QED
      BY <1>2, <3>1, <3>2 DEF Changes, Change
  <2>3. CASE ProviderGrants(x)
    <3>. DEFINE a == [ar[x] EXCEPT !.phase = "Granted", !.observed = ar[x].generation]
    <3>1. ar' = [ar EXCEPT ![x] = a]
      BY <2>3 DEF ProviderGrants, TypeInv, RequestsTyped
    <3>2. ar[x].state = "active" /\ Proper(a)
      BY <1>1, <2>3 DEF ProviderGrants, Proper, AccessType
    <3>3. QED
      BY <1>2, <3>1, <3>2 DEF Changes, Change
  <2>4. CASE ProviderRevokes(x)
    <3>1. /\ ar[x].state = "deleting"
          /\ ar' = [ar EXCEPT ![x] = Without(ar[x], {"provider"}, NoAccess)]
      BY <2>4 DEF ProviderRevokes
    <3>2. Changes(x, Without(ar[x], {"provider"}, NoAccess))
      BY <1>1, <3>1, AccessOperations DEF Changes
    <3>3. QED
      BY <1>2, <3>2 DEF Change
  <2>5. QED
    BY <2>1, <2>2, <2>3, <2>4 DEF ProviderStep
<1>12. CASE UNCHANGED ar
  BY <1>12 DEF Change
<1>13. UNCHANGED ar
         \/ EnsureAccess \/ DeleteAccess \/ ReleaseAccess \/ ArDelete \/ ArLabel \/ ArStatus
         \/ (\E x \in Timed : UserAsks(x)) \/ (\E x \in Names : ProviderStep(x))
  BY DEF Next, LibraryStep, ControllerStep, SchedulerStep, requests, SchedulerAdopts,
     SchedulerGrants, SchedulerReleases, Visit, UpdateRegistration, ArRead, ArTimer, Expire,
     Dequeue, EnsureRequest, GetAccess, GetRequest, DeleteRequest, ReleaseRequest, Reconciled,
     DeleteReconciled, Finalize, CallFails, Restart, ArCallFails, ArStatusFails, ArRestart,
     DeleteOwner
<1>14. QED
  BY <1>4, <1>5, <1>6, <1>7, <1>8, <1>9, <1>10, <1>11, <1>12, <1>13 DEF Change


\* ClusterRequest r becomes c.  Nobody but the library makes one, or deletes one.
ChangesRequest(r, c) ==
  /\ cr' = [cr EXCEPT ![r] = c]
  /\ c \in RequestType
  /\ pc # "request" /\ cr[r].state # "active" => c.state # "active"
  /\ pc # "request" /\ ~(pc = "deleteRequest" /\ r = at) /\ cr[r].state = "absent" =>
       c.state = "absent"
  /\ cr[r].state = "active" /\ c.state # "active" =>
       r = at /\ pc \in {"deleteRequest", "releaseRequest"}

\* What is left of a ClusterRequest without some of its finalizers.
LEMMA RequestOperations ==
  ASSUME NEW c \in RequestType, NEW fins
  PROVE  /\ Without(c, fins, NoRequest) \in RequestType
         /\ Without(c, fins, NoRequest).state \in {c.state, "absent"}
         /\ c.state = "deleting" => Without(c, c.finalizers, NoRequest) = NoRequest
<1>1. NoRequest \in RequestType /\ NoRequest.state = "absent"
  BY DEF NoRequest, RequestType, States
<1>2. /\ [c EXCEPT !.finalizers = c.finalizers \ fins] \in RequestType
      /\ [c EXCEPT !.finalizers = c.finalizers \ fins].state = c.state
  BY DEF RequestType
<1>3. /\ Without(c, fins, NoRequest) \in RequestType
      /\ Without(c, fins, NoRequest).state \in {c.state, "absent"}
  BY <1>1, <1>2 DEF Without
<1>4. c.state = "deleting" => Without(c, c.finalizers, NoRequest) = NoRequest
  BY DEF Without
<1>5. QED
  BY <1>3, <1>4

\* The API calls on ClusterRequests, each of which changes one of them.
LEMMA RequestChange ==
  ASSUME TypeInv, Next
  PROVE  UNCHANGED cr \/ \E r \in Registrations, c \in RequestType : ChangesRequest(r, c)
<1>. DEFINE Change ==
              UNCHANGED cr \/ \E r \in Registrations, c \in RequestType : ChangesRequest(r, c)
<1>1. cr \in [Registrations -> RequestType]
  BY DEF TypeInv, RequestsTyped
<1>2. ASSUME NEW r \in Registrations, NEW c, ChangesRequest(r, c)
      PROVE  Change
  BY <1>2 DEF ChangesRequest
<1>. HIDE DEF Change
<1>3. CASE EnsureRequest
  <2>1. at \in Registrations /\ pc = "request"
    BY <1>3 DEF EnsureRequest, TypeInv, LibraryTyped, InRegistration
  <2>. DEFINE c == [NoRequest EXCEPT !.state = "active", !.finalizers = {Finalizer}]
  <2>2. UNCHANGED cr \/ cr' = [cr EXCEPT ![at] = c]
    BY <1>3 DEF EnsureRequest
  <2>3. c \in RequestType /\ c.state = "active"
    BY DEF NoRequest, RequestType, States
  <2>4. QED
    BY <1>2, <2>1, <2>2, <2>3 DEF ChangesRequest, Change
<1>4. CASE DeleteRequest
  <2>1. at \in Registrations /\ pc = "deleteRequest"
    BY <1>4 DEF DeleteRequest, TypeInv, LibraryTyped, InRegistration
  <2>. DEFINE c == [cr[at] EXCEPT !.state = "deleting"]
  <2>2. cr' = [cr EXCEPT ![at] = c]
    BY <1>1, <1>4, <2>1 DEF DeleteRequest
  <2>3. cr[at] \in RequestType
    BY <1>1, <2>1
  <2>4. c \in RequestType /\ c.state = "deleting"
    BY <2>3 DEF RequestType, States
  <2>5. QED
    BY <1>2, <2>1, <2>2, <2>4 DEF ChangesRequest
<1>5. CASE ReleaseRequest
  <2>1. at \in Registrations /\ pc = "releaseRequest"
    BY <1>5 DEF ReleaseRequest, TypeInv, LibraryTyped, InRegistration
  <2>. DEFINE c == Without(cr[at], cr[at].finalizers, NoRequest)
  <2>2. UNCHANGED cr \/ cr' = [cr EXCEPT ![at] = c]
    BY <1>5 DEF ReleaseRequest
  <2>3. c \in RequestType /\ c.state \in {cr[at].state, "absent"}
    BY <1>1, <2>1, RequestOperations
  <2>4. QED
    BY <1>2, <2>1, <2>2, <2>3 DEF ChangesRequest, Change
<1>6. CASE \E r \in Registrations : SchedulerStep(r)
  <2>1. PICK r \in Registrations : SchedulerStep(r)
    BY <1>6
  <2>2. cr[r] \in RequestType
    BY <1>1
  <2>3. CASE SchedulerAdopts(r)
    <3>. DEFINE c == [cr[r] EXCEPT !.finalizers = cr[r].finalizers \cup {"scheduler"}]
    <3>1. cr[r].state = "active" /\ cr' = [cr EXCEPT ![r] = c]
      BY <1>1, <2>3 DEF SchedulerAdopts
    <3>2. c \in RequestType /\ c.state = cr[r].state
      BY <2>2 DEF RequestType
    <3>3. QED
      BY <1>2, <3>1, <3>2 DEF ChangesRequest
  <2>4. CASE SchedulerGrants(r)
    <3>. DEFINE c == [cr[r] EXCEPT !.granted = TRUE]
    <3>1. cr[r].state = "active" /\ cr' = [cr EXCEPT ![r] = c]
      BY <1>1, <2>4 DEF SchedulerGrants
    <3>2. c \in RequestType /\ c.state = cr[r].state
      BY <2>2 DEF RequestType
    <3>3. QED
      BY <1>2, <3>1, <3>2 DEF ChangesRequest
  <2>5. CASE SchedulerReleases(r)
    <3>. DEFINE c == Without(cr[r], {"scheduler"}, NoRequest)
    <3>1. cr[r].state = "deleting" /\ cr' = [cr EXCEPT ![r] = c]
      BY <2>5 DEF SchedulerReleases
    <3>2. c \in RequestType /\ c.state \in {"deleting", "absent"}
      BY <2>2, <3>1, RequestOperations
    <3>3. QED
      BY <1>2, <3>1, <3>2 DEF ChangesRequest
  <2>6. QED
    BY <2>1, <2>3, <2>4, <2>5 DEF SchedulerStep
<1>7. CASE UNCHANGED cr
  BY <1>7 DEF Change
<1>8. UNCHANGED cr \/ EnsureRequest \/ DeleteRequest \/ ReleaseRequest
        \/ \E r \in Registrations : SchedulerStep(r)
  BY DEF Next, LibraryStep, ControllerStep, ProviderStep, requests, Dequeue, Visit,
     EnsureAccess, GetAccess, DeleteAccess, ReleaseAccess, GetRequest, Reconciled,
     DeleteReconciled, Finalize, CallFails, Restart, ArRead, ArDelete, ArLabel, ArStatus,
     ArTimer, ArCallFails, ArStatusFails, ArRestart, UpdateRegistration, DeleteOwner, UserAsks,
     Expire, ProviderAdopts, ProviderGrants, ProviderRevokes
<1>9. QED
  BY <1>3, <1>4, <1>5, <1>6, <1>7, <1>8 DEF Change

\* The requests keep their types.
LEMMA RequestsKeepTypes == TypeInv /\ [Next]_vars => RequestsTyped'
<1>. SUFFICES ASSUME TypeInv, [Next]_vars
              PROVE  RequestsTyped'
  OBVIOUS
<1>1. CASE UNCHANGED vars
  BY <1>1 DEF vars, TypeInv, RequestsTyped
<1>2. CASE Next
  <2>1. /\ ar' \in [Names -> AccessType]
        /\ \A x \in Names : ar'[x].state = "absent" => ar'[x] = NoAccess
    BY <1>2, AccessChange DEF TypeInv, RequestsTyped, Changes, Proper
  <2>2. cr' \in [Registrations -> RequestType]
    BY <1>2, RequestChange DEF TypeInv, RequestsTyped, ChangesRequest
  <2>3. namespace' \in BOOLEAN
    <3>1. UNCHANGED namespace \/ \E r \in Registrations : Visit(r)
      BY <1>2 DEF Next, LibraryStep, ControllerStep, ProviderStep, SchedulerStep, requests,
         Dequeue, EnsureRequest, EnsureAccess, GetAccess, DeleteAccess, ReleaseAccess,
         GetRequest, DeleteRequest, ReleaseRequest, Reconciled, DeleteReconciled, Finalize,
         CallFails, Restart, ArRead, ArDelete, ArLabel, ArStatus, ArTimer, ArCallFails,
         ArStatusFails, ArRestart, UpdateRegistration, DeleteOwner, UserAsks, Expire,
         ProviderAdopts, ProviderGrants, ProviderRevokes, SchedulerAdopts, SchedulerGrants,
         SchedulerReleases
    <3>2. ASSUME NEW r \in Registrations, Visit(r)
          PROVE  namespace' \in BOOLEAN
      <4>1. namespace' = namespace \/ namespace' = (namespace \/ call = "Reconcile")
        BY <3>2, Zenon DEF Visit
      <4>2. namespace \in BOOLEAN
        BY DEF TypeInv, RequestsTyped
      <4>3. QED
        BY <4>1, <4>2
    <3>3. QED
      BY <3>1, <3>2 DEF TypeInv, RequestsTyped
  <2>4. provided' \in [Names -> Nat]
    <3>1. UNCHANGED provided \/ \E x \in Names : ProviderGrants(x) \/ ProviderRevokes(x)
      BY <1>2 DEF Next, LibraryStep, ControllerStep, ProviderStep, SchedulerStep, requests,
         Dequeue, Visit, EnsureRequest, EnsureAccess, GetAccess, DeleteAccess, ReleaseAccess,
         GetRequest, DeleteRequest, ReleaseRequest, Reconciled, DeleteReconciled, Finalize,
         CallFails, Restart, ArRead, ArDelete, ArLabel, ArStatus, ArTimer, ArCallFails,
         ArStatusFails, ArRestart, UpdateRegistration, DeleteOwner, UserAsks, Expire,
         ProviderAdopts, SchedulerAdopts, SchedulerGrants, SchedulerReleases
    <3>2. ASSUME NEW x \in Names, ProviderGrants(x) \/ ProviderRevokes(x)
          PROVE  provided' \in [Names -> Nat]
      <4>1. ar[x].version \in Nat
        BY DEF TypeInv, RequestsTyped, AccessType
      <4>2. QED
        BY <3>2, <4>1, 0 \in Nat DEF ProviderGrants, ProviderRevokes, TypeInv, RequestsTyped
    <3>3. QED
      BY <3>1, <3>2 DEF TypeInv, RequestsTyped
  <2>5. QED
    BY <2>1, <2>2, <2>3, <2>4 DEF RequestsTyped
<1>3. QED
  BY <1>1, <1>2

\* The owner and what is configured for it keep their types.
LEMMA OwnerKeepsTypes == TypeInv /\ [Next]_vars => OwnerTyped'
<1>. SUFFICES ASSUME TypeInv, [Next]_vars
              PROVE  OwnerTyped'
  OBVIOUS
<1>. DEFINE ownerVars == <<owner, first, wanted, config, expired, events>>
<1>1. OwnerTyped
  BY DEF TypeInv
<1>2. CASE UNCHANGED ownerVars
  BY <1>1, <1>2 DEF OwnerTyped
<1>3. Event => events' \in 0..MaxEvents
  BY <1>1, AccessAssumption DEF Event, OwnerTyped
<1>4. CASE Finalize \/ DeleteOwner
  BY <1>1, <1>4 DEF Finalize, DeleteOwner, OwnerTyped
<1>5. CASE Event /\ UNCHANGED <<owner, first, wanted, config, expired>>
  BY <1>1, <1>3, <1>5 DEF OwnerTyped
<1>6. ASSUME NEW r \in Registrations, UpdateRegistration(r)
      PROVE  OwnerTyped'
  <2>1. config[r] \in Nat
    BY <1>1 DEF OwnerTyped
  <2>2. config[r] + 1 \in Nat
    BY <2>1
  <2>3. config' = config \/ config' = [config EXCEPT ![r] = config[r] + 1]
    BY <1>1, <1>6 DEF UpdateRegistration
  <2>4. config' \in [Registrations -> Nat]
    BY <1>1, <2>2, <2>3 DEF OwnerTyped
  <2>5. wanted' \subseteq Registrations
    BY <1>1, <1>6 DEF UpdateRegistration, OwnerTyped
  <2>6. QED
    BY <1>1, <1>3, <1>6, <2>4, <2>5 DEF UpdateRegistration, OwnerTyped
<1>7. ASSUME NEW x \in Timed, Expire(x)
      PROVE  OwnerTyped'
  BY <1>1, <1>7 DEF Expire, OwnerTyped
<1>8. \/ UNCHANGED ownerVars
      \/ Finalize \/ DeleteOwner
      \/ Event /\ UNCHANGED <<owner, first, wanted, config, expired>>
      \/ \E r \in Registrations : UpdateRegistration(r)
      \/ \E x \in Timed : Expire(x)
  BY DEF Next, vars, LibraryStep, ControllerStep, ProviderStep, SchedulerStep, Dequeue, Visit,
         EnsureRequest, EnsureAccess, GetAccess, DeleteAccess, ReleaseAccess, GetRequest,
         DeleteRequest, ReleaseRequest, Reconciled, DeleteReconciled, CallFails, Restart, ArRead,
         ArDelete, ArLabel, ArStatus, ArTimer, ArCallFails, ArStatusFails, ArRestart, UserAsks,
         ProviderAdopts, ProviderGrants, ProviderRevokes, SchedulerAdopts, SchedulerGrants,
         SchedulerReleases
<1>9. QED
  BY <1>2, <1>4, <1>5, <1>6, <1>7, <1>8

\* The worker of the owner's controller keeps its types.
LEMMA LibraryKeepsTypes == TypeInv /\ [Next]_vars => LibraryTyped'
<1>. SUFFICES ASSUME TypeInv, [Next]_vars
              PROVE  LibraryTyped'
  OBVIOUS
<1>. USE DEF LibraryTyped, InRegistration
<1>1. LibraryTyped
  BY DEF TypeInv
<1>2. CASE UNCHANGED library
  BY <1>1, <1>2 DEF library
<1>3. ASSUME Leave, queued' \in BOOLEAN, marked' \in BOOLEAN
      PROVE  LibraryTyped'
  BY <1>3 DEF Leave
<1>4. ASSUME NEW f \in {"Reconcile", "ReconcileDelete"}, NEW d \in {"live", "deleting"},
             Enter(f, d), queued' \in BOOLEAN
      PROVE  LibraryTyped'
  <2>1. marked' \in BOOLEAN
    BY <1>1, <1>4 DEF Enter
  <2>2. QED
    BY <1>4, <2>1 DEF Enter
<1>5. CASE Dequeue
  <2>1. CASE UNCHANGED <<pc, call, copy, marked, todo, at, seen, again>>
    BY <1>1, <1>5, <2>1 DEF Dequeue
  <2>2. CASE /\ owner # "gone"
             /\ Enter(IF owner = "live" \/ first THEN "Reconcile" ELSE "ReconcileDelete", owner)
    BY <1>4, <1>5, <2>2 DEF Dequeue, TypeInv, OwnerTyped
  <2>3. QED
    BY <1>5, <2>1, <2>2 DEF Dequeue
<1>6. ASSUME NEW r \in Registrations, Visit(r)
      PROVE  LibraryTyped'
  BY <1>1, <1>6 DEF Visit
<1>7. CASE EnsureRequest
  BY <1>1, <1>3, <1>7 DEF EnsureRequest, Goto
<1>8. CASE EnsureAccess
  <2>2. again' \in BOOLEAN
    BY <1>1, <1>8, Zenon DEF EnsureAccess, Goto
  <2>3. /\ pc' \in {"visit", "getAccess"}
        /\ UNCHANGED <<queued, call, copy, marked, todo, at, seen>>
    BY <1>8 DEF EnsureAccess, Goto
  <2>4. at \in Registrations
    BY <1>1, <1>8 DEF EnsureAccess
  <2>5. QED
    BY <1>1, <2>2, <2>3, <2>4
<1>9. CASE GetAccess
  <2>1. ar[at] \in AccessType /\ at \in Registrations
    BY <1>1, <1>9 DEF GetAccess, TypeInv, RequestsTyped, Names
  <2>2. pc' \in {"visit", "getRequest", "deleteAccess", "releaseAccess"}
    BY <1>9, <2>1 DEF GetAccess, Goto, AfterAccess, AccessType, States
  <2>3. seen' \subseteq {Finalizer, "scheduler", "provider"}
    BY <1>9, <2>1 DEF GetAccess, AccessType
  <2>4. QED
    BY <1>1, <1>9, <2>1, <2>2, <2>3 DEF GetAccess, Goto
<1>10. CASE DeleteAccess
  BY <1>1, <1>10 DEF DeleteAccess, Goto
<1>11. CASE ReleaseAccess
  BY <1>1, <1>11 DEF ReleaseAccess, Goto, AfterAccess
<1>12. CASE GetRequest
  <2>1. cr[at] \in RequestType /\ at \in Registrations
    BY <1>1, <1>12 DEF GetRequest, TypeInv, RequestsTyped
  <2>2. pc' \in {"visit", "deleteRequest", "releaseRequest"}
    BY <1>12 DEF GetRequest, Goto
  <2>3. seen' \subseteq {Finalizer, "scheduler", "provider"}
    BY <1>1, <1>12, <2>1 DEF GetRequest, RequestType
  <2>4. QED
    BY <1>1, <1>12, <2>1, <2>2, <2>3 DEF GetRequest, Goto
<1>13. CASE DeleteRequest
  BY <1>1, <1>13 DEF DeleteRequest, Goto
<1>14. CASE ReleaseRequest
  BY <1>1, <1>14 DEF ReleaseRequest
<1>15. CASE Reconciled
  BY <1>1, <1>3, <1>4, <1>15 DEF Reconciled
<1>16. CASE DeleteReconciled
  BY <1>1, <1>3, <1>16 DEF DeleteReconciled
<1>17. CASE Finalize \/ CallFails \/ Restart
  BY <1>1, <1>3, <1>17 DEF Finalize, CallFails, Fail, Restart
<1>18. CASE DeleteOwner \/ \E r \in Registrations : UpdateRegistration(r)
  BY <1>1, <1>18 DEF DeleteOwner, UpdateRegistration
<1>19. UNCHANGED library \/ LibraryStep \/ CallFails \/ Restart \/ DeleteOwner
         \/ \E r \in Registrations : UpdateRegistration(r)
  BY DEF Next, vars, library, ControllerStep, ProviderStep, SchedulerStep, ArRead, ArDelete,
     ArLabel, ArStatus, ArTimer, ArCallFails, ArStatusFails, ArRestart, UserAsks, Expire,
     ProviderAdopts, ProviderGrants, ProviderRevokes, SchedulerAdopts, SchedulerGrants,
     SchedulerReleases
<1>20. QED
  BY <1>2, <1>5, <1>6, <1>7, <1>8, <1>9, <1>10, <1>11, <1>12, <1>13, <1>14, <1>15, <1>16, <1>17,
     <1>18, <1>19 DEF LibraryStep

\* The AccessRequest controller keeps its types.
LEMMA ControllerKeepsTypes == TypeInv /\ [Next]_vars => ControllerTyped'
<1>. SUFFICES ASSUME TypeInv, [Next]_vars
              PROVE  ControllerTyped'
  OBVIOUS
<1>. USE DEF ControllerTyped
<1>1. ControllerTyped
  BY DEF TypeInv
<1>2. CASE UNCHANGED controller
  BY <1>1, <1>2 DEF controller
<1>3. ASSUME ArLeave, arQueue' \subseteq Names, timers' \subseteq Timed
      PROVE  ControllerTyped'
  BY <1>3 DEF ArLeave, NoAccess, AccessType, States
<1>4. ASSUME NEW x \in Names, NEW a, ChangeAccess(x, a)
      PROVE  arQueue' \subseteq Names
  BY <1>1, <1>4, NotifyType DEF ChangeAccess
<1>5. CASE EnsureAccess
  <2>1. at \in Names
    BY <1>5 DEF EnsureAccess, TypeInv, LibraryTyped, InRegistration, Names
  <2>2. \E a : arQueue' = arQueue \/ arQueue' = Notify(at, a)
    BY <1>5, Zenon DEF EnsureAccess, ChangeAccess
  <2>3. arQueue' \subseteq Names
    BY <1>1, <2>1, <2>2, NotifyType
  <2>4. QED
    BY <1>1, <1>5, <2>3 DEF EnsureAccess
<1>6. CASE DeleteAccess
  <2>1. at \in Names
    BY <1>6 DEF DeleteAccess, TypeInv, LibraryTyped, InRegistration, Names
  <2>2. QED
    BY <1>1, <1>4, <1>6, <2>1 DEF DeleteAccess
<1>7. ASSUME NEW x \in Names, ArRead(x)
      PROVE  ControllerTyped'
  <2>1. ar[x] \in AccessType
    BY DEF TypeInv, RequestsTyped
  <2>2. timers' \subseteq Timed /\ arQueue' \subseteq Names
    BY <1>1, <1>7 DEF ArRead
  <2>3. \/ UNCHANGED <<arPc, arAt, arCopy, arFailed>>
        \/ /\ arAt' = x /\ arCopy' = ar[x] /\ arFailed' \in BOOLEAN
           /\ arPc' \in {"delete", "status", "label"}
    BY <1>7 DEF ArRead
  <2>4. QED
    BY <1>1, <2>1, <2>2, <2>3
<1>8. CASE ArDelete
  <2>1. arAt \in Names
    BY <1>1, <1>8 DEF ArDelete
  <2>2. arQueue' \subseteq Names
    BY <1>1, <1>8, <2>1, NotifyType DEF ArDelete
  <2>3. QED
    BY <1>1, <1>3, <1>8, <2>1, <2>2 DEF ArDelete
<1>9. CASE ArLabel
  <2>1. arAt \in Names
    BY <1>1, <1>9 DEF ArLabel
  <2>2. arQueue' \subseteq Names
    BY <1>1, <1>4, <1>9, <2>1 DEF ArLabel
  <2>3. RequestsTyped'
    BY RequestsKeepTypes
  <2>4. arCopy' \in AccessType
    BY <1>1, <1>9, <2>1, <2>3 DEF ArLabel, RequestsTyped
  <2>5. QED
    BY <1>1, <1>9, <2>1, <2>2, <2>4 DEF ArLabel
<1>10. CASE ArStatus
  BY <1>1, <1>3, <1>10 DEF ArStatus
<1>11. CASE ArCallFails
  BY <1>1, <1>3, <1>11 DEF ArCallFails
<1>12. CASE ArStatusFails
  BY <1>1, <1>3, <1>12 DEF ArStatusFails
<1>13. CASE ArRestart
  BY <1>1, <1>3, <1>13 DEF ArRestart
<1>14. ASSUME NEW x \in Names, ArTimer(x)
       PROVE  ControllerTyped'
  BY <1>1, <1>14 DEF ArTimer
<1>15. ASSUME NEW x \in Timed, UserAsks(x)
       PROVE  ControllerTyped'
  BY <1>1, <1>4, <1>15 DEF UserAsks, Names
<1>16. UNCHANGED controller \/ EnsureAccess \/ DeleteAccess \/ ControllerStep
         \/ ArCallFails \/ ArStatusFails \/ ArRestart \/ (\E x \in Names : ArTimer(x))
         \/ \E x \in Timed : UserAsks(x)
  BY DEF Next, vars, controller, LibraryStep, ProviderStep, SchedulerStep, Dequeue, Visit,
         EnsureRequest, GetAccess, ReleaseAccess, GetRequest, DeleteRequest, ReleaseRequest,
         Reconciled, DeleteReconciled, Finalize, CallFails, Restart, UpdateRegistration,
         DeleteOwner, Expire, ProviderAdopts, ProviderGrants, ProviderRevokes, SchedulerAdopts,
         SchedulerGrants, SchedulerReleases
<1>17. QED
  BY <1>2, <1>5, <1>6, <1>7, <1>8, <1>9, <1>10, <1>11, <1>12, <1>13, <1>14, <1>15, <1>16
     DEF ControllerStep

\* Every step keeps the types.
LEMMA TypeStep == TypeInv /\ [Next]_vars => TypeInv'
BY OwnerKeepsTypes, RequestsKeepTypes, LibraryKeepsTypes, ControllerKeepsTypes DEF TypeInv

\* The variables have the values they should have.
THEOREM TypeCorrect == Spec => []TypeOK
<1>1. Spec => []TypeInv
  BY TypeInit, TypeStep, PTL DEF Spec
<1>2. QED
  BY <1>1, TypeParts, PTL

-----------------------------------------------------------------------------
(* The deletion *)

\* What no step undoes, outside the functions of Reconcile that make requests.
LEMMA StaysGone ==
  ASSUME TypeInv, [Next]_vars, NEW r \in Registrations
  PROVE  /\ pc # "access" /\ ar[r].state # "active" => ar'[r].state # "active"
         /\ pc # "access" /\ ar[r].state = "absent" => ar'[r].state = "absent"
         /\ pc # "request" /\ cr[r].state # "active" => cr'[r].state # "active"
         /\ pc # "request" /\ ~(pc = "deleteRequest" /\ r = at) /\ cr[r].state = "absent" =>
              cr'[r].state = "absent"
<1>1. r \in Names /\ ar \in [Names -> AccessType] /\ cr \in [Registrations -> RequestType]
  BY DEF Names, TypeInv, RequestsTyped
<1>2. CASE UNCHANGED <<ar, cr>>
  BY <1>2
<1>3. CASE Next
  <2>1. \/ UNCHANGED ar
        \/ \E x \in Names, a \in AccessType : Changes(x, a)
    BY <1>3, AccessChange
  <2>2. ASSUME NEW x \in Names, NEW a \in AccessType, Changes(x, a)
        PROVE  /\ pc # "access" /\ ar[r].state # "active" => ar'[r].state # "active"
               /\ pc # "access" /\ ar[r].state = "absent" => ar'[r].state = "absent"
    <3>1. CASE x = r
      BY <1>1, <2>2, <3>1 DEF Changes
    <3>2. CASE x # r
      BY <1>1, <2>2, <3>2 DEF Changes
    <3>3. QED
      BY <3>1, <3>2
  <2>3. \/ UNCHANGED cr
        \/ \E q \in Registrations, c \in RequestType : ChangesRequest(q, c)
    BY <1>3, RequestChange
  <2>4. ASSUME NEW q \in Registrations, NEW c \in RequestType, ChangesRequest(q, c)
        PROVE  /\ pc # "request" /\ cr[r].state # "active" => cr'[r].state # "active"
               /\ pc # "request" /\ ~(pc = "deleteRequest" /\ r = at)
                    /\ cr[r].state = "absent" => cr'[r].state = "absent"
    <3>1. CASE q = r
      BY <1>1, <2>4, <3>1 DEF ChangesRequest
    <3>2. CASE q # r
      BY <1>1, <2>4, <3>2 DEF ChangesRequest
    <3>3. QED
      BY <3>1, <3>2
  <2>5. QED
    BY <2>1, <2>2, <2>3, <2>4
<1>4. QED
  BY <1>2, <1>3 DEF vars

\* The initial state.
LEMMA TearDownInit == Init => TearDown
BY DEF Init, TearDown, Ordered, Visited, Finished, InRegistration

\* Leaving the library is safe in every state but the last one of a deletion.
LEMMA TearDownLeave ==
  ASSUME TypeInv, TearDown, [Next]_vars, pc' = "idle", call' = "Reconcile", wanted' = wanted,
         owner' = "gone" => owner = "gone"
  PROVE  TearDown'
<1>1. Ordered' /\ Visited'
  BY DEF Ordered, Visited, InRegistration
<1>2. ASSUME owner = "gone", NEW r \in Registrations
      PROVE  Gone(r)'
  BY <1>2, StaysGone DEF TearDown, Finished, Gone
<1>3. Finished'
  BY <1>2 DEF Finished
<1>4. QED
  BY <1>1, <1>3 DEF TearDown

\* A step of anybody else.
LEMMA TearDownElse ==
  ASSUME TypeInv, TearDown, [Next]_vars, UNCHANGED <<pc, call, todo, at, again, wanted>>,
         owner' = "gone" => owner = "gone"
  PROVE  TearDown'
<1>1. Ordered'
  <2>1. pc \in InRegistration => at \in Registrations
    BY DEF TypeInv, LibraryTyped
  <2>2. QED
    BY <2>1, StaysGone DEF TearDown, Ordered, InRegistration
<1>2. Visited'
  <2>1. SUFFICES ASSUME call = "ReconcileDelete", ~again, NEW r \in Registrations \ todo,
                        ~(pc \in InRegistration /\ r = at)
                 PROVE  Gone(r)'
    BY DEF Visited
  <2>2. Gone(r)
    BY <2>1 DEF TearDown, Visited
  <2>3. pc \notin {"access", "request"}
    BY <2>1 DEF TearDown, Ordered, InRegistration
  <2>4. ~(pc = "deleteRequest" /\ r = at)
    BY <2>1 DEF InRegistration
  <2>5. QED
    BY <2>2, <2>3, <2>4, StaysGone DEF Gone
<1>3. Finished'
  <2>1. ASSUME owner = "gone", NEW r \in Registrations
        PROVE  Gone(r)'
    BY <2>1, StaysGone DEF TearDown, Finished, Gone
  <2>2. QED
    BY <2>1 DEF TearDown, Finished
<1>4. QED
  BY <1>1, <1>2, <1>3 DEF TearDown

\* A step of the library within a reconciliation.
LEMMA TearDownGoesOn ==
  ASSUME TypeInv, TearDown, [Next]_vars, pc # "idle", UNCHANGED <<owner, wanted>>, pc' # "finalize",
         Ordered', Visited'
  PROVE  TearDown'
BY DEF TearDown, Finished

\* The step from the deletion of a registration's AccessRequest to the next one.
LEMMA VisitedStays ==
  ASSUME TypeInv, TearDown, [Next]_vars, UNCHANGED <<call, todo, at, wanted>>,
         again' = again \/ again' = TRUE,
         pc \in InRegistration,
         \/ pc' \in InRegistration
         \/ call = "Reconcile" \/ again'
         \/ Gone(at)'
  PROVE  Visited'
<1>1. SUFFICES ASSUME call = "ReconcileDelete", ~again', NEW r \in Registrations \ todo,
                      ~(pc' \in InRegistration /\ r = at)
               PROVE  Gone(r)'
  BY DEF Visited
<1>2. CASE r = at
  BY <1>1, <1>2
<1>3. CASE r # at
  <2>1. Gone(r)
    BY <1>1, <1>3 DEF TearDown, Visited
  <2>2. pc \notin {"access", "request"}
    BY <1>1 DEF TearDown, Ordered
  <2>3. QED
    BY <1>3, <2>1, <2>2, StaysGone DEF Gone
<1>4. QED
  BY <1>2, <1>3

\* Every step keeps what is known of a deletion.
LEMMA TearDownStep ==
  ASSUME TypeInv, TearDown, [Next]_vars
  PROVE  TearDown'
<1>1. /\ pc \in InRegistration => at \in Registrations
      /\ pc \in {"request", "access"} => call = "Reconcile"
      /\ pc \in {"getRequest", "deleteRequest", "releaseRequest"} => call = "ReconcileDelete"
      /\ call \in {"Reconcile", "ReconcileDelete"}
      /\ ar \in [Names -> AccessType] /\ cr \in [Registrations -> RequestType]
      /\ Registrations \subseteq Names
      /\ again \in BOOLEAN
  BY DEF TearDown, TypeInv, LibraryTyped, RequestsTyped, Ordered, Names
<1>2. CASE Dequeue
  <2>1. CASE UNCHANGED <<pc, call, copy, marked, todo, at, seen, again>>
    BY <1>2, <2>1, TearDownElse DEF Dequeue
  <2>2. CASE /\ owner # "gone"
             /\ Enter(IF owner = "live" \/ first THEN "Reconcile" ELSE "ReconcileDelete", owner)
    <3>1. /\ pc' = "visit" /\ todo' = Registrations /\ UNCHANGED <<owner, wanted>>
      BY <1>2, <2>2 DEF Dequeue, Enter
    <3>2. QED
      BY <1>1, <2>2, <3>1 DEF TearDown, Ordered, Visited, Finished, InRegistration
  <2>3. QED
    BY <1>2, <2>1, <2>2 DEF Dequeue
<1>3. ASSUME NEW r \in Registrations, Visit(r)
      PROVE  TearDown'
  <2>1. /\ pc = "visit" /\ todo' = todo \ {r}
        /\ UNCHANGED <<owner, wanted, call, again, ar, cr>>
    BY <1>3 DEF Visit
  <2>2. CASE call = "Reconcile"
    <3>1. pc' \in {"visit", "request", "access"}
      BY <1>3, <2>2 DEF Visit
    <3>2. QED
      BY <2>1, <2>2, <3>1, TearDownGoesOn DEF Ordered, Visited, InRegistration
  <2>3. CASE call = "ReconcileDelete"
    <3>1. pc' = (IF r \in wanted THEN "getAccess" ELSE "getRequest") /\ at' = r
      BY <1>3, <2>3 DEF Visit
    <3>2. Visited'
      BY <2>1, <2>3, <3>1 DEF TearDown, Visited, Gone, InRegistration
    <3>3. QED
      BY <2>1, <2>3, <3>1, <3>2, TearDownGoesOn DEF Ordered, InRegistration
  <2>4. QED
    BY <1>1, <2>2, <2>3
<1>4. CASE EnsureRequest
  <2>1. pc = "request" /\ call = "Reconcile" /\ UNCHANGED <<owner, wanted>>
    BY <1>1, <1>4 DEF EnsureRequest, InRegistration
  <2>2. (pc' = "idle" \/ pc' \in {"visit", "access"}) /\ call' = "Reconcile"
    BY <1>4, <2>1 DEF EnsureRequest, Goto, Leave
  <2>3. CASE pc' = "idle"
    BY <2>1, <2>2, <2>3, TearDownLeave
  <2>4. CASE pc' \in {"visit", "access"}
    BY <2>1, <2>2, <2>4, TearDownGoesOn DEF Ordered, Visited, InRegistration
  <2>5. QED
    BY <2>2, <2>3, <2>4
<1>5. CASE EnsureAccess
  <2>1. pc = "access" /\ call = "Reconcile" /\ UNCHANGED <<owner, wanted>>
    BY <1>1, <1>5 DEF EnsureAccess, InRegistration
  <2>2. pc' \in {"visit", "getAccess"} /\ call' = "Reconcile"
    BY <1>5, <2>1 DEF EnsureAccess, Goto
  <2>3. QED
    BY <2>1, <2>2, TearDownGoesOn DEF Ordered, Visited, InRegistration
<1>6. CASE GetAccess
  <2>1. /\ pc = "getAccess" /\ at \in Registrations
        /\ UNCHANGED <<owner, wanted, call, todo, at, again, ar, cr>>
    BY <1>1, <1>6 DEF GetAccess, Goto, InRegistration, requests
  <2>2. ar[at].state \in States
    BY <1>1, <2>1 DEF AccessType
  <2>3. \/ pc' = "visit" /\ call = "Reconcile"
        \/ pc' = "getRequest" /\ call = "ReconcileDelete" /\ ar[at].state = "absent"
        \/ pc' = "deleteAccess"
        \/ pc' = "releaseAccess" /\ ar[at].state = "deleting"
    BY <1>1, <1>6, <2>1, <2>2 DEF GetAccess, Goto, AfterAccess, States
  <2>4. Ordered'
    BY <2>1, <2>3 DEF Ordered, InRegistration
  <2>5. Visited'
    BY <2>1, <2>3, VisitedStays DEF InRegistration
  <2>6. QED
    BY <2>1, <2>3, <2>4, <2>5, TearDownGoesOn
<1>7. CASE DeleteAccess
  <2>1. /\ pc = "deleteAccess" /\ at \in Registrations
        /\ pc' = "releaseAccess"
        /\ UNCHANGED <<owner, wanted, call, todo, at, again>>
        /\ ar' = [ar EXCEPT ![at] = Deleted(ar[at])]
    BY <1>1, <1>7 DEF DeleteAccess, ChangeAccess, Goto, InRegistration
  <2>2. ar'[at].state # "active"
    BY <1>1, <2>1, AccessOperations DEF TypeInv, RequestsTyped, Proper
  <2>3. Ordered'
    BY <2>1, <2>2 DEF Ordered, InRegistration
  <2>4. Visited'
    BY <2>1, VisitedStays DEF InRegistration
  <2>5. QED
    BY <2>1, <2>3, <2>4, TearDownGoesOn
<1>8. CASE ReleaseAccess
  <2>1. /\ pc = "releaseAccess" /\ at \in Registrations
        /\ UNCHANGED <<owner, wanted, call, todo, at>>
        /\ ar[at].state # "active"
    BY <1>1, <1>8 DEF ReleaseAccess, Goto, InRegistration, TearDown, Ordered
  <2>2. \/ pc' = "visit" /\ call = "Reconcile" /\ again' = again
        \/ /\ pc' = "getRequest" /\ call = "ReconcileDelete" /\ again' = again
           /\ ar' = [ar EXCEPT ![at] = Without(ar[at], ar[at].finalizers, NoAccess)]
        \/ pc' = "visit" /\ again' = TRUE
    BY <1>1, <1>8, <2>1 DEF ReleaseAccess, Goto, AfterAccess
  <2>3. CASE pc' = "visit" /\ (call = "Reconcile" \/ again' = TRUE)
    BY <2>1, <2>3, TearDownGoesOn DEF Ordered, Visited, InRegistration
  <2>4. CASE /\ pc' = "getRequest" /\ call = "ReconcileDelete" /\ again' = again
             /\ ar' = [ar EXCEPT ![at] = Without(ar[at], ar[at].finalizers, NoAccess)]
    <3>1. Proper(ar[at]) /\ ar[at].state \in States
      BY <1>1, <2>1 DEF TypeInv, RequestsTyped, Proper, AccessType
    <3>2. ASSUME ar[at].state = "absent"
          PROVE  ar'[at].state = "absent"
      BY <2>1, <3>2, StaysGone
    <3>3. ASSUME ar[at].state = "deleting"
          PROVE  ar'[at].state = "absent"
      <4>1. ar'[at] = NoAccess
        BY <1>1, <2>1, <2>4, <3>1, <3>3, AccessOperations
      <4>2. NoAccess.state = "absent"
        BY DEF NoAccess
      <4>3. QED
        BY <4>1, <4>2
    <3>4. ar'[at].state = "absent"
      BY <2>1, <3>1, <3>2, <3>3 DEF States
    <3>5. Ordered'
      BY <2>1, <2>4, <3>4 DEF Ordered, InRegistration
    <3>6. Visited'
      BY <2>1, <2>4, VisitedStays DEF InRegistration
    <3>7. QED
      BY <2>1, <2>4, <3>5, <3>6, TearDownGoesOn
  <2>5. QED
    BY <2>2, <2>3, <2>4
<1>9. CASE GetRequest
  <2>1. /\ pc = "getRequest" /\ call = "ReconcileDelete" /\ at \in Registrations
        /\ UNCHANGED <<owner, wanted, call, todo, at, again, ar, cr>>
        /\ at \in wanted => ar[at].state = "absent"
    BY <1>1, <1>9 DEF GetRequest, Goto, InRegistration, requests, TearDown, Ordered
  <2>2. \/ pc' = "visit" /\ Gone(at)
        \/ pc' = "deleteRequest"
        \/ pc' = "releaseRequest" /\ cr[at].state # "active"
    BY <1>9, <2>1 DEF GetRequest, Goto, Gone
  <2>3. Ordered'
    BY <2>1, <2>2 DEF Ordered, InRegistration
  <2>4. Visited'
    BY <2>1, <2>2, VisitedStays DEF InRegistration, Gone
  <2>5. QED
    BY <2>1, <2>2, <2>3, <2>4, TearDownGoesOn
<1>10. CASE DeleteRequest
  <2>1. /\ pc = "deleteRequest" /\ call = "ReconcileDelete" /\ at \in Registrations
        /\ pc' = "releaseRequest"
        /\ UNCHANGED <<owner, wanted, call, todo, at, again, ar>>
        /\ at \in wanted => ar[at].state = "absent"
    BY <1>1, <1>10 DEF DeleteRequest, Goto, InRegistration, TearDown, Ordered
  <2>2. cr'[at].state = "deleting"
    BY <1>1, <1>10, <2>1 DEF DeleteRequest, RequestType
  <2>3. Ordered'
    BY <2>1, <2>2 DEF Ordered, InRegistration
  <2>4. Visited'
    BY <2>1, VisitedStays DEF InRegistration
  <2>5. QED
    BY <2>1, <2>3, <2>4, TearDownGoesOn
<1>11. CASE ReleaseRequest
  <2>1. /\ pc = "releaseRequest" /\ call = "ReconcileDelete" /\ at \in Registrations
        /\ pc' = "visit"
        /\ UNCHANGED <<owner, wanted, call, todo, at, ar>>
        /\ at \in wanted => ar[at].state = "absent"
        /\ cr[at].state # "active"
    BY <1>1, <1>11 DEF ReleaseRequest, InRegistration, TearDown, Ordered
  <2>2. \/ /\ again' = again
           /\ cr' = [cr EXCEPT ![at] = Without(cr[at], cr[at].finalizers, NoRequest)]
        \/ again' = TRUE
    BY <1>11 DEF ReleaseRequest
  <2>3. CASE again' = TRUE
    BY <2>1, <2>3, TearDownGoesOn DEF Ordered, Visited, InRegistration
  <2>4. CASE /\ again' = again
             /\ cr' = [cr EXCEPT ![at] = Without(cr[at], cr[at].finalizers, NoRequest)]
    <3>1. cr[at] \in RequestType /\ cr[at].state \in States
      BY <1>1, <2>1 DEF RequestType
    <3>2. ASSUME cr[at].state = "absent"
          PROVE  cr'[at].state = "absent"
      BY <2>1, <3>2, StaysGone
    <3>3. ASSUME cr[at].state = "deleting"
          PROVE  cr'[at].state = "absent"
      <4>1. cr'[at] = NoRequest
        BY <1>1, <2>1, <2>4, <3>1, <3>3, RequestOperations
      <4>2. QED
        BY <4>1 DEF NoRequest
    <3>4. Gone(at)'
      BY <2>1, <3>1, <3>2, <3>3 DEF States, Gone
    <3>5. Visited'
      BY <2>1, <2>4, <3>4, VisitedStays DEF InRegistration
    <3>6. QED
      BY <2>1, <3>5, TearDownGoesOn DEF Ordered, InRegistration
  <2>5. QED
    BY <2>2, <2>3, <2>4
<1>12. CASE Reconciled
  <2>1. /\ pc = "visit" /\ UNCHANGED <<owner, wanted>>
    BY <1>12 DEF Reconciled
  <2>2. CASE Leave
    BY <2>1, <2>2, TearDownLeave DEF Leave
  <2>3. CASE Enter("ReconcileDelete", copy)
    BY <2>1, <2>3, TearDownGoesOn DEF Enter, Ordered, Visited, InRegistration
  <2>4. QED
    BY <1>12, <2>2, <2>3 DEF Reconciled
<1>13. CASE DeleteReconciled
  <2>1. /\ pc = "visit" /\ todo = {} /\ call = "ReconcileDelete"
        /\ UNCHANGED <<owner, wanted, ar, cr>>
    BY <1>13 DEF DeleteReconciled, requests
  <2>2. CASE Leave
    BY <2>1, <2>2, TearDownLeave DEF Leave
  <2>3. CASE ~again /\ pc' = "finalize" /\ UNCHANGED <<call, todo, at, again>>
    <3>1. Ordered' /\ Visited'
      BY <2>1, <2>3 DEF TearDown, Ordered, Visited, Gone, InRegistration
    <3>2. Finished'
      BY <2>1, <2>3 DEF TearDown, Finished
    <3>3. QED
      BY <2>1, <3>1, <3>2 DEF TearDown
  <2>4. QED
    BY <1>13, <2>2, <2>3 DEF DeleteReconciled
<1>14. CASE Finalize
  <2>1. /\ pc = "finalize" /\ call = "ReconcileDelete" /\ ~again /\ todo = {}
    BY <1>14 DEF Finalize, TearDown, Finished
  <2>2. \A r \in Registrations : Gone(r)
    BY <2>1 DEF TearDown, Visited, InRegistration
  <2>3. pc' = "idle" /\ call' = "Reconcile" /\ UNCHANGED <<wanted, ar, cr>>
    BY <1>14 DEF Finalize, Leave, requests
  <2>4. QED
    BY <2>2, <2>3 DEF TearDown, Ordered, Visited, Finished, Gone, InRegistration
<1>15. CASE CallFails \/ Restart
  BY <1>15, TearDownLeave DEF CallFails, Fail, Restart, Leave
<1>16. CASE UNCHANGED library /\ UNCHANGED <<owner, wanted>>
  BY <1>16, TearDownElse DEF library
<1>17. CASE DeleteOwner
  BY <1>17, TearDownElse DEF DeleteOwner
<1>18. ASSUME NEW r \in Registrations, UpdateRegistration(r)
       PROVE  TearDown'
  <2>1. pc = "idle" /\ owner = "live" /\ UNCHANGED <<owner, pc, call, todo, at>>
    BY <1>18 DEF UpdateRegistration
  <2>2. QED
    BY <2>1 DEF TearDown, Ordered, Visited, Finished, InRegistration
<1>19. \/ UNCHANGED library /\ UNCHANGED <<owner, wanted>>
       \/ LibraryStep \/ CallFails \/ Restart \/ DeleteOwner
       \/ \E r \in Registrations : UpdateRegistration(r)
  BY DEF Next, vars, library, ControllerStep, ProviderStep, SchedulerStep, ArRead, ArDelete,
     ArLabel, ArStatus, ArTimer, ArCallFails, ArStatusFails, ArRestart, UserAsks, Expire,
     ProviderAdopts, ProviderGrants, ProviderRevokes, SchedulerAdopts, SchedulerGrants,
     SchedulerReleases
<1>20. QED
  BY <1>2, <1>3, <1>4, <1>5, <1>6, <1>7, <1>8, <1>9, <1>10, <1>11, <1>12, <1>13, <1>14, <1>15,
     <1>16, <1>17, <1>18, <1>19 DEF LibraryStep

\* The invariant holds in every state.
LEMMA Inductive == Spec => []IInv
<1>1. Init => IInv
  BY TypeInit, TearDownInit DEF IInv
<1>2. IInv /\ [Next]_vars => IInv'
  BY TypeStep, TearDownStep DEF IInv
<1>3. QED
  BY <1>1, <1>2, PTL DEF Spec

\* NothingLeftBehind: when the controller of the owner has let it go, no request made
\* for it is left, except AccessRequests of registrations whose access was switched off -
\* of any number of registrations, after any number of failing calls and restarts.
THEOREM NothingLeftBehindAlways == Spec => []NothingLeftBehind
<1>1. IInv => NothingLeftBehind
  BY AccessAssumption DEF IInv, TypeInv, OwnerTyped, TearDown, Finished, Gone, NothingLeftBehind
<1>2. QED
  BY <1>1, Inductive, PTL

\* ClusterOutlivesAccess: a registration's ClusterRequest is given up only when the
\* AccessRequest for it is gone, unless its access was switched off.
THEOREM ClusterOutlivesAccessAlways == Spec => ClusterOutlivesAccess
<1>1. ASSUME IInv, [Next]_vars, NEW r \in Own \cap wanted,
             cr[r].state = "active", cr'[r].state # "active"
      PROVE  ar[r].state = "absent"
  <2>1. r \in Registrations /\ cr \in [Registrations -> RequestType]
    BY <1>1, AccessAssumption DEF IInv, TypeInv, RequestsTyped
  <2>2. Next
    BY <1>1 DEF vars
  <2>3. PICK q \in Registrations, c \in RequestType : ChangesRequest(q, c)
    BY <1>1, <2>2, RequestChange DEF IInv
  <2>4. q = r /\ c.state # "active"
    BY <1>1, <2>1, <2>3 DEF ChangesRequest
  <2>5. r = at /\ pc \in {"deleteRequest", "releaseRequest"}
    BY <1>1, <2>3, <2>4 DEF ChangesRequest
  <2>6. QED
    BY <1>1, <2>5 DEF IInv, TearDown, Ordered
<1>2. IInv /\ [Next]_vars =>
        [\A r \in Own \cap wanted :
           cr[r].state = "active" /\ cr'[r].state # "active" => ar[r].state = "absent"]_vars
  BY <1>1
<1>3. QED
  BY <1>2, Inductive, PTL DEF Spec, ClusterOutlivesAccess

=============================================================================

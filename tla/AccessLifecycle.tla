--------------------------- MODULE AccessLifecycle ---------------------------
(***************************************************************************)
(* Access to clusters: the library controllers use to ask for it           *)
(* (lib/clusteraccess and its advanced variant) and the AccessRequest      *)
(* controller (internal/controllers/accessrequest), which finds out what   *)
(* cluster an AccessRequest is for and hands it to the provider of that    *)
(* cluster.                                                                *)
(*                                                                         *)
(* One object of a controller that uses the library is modelled, the       *)
(* owner, with all the clusters registered for it.  The library and the    *)
(* AccessRequest controller run in different processes and never talk to   *)
(* each other: they and the provider meet in the labels, the phase, the    *)
(* generation and the finalizers of the AccessRequest.  The scheduler and  *)
(* the cluster provider are external here.  Each API call that changes     *)
(* something is an action of its own.                                      *)
(***************************************************************************)
EXTENDS Naturals, FiniteSets

CONSTANTS
  Registrations,     \* ids of the registered clusters
  Own,               \* those with a ClusterRequest of their own
  Timed,             \* AccessRequests with a TTL, created by a user
  Switches,          \* may the access of a registration be switched off and on?
  MaxEvents          \* bound: updates of registrations, failing API calls and restarts

ASSUME AccessAssumption ==
  /\ IsFiniteSet(Registrations)
  /\ Own \subseteq Registrations
  /\ Timed \cap Registrations = {}
  /\ Switches \in BOOLEAN
  /\ MaxEvents \in Nat

Names == Registrations \cup Timed

Finalizer == "clusteraccess"

VARIABLES
  owner,      \* "live", "deleting" or "gone"
  first,      \* does its controller call Reconcile before ReconcileDelete?
  wanted,     \* registrations with access configured
  config,     \* version of the access configuration of each registration
  namespace,  \* does the namespace of the owner's requests exist?
  cr,         \* the ClusterRequest a registration creates or refers to
  ar,         \* the AccessRequests
  provided,   \* version of the configuration the provider has set up, 0 for none
  expired,    \* AccessRequests whose TTL is over
  queued,     \* is the owner in the work queue of its controller?
  pc,         \* where that controller's worker is in the library
  call,       \* the function it is in
  copy,       \* the owner's state when the worker read it
  marked,     \* requestsInDeletion contains the owner
  todo,       \* registrations the loop still has to visit
  at,         \* the registration it visits
  seen,       \* finalizers of the object the worker has read
  again,      \* does the result ask for a requeue?
  arQueue,    \* work queue of the AccessRequest controller
  arPc,       \* where the worker of that controller is
  arAt,       \* the AccessRequest it works on
  arCopy,     \* its copy of it
  arFailed,   \* has the reconciliation met an error?
  timers,     \* AccessRequests queued again for their expiry
  events      \* how many of those there have been

requests == <<namespace, cr, ar, provided>>
library == <<queued, pc, call, copy, marked, todo, at, seen, again>>
controller == <<arQueue, arPc, arAt, arCopy, arFailed, timers>>
vars == <<owner, first, wanted, config, namespace, cr, ar, provided, expired, queued, pc, call, copy,
          marked, todo, at, seen, again, arQueue, arPc, arAt, arCopy, arFailed, timers,
          events>>

-----------------------------------------------------------------------------
States == {"absent", "active", "deleting"}

RequestType == [state: States, finalizers: SUBSET {Finalizer, "scheduler"}, granted: BOOLEAN]

NoRequest == [state |-> "absent", finalizers |-> {}, granted |-> FALSE]

\* "labelled": both labels and the clusterRef are there.  The generation counts
\* the changes of the spec, setting the clusterRef and the deletion among them.
AccessType ==
  [state: States, finalizers: SUBSET {Finalizer, "provider"}, labelled: BOOLEAN,
   phase: {"", "Pending", "Granted"}, generation: Nat, observed: Nat, version: Nat]

NoAccess ==
  [state |-> "absent", finalizers |-> {}, labelled |-> FALSE, phase |-> "",
   generation |-> 0, observed |-> 0, version |-> 0]

NewAccess(fins, version) ==
  [NoAccess EXCEPT !.state = "active", !.finalizers = fins, !.generation = 1, !.version = version]

\* The object without those finalizers; in deletion it goes with the last one.
Without(object, fins, none) ==
  LET left == object.finalizers \ fins IN
  IF object.state = "deleting" /\ left = {} THEN none ELSE [object EXCEPT !.finalizers = left]

\* NewClusterRequest registers a request that is still to be created, and
\* ExistingClusterRequest one that is there.
Registered(r) ==
  IF r \in Own THEN NoRequest
               ELSE [state |-> "active", finalizers |-> {"scheduler"}, granted |-> FALSE]

Init ==
  /\ owner = "live"
  /\ first \in BOOLEAN
  /\ wanted = Registrations
  /\ config = [r \in Registrations |-> 1]
  /\ namespace = FALSE
  /\ cr = [r \in Registrations |-> Registered(r)]
  /\ ar = [a \in Names |-> NoAccess]
  /\ provided = [a \in Names |-> 0]
  /\ expired = {}
  /\ queued = TRUE
  /\ pc = "idle"
  /\ call = "Reconcile"
  /\ copy = "live"
  /\ marked = FALSE
  /\ todo = {}
  /\ at = "none"
  /\ seen = {}
  /\ again = FALSE
  /\ arQueue = {}
  /\ arPc = "idle"
  /\ arAt = "none"
  /\ arCopy = NoAccess
  /\ arFailed = FALSE
  /\ timers = {}
  /\ events = 0

Event ==
  /\ events < MaxEvents
  /\ events' = events + 1

-----------------------------------------------------------------------------
(* Who acts on an AccessRequest *)

\* IsClusterProviderResponsibleForAccessRequest: the cluster provider, not the
\* AccessRequest controller.
Responsible(a) ==
  /\ a.labelled
  /\ \/ a.phase = "Pending"
     \/ a.phase = "Granted" /\ a.observed = a.generation

\* Mutant: no event for an AccessRequest in deletion.
NotifyUnlessDeleting(x, a) ==
  IF a.state = "active" /\ (~Responsible(a) \/ x \in Timed)
    THEN arQueue \cup {x}
    ELSE arQueue

\* The event filter of the AccessRequest controller, for a new generation.
Notify(x, a) ==
  IF a.state # "absent" /\ (~Responsible(a) \/ (x \in Timed /\ a.state = "active"))
    THEN arQueue \cup {x}
    ELSE arQueue

ChangeAccess(x, a) ==
  /\ ar' = [ar EXCEPT ![x] = a]
  /\ arQueue' = Notify(x, a)

\* Delete of an AccessRequest.
Deleted(a) ==
  IF a.finalizers = {}
    THEN NoAccess
    ELSE IF a.state = "deleting"
      THEN a
      ELSE [a EXCEPT !.state = "deleting", !.generation = @ + 1]

-----------------------------------------------------------------------------
(* The worker of the owner's controller *)

Leave ==
  /\ pc' = "idle"
  /\ call' = "Reconcile"
  /\ copy' = "live"
  /\ todo' = {}
  /\ at' = "none"
  /\ seen' = {}
  /\ again' = FALSE

\* The error makes the workqueue offer the owner again.
Fail ==
  /\ Leave
  /\ queued' = TRUE
  /\ UNCHANGED marked

Enter(function, deletion) ==
  /\ pc' = "visit"
  /\ call' = function
  /\ copy' = deletion
  /\ todo' = Registrations
  /\ at' = "none"
  /\ seen' = {}
  /\ again' = FALSE
  /\ marked' = (marked \/ function = "ReconcileDelete")

\* In deletion some controllers call Reconcile first, as the docs allow.
Dequeue ==
  /\ pc = "idle"
  /\ queued
  /\ queued' = FALSE
  /\ \/ /\ owner = "gone"
        /\ UNCHANGED <<pc, call, copy, marked, todo, at, seen, again>>
     \/ /\ owner # "gone"
        /\ Enter(IF owner = "live" \/ first THEN "Reconcile" ELSE "ReconcileDelete", owner)
  /\ UNCHANGED <<owner, first, wanted, config, requests, expired, controller, events>>

Goto(step) ==
  /\ pc' = step
  /\ UNCHANGED <<queued, call, copy, marked, todo, at, again>>

\* The next registration: the order of a Go map is random.  Without a namespace
\* nothing is left to delete, and nothing is created for an owner in deletion.
Visit(r) ==
  /\ pc = "visit"
  /\ r \in todo
  /\ todo' = todo \ {r}
  /\ IF call = "Reconcile" /\ marked /\ ~namespace
       THEN UNCHANGED <<pc, at, namespace>>
       ELSE /\ at' = r
            /\ namespace' = (namespace \/ call = "Reconcile")
            /\ pc' = IF call = "Reconcile"
                       THEN IF r \in Own THEN "request" ELSE "access"
                       ELSE IF r \in wanted THEN "getAccess" ELSE "getRequest"
  /\ UNCHANGED <<owner, first, wanted, config, cr, ar, provided, expired, queued, call, copy, marked,
                 seen, again, controller, events>>

\* Reconcile: the ClusterRequest.  The whole function returns while it is not
\* granted.
EnsureRequest ==
  /\ pc = "request"
  /\ LET request == cr[at] IN
     \/ /\ request.state = "absent" /\ marked
        /\ Goto("visit")
        /\ UNCHANGED <<cr, seen>>
     \/ /\ request.state = "absent" /\ ~marked
        /\ cr' = [cr EXCEPT ![at] = [NoRequest EXCEPT !.state = "active", !.finalizers = {Finalizer}]]
        /\ Leave
        /\ queued' = TRUE
        /\ UNCHANGED marked
     \/ /\ request.state # "absent" /\ ~request.granted
        /\ Leave
        /\ queued' = TRUE
        /\ UNCHANGED <<cr, marked>>
     \/ /\ request.granted
        /\ Goto("access")
        /\ UNCHANGED <<cr, seen>>
  /\ UNCHANGED <<owner, first, wanted, config, namespace, ar, provided, expired, controller,
                 events>>

\* Mutant: a grant of an older generation is good enough.
EnsureAccessAtAnyGeneration ==
  /\ pc = "access"
  /\ at \in wanted
  /\ pc' = "visit"
  /\ LET a     == ar[at]
         newer == IF a.version = config[at] THEN a
                  ELSE [a EXCEPT !.version = config[at], !.generation = @ + 1] IN
     IF a.state = "absent"
       THEN /\ ~marked
            /\ ChangeAccess(at, NewAccess({Finalizer}, config[at]))
            /\ again' = TRUE
       ELSE /\ ar' = [ar EXCEPT ![at] = newer]
            /\ arQueue' = IF newer = a THEN arQueue ELSE Notify(at, newer)
            /\ again' = (again \/ newer.phase # "Granted")
  /\ UNCHANGED <<owner, first, wanted, config, namespace, cr, provided, expired, queued, call, copy,
                 marked, todo, at, seen, arPc, arAt, arCopy, arFailed, timers, events>>

\* Reconcile: the AccessRequest.  One in deletion is left alone, and not waited
\* for.  What is not wanted any more is deleted as in ReconcileDelete.
EnsureAccess ==
  /\ pc = "access"
  /\ LET a     == ar[at]
         newer == IF a.version = config[at] THEN a
                  ELSE [a EXCEPT !.version = config[at], !.generation = @ + 1]
         ready == newer.phase = "Granted" /\ newer.observed = newer.generation IN
     \/ /\ at \notin wanted
        /\ Goto("getAccess")
        /\ UNCHANGED <<ar, seen, arQueue>>
     \/ /\ at \in wanted
        /\ (a.state = "absent" /\ marked) \/ a.state = "deleting"
        /\ Goto("visit")
        /\ UNCHANGED <<ar, seen, arQueue>>
     \/ /\ at \in wanted /\ a.state = "absent" /\ ~marked
        /\ ChangeAccess(at, NewAccess({Finalizer}, config[at]))
        /\ pc' = "visit"
        /\ again' = TRUE
        /\ UNCHANGED <<queued, call, copy, marked, todo, at, seen>>
     \/ /\ at \in wanted /\ a.state = "active"
        /\ ar' = [ar EXCEPT ![at] = newer]
        /\ arQueue' = IF newer = a THEN arQueue ELSE Notify(at, newer)
        /\ pc' = "visit"
        /\ again' = (again \/ ~ready)
        /\ UNCHANGED <<queued, call, copy, marked, todo, at, seen>>
  /\ UNCHANGED <<owner, first, wanted, config, namespace, cr, provided, expired, arPc, arAt, arCopy,
                 arFailed, timers, events>>

\* ensureAccessRequestDeletion, in both functions.
AfterAccess == IF call = "Reconcile" THEN "visit" ELSE "getRequest"

GetAccess ==
  /\ pc = "getAccess"
  /\ seen' = ar[at].finalizers
  /\ Goto(CASE ar[at].state = "absent"   -> AfterAccess
             [] ar[at].state = "active"   -> "deleteAccess"
             [] ar[at].state = "deleting" -> "releaseAccess")
  /\ UNCHANGED <<owner, first, wanted, config, requests, expired, controller, events>>

DeleteAccess ==
  /\ pc = "deleteAccess"
  /\ ChangeAccess(at, Deleted(ar[at]))
  /\ Goto("releaseAccess")
  /\ UNCHANGED <<owner, first, wanted, config, namespace, cr, provided, expired, seen, arPc, arAt,
                 arCopy, arFailed, timers, events>>

\* Mutant: the ClusterRequest's turn comes whether or not the AccessRequest is gone.
ReleaseAccessAndGoOn ==
  /\ pc = "releaseAccess"
  /\ seen' = {}
  /\ pc' = AfterAccess
  /\ IF seen = {Finalizer}
       THEN ar' = [ar EXCEPT ![at] = Without(@, @.finalizers, NoAccess)] /\ UNCHANGED again
       ELSE again' = TRUE /\ UNCHANGED ar
  /\ UNCHANGED <<owner, first, wanted, config, namespace, cr, provided, expired, queued, call, copy,
                 marked, todo, at, controller, events>>

\* If the library's finalizer was the only one that was read, all are removed.
ReleaseAccess ==
  /\ pc = "releaseAccess"
  /\ seen' = {}
  /\ \/ /\ seen = {Finalizer}
        /\ ar' = [ar EXCEPT ![at] = Without(@, @.finalizers, NoAccess)]
        /\ Goto(AfterAccess)
     \/ /\ seen # {Finalizer}
        /\ again' = TRUE
        /\ pc' = "visit"
        /\ UNCHANGED <<ar, queued, call, copy, marked, todo, at>>
  /\ UNCHANGED <<owner, first, wanted, config, namespace, cr, provided, expired, controller,
                 events>>

\* ReconcileDelete: the ClusterRequest the registration has created.
GetRequest ==
  /\ pc = "getRequest"
  /\ \/ /\ at \notin Own \/ cr[at].state = "absent"
        /\ Goto("visit")
        /\ UNCHANGED seen
     \/ /\ at \in Own /\ cr[at].state # "absent"
        /\ seen' = cr[at].finalizers
        /\ Goto(IF cr[at].state = "active" THEN "deleteRequest" ELSE "releaseRequest")
  /\ UNCHANGED <<owner, first, wanted, config, requests, expired, controller, events>>

DeleteRequest ==
  /\ pc = "deleteRequest"
  /\ cr' = [cr EXCEPT ![at].state = "deleting"]
  /\ Goto("releaseRequest")
  /\ UNCHANGED <<owner, first, wanted, config, namespace, ar, provided, expired, seen, controller,
                 events>>

ReleaseRequest ==
  /\ pc = "releaseRequest"
  /\ seen' = {}
  /\ pc' = "visit"
  /\ \/ /\ seen = {Finalizer}
        /\ cr' = [cr EXCEPT ![at] = Without(@, @.finalizers, NoRequest)]
        /\ UNCHANGED again
     \/ /\ seen # {Finalizer}
        /\ again' = TRUE
        /\ UNCHANGED cr
  /\ UNCHANGED <<owner, first, wanted, config, namespace, ar, provided, expired, queued, call, copy,
                 marked, todo, at, controller, events>>

\* The end of Reconcile, and what the owner's controller does then: it queues
\* the owner again if asked to, and goes on to ReconcileDelete otherwise.
Reconciled ==
  /\ pc = "visit" /\ todo = {} /\ call = "Reconcile"
  /\ \/ /\ again
        /\ Leave
        /\ queued' = TRUE
        /\ UNCHANGED marked
     \/ /\ ~again /\ copy = "live"
        /\ Leave
        /\ UNCHANGED <<queued, marked>>
     \/ /\ ~again /\ copy = "deleting"
        /\ Enter("ReconcileDelete", copy)
        /\ UNCHANGED queued
  /\ UNCHANGED <<owner, first, wanted, config, requests, expired, controller, events>>

\* Mutant: only errors of ReconcileDelete keep the owner.
DeleteReconciledAtOnce ==
  /\ pc = "visit" /\ todo = {} /\ call = "ReconcileDelete"
  /\ marked' = FALSE
  /\ pc' = "finalize"
  /\ UNCHANGED <<owner, first, wanted, config, requests, expired, queued, call, copy, todo, at, seen,
                 again, controller, events>>

\* The end of ReconcileDelete.
DeleteReconciled ==
  /\ pc = "visit" /\ todo = {} /\ call = "ReconcileDelete"
  /\ \/ /\ again
        /\ Leave
        /\ queued' = TRUE
        /\ UNCHANGED marked
     \/ /\ ~again
        /\ marked' = FALSE
        /\ pc' = "finalize"
        /\ UNCHANGED <<queued, call, copy, todo, at, seen, again>>
  /\ UNCHANGED <<owner, first, wanted, config, requests, expired, controller, events>>

\* The owner's controller removes its finalizer.
Finalize ==
  /\ pc = "finalize"
  /\ owner' = "gone"
  /\ Leave
  /\ UNCHANGED <<first, wanted, config, requests, expired, queued, marked, controller, events>>

CallFails ==
  /\ pc # "idle"
  /\ Event
  /\ Fail
  /\ UNCHANGED <<owner, first, wanted, config, requests, expired, controller>>

\* The process of the owner's controller starts again and sees the owner anew.
Restart ==
  /\ Event
  /\ Leave
  /\ queued' = TRUE
  /\ marked' = FALSE
  /\ UNCHANGED <<owner, first, wanted, config, requests, expired, controller>>

-----------------------------------------------------------------------------
(* The AccessRequest controller *)

ArLeave ==
  /\ arPc' = "idle"
  /\ arAt' = "none"
  /\ arCopy' = NoAccess
  /\ arFailed' = FALSE

\* Mutant: the provider's AccessRequests are not looked at, with a TTL or not.
ArReadUnlessResponsible(x) ==
  /\ arPc = "idle"
  /\ x \in arQueue
  /\ IF Responsible(ar[x]) \/ ar[x].state = "absent"
       THEN /\ arQueue' = arQueue \ {x}
            /\ UNCHANGED <<arPc, arAt, arCopy, arFailed, timers>>
       ELSE /\ arQueue' = arQueue \ {x}
            /\ arAt' = x
            /\ arCopy' = ar[x]
            /\ arFailed' = FALSE
            /\ timers' = IF x \in Timed \ expired THEN timers \cup {x} ELSE timers
            /\ arPc' = IF ar[x].labelled THEN "status" ELSE "label"
  /\ UNCHANGED <<owner, first, wanted, config, requests, expired, library, events>>

\* reconcile: Get, TTL, and the way from the request to its cluster.  Without a
\* granted ClusterRequest that ends in an error.
ArRead(x) ==
  /\ arPc = "idle"
  /\ x \in arQueue
  /\ arQueue' = arQueue \ {x}
  /\ LET a       == ar[x]
         expires == x \in Timed /\ x \in expired /\ a.state = "active"
         found   == x \in Timed \/ cr[x].granted IN
     IF a.state = "absent" \/ (Responsible(a) /\ x \notin Timed)
       THEN UNCHANGED <<arPc, arAt, arCopy, arFailed, timers>>
       ELSE /\ timers' = IF x \in Timed \ expired THEN timers \cup {x} ELSE timers
            /\ IF Responsible(a) /\ ~expires
                 THEN UNCHANGED <<arPc, arAt, arCopy, arFailed>>
                 ELSE /\ arAt' = x
                      /\ arCopy' = a
                      /\ arFailed' = (~expires /\ ~a.labelled /\ ~found)
                      /\ arPc' = IF expires THEN "delete"
                                 ELSE IF a.labelled \/ ~found THEN "status" ELSE "label"
  /\ UNCHANGED <<owner, first, wanted, config, requests, expired, library, events>>

\* The TTL is over.  A mere check has no object and writes no status.
ArDelete ==
  /\ arPc = "delete"
  /\ ar' = [ar EXCEPT ![arAt] = Deleted(@)]
  /\ IF Responsible(arCopy)
       THEN /\ ArLeave
            /\ arQueue' = Notify(arAt, Deleted(ar[arAt]))
       ELSE /\ arPc' = "status"
            /\ arQueue' = Notify(arAt, Deleted(ar[arAt]))
            /\ UNCHANGED <<arAt, arCopy, arFailed>>
  /\ UNCHANGED <<owner, first, wanted, config, namespace, cr, provided, expired, library, timers,
                 events>>

\* Mutant: the patch creates what it does not find.
ArLabelUpsert ==
  /\ arPc = "label"
  /\ arPc' = "status"
  /\ ChangeAccess(arAt, [ar[arAt] EXCEPT !.labelled = TRUE, !.generation = @ + 1])
  /\ arCopy' = ar'[arAt]
  /\ UNCHANGED <<owner, first, wanted, config, namespace, cr, provided, expired, library, arAt, arFailed,
                 timers, events>>

\* A merge patch with the labels and the clusterRef; its response is the new copy.
ArLabel ==
  /\ arPc = "label"
  /\ arPc' = "status"
  /\ \/ /\ ar[arAt].state # "absent"
        /\ ChangeAccess(arAt, [ar[arAt] EXCEPT !.labelled = TRUE, !.generation = @ + 1])
        /\ arCopy' = ar'[arAt]
        /\ UNCHANGED arFailed
     \/ /\ ar[arAt].state = "absent"
        /\ arFailed' = TRUE
        /\ UNCHANGED <<ar, arCopy, arQueue>>
  /\ UNCHANGED <<owner, first, wanted, config, namespace, cr, provided, expired, library, arAt, timers,
                 events>>

\* Mutant: the phase is written whatever the copy says.
ArStatusAlways ==
  /\ arPc = "status"
  /\ ArLeave
  /\ \/ /\ ar[arAt].state # "absent"
        /\ ar' = [ar EXCEPT ![arAt].phase = "Pending", ![arAt].observed = arCopy.generation]
        /\ arQueue' = IF arFailed THEN arQueue \cup {arAt} ELSE arQueue
     \/ /\ ar[arAt].state = "absent"
        /\ arQueue' = arQueue \cup {arAt}
        /\ UNCHANGED ar
  /\ UNCHANGED <<owner, first, wanted, config, namespace, cr, provided, expired, library, timers,
                 events>>

\* Mutant: an error is not offered to the work queue again.
ArStatusOnly ==
  /\ arPc = "status"
  /\ ArLeave
  /\ ar' = IF ar[arAt].state = "absent" THEN ar ELSE
             [ar EXCEPT ![arAt].phase = IF arCopy.phase = "Pending" THEN @ ELSE "Pending",
                        ![arAt].observed = arCopy.generation]
  /\ UNCHANGED <<owner, first, wanted, config, namespace, cr, provided, expired, library, arQueue, timers,
                 events>>

\* The status patch holds what differs from the copy.
ArStatus ==
  /\ arPc = "status"
  /\ ArLeave
  /\ \/ /\ ar[arAt].state # "absent"
        /\ ar' = [ar EXCEPT
             ![arAt].phase = IF arCopy.phase = "Pending" THEN @ ELSE "Pending",
             ![arAt].observed = IF arCopy.observed = arCopy.generation THEN @ ELSE arCopy.generation]
        /\ arQueue' = IF arFailed THEN arQueue \cup {arAt} ELSE arQueue
     \/ /\ ar[arAt].state = "absent"
        /\ arQueue' = arQueue \cup {arAt}
        /\ UNCHANGED ar
  /\ UNCHANGED <<owner, first, wanted, config, namespace, cr, provided, expired, library, timers,
                 events>>

ArTimer(x) ==
  /\ x \in timers \cap expired
  /\ timers' = timers \ {x}
  /\ arQueue' = arQueue \cup {x}
  /\ UNCHANGED <<owner, first, wanted, config, requests, expired, library, arPc, arAt, arCopy, arFailed,
                 events>>

\* A failing Get, Delete or Patch is an error; the status is written all the same.
ArCallFails ==
  /\ arPc \in {"delete", "label"}
  /\ Event
  /\ \/ /\ Responsible(arCopy)
        /\ ArLeave
        /\ arQueue' = arQueue \cup {arAt}
     \/ /\ ~Responsible(arCopy)
        /\ arPc' = "status"
        /\ arFailed' = TRUE
        /\ UNCHANGED <<arAt, arCopy, arQueue>>
  /\ UNCHANGED <<owner, first, wanted, config, requests, expired, library, timers>>

ArStatusFails ==
  /\ arPc = "status"
  /\ Event
  /\ ArLeave
  /\ arQueue' = arQueue \cup {arAt}
  /\ UNCHANGED <<owner, first, wanted, config, requests, expired, library, timers>>

\* The operator starts again: a create event for every AccessRequest.
ArRestart ==
  /\ Event
  /\ ArLeave
  /\ timers' = {}
  /\ arQueue' = {x \in Names :
       /\ ar[x].state # "absent"
       /\ ~Responsible(ar[x]) \/ (x \in Timed /\ ar[x].state = "active")}
  /\ UNCHANGED <<owner, first, wanted, config, requests, expired, library>>

-----------------------------------------------------------------------------
(* The environment *)

\* Update of a registration, by the controller before it calls Reconcile.
UpdateRegistration(r) ==
  /\ pc = "idle"
  /\ owner = "live"
  /\ Event
  /\ \/ /\ r \in wanted
        /\ config' = [config EXCEPT ![r] = @ + 1]
        /\ UNCHANGED wanted
     \/ /\ Switches
        /\ wanted' = (wanted \ {r}) \cup ({r} \ wanted)
        /\ UNCHANGED config
  /\ queued' = TRUE
  /\ UNCHANGED <<owner, first, requests, expired, pc, call, copy, marked, todo, at, seen, again,
                 controller>>

DeleteOwner ==
  /\ owner = "live"
  /\ owner' = "deleting"
  /\ queued' = TRUE
  /\ UNCHANGED <<first, wanted, config, requests, expired, pc, call, copy, marked, todo, at, seen,
                 again, controller, events>>

UserAsks(x) ==
  /\ x \in Timed
  /\ x \notin expired
  /\ ar[x].state = "absent"
  /\ ChangeAccess(x, NewAccess({}, 1))
  /\ UNCHANGED <<owner, first, wanted, config, namespace, cr, provided, expired, library, arPc, arAt,
                 arCopy, arFailed, timers, events>>

\* The clock: the TTL runs from the creation.
Expire(x) ==
  /\ x \in Timed
  /\ x \notin expired
  /\ ar[x].state # "absent"
  /\ expired' = expired \cup {x}
  /\ UNCHANGED <<owner, first, wanted, config, requests, library, controller, events>>

SchedulerAdopts(r) ==
  /\ cr[r].state = "active"
  /\ "scheduler" \notin cr[r].finalizers
  /\ cr' = [cr EXCEPT ![r].finalizers = @ \cup {"scheduler"}]
  /\ UNCHANGED <<owner, first, wanted, config, namespace, ar, provided, expired, library, controller,
                 events>>

SchedulerGrants(r) ==
  /\ cr[r].state = "active"
  /\ "scheduler" \in cr[r].finalizers
  /\ ~cr[r].granted
  /\ cr' = [cr EXCEPT ![r].granted = TRUE]
  /\ UNCHANGED <<owner, first, wanted, config, namespace, ar, provided, expired, library, controller,
                 events>>

SchedulerReleases(r) ==
  /\ cr[r].state = "deleting"
  /\ "scheduler" \in cr[r].finalizers
  /\ cr' = [cr EXCEPT ![r] = Without(@, {"scheduler"}, NoRequest)]
  /\ UNCHANGED <<owner, first, wanted, config, namespace, ar, provided, expired, library, controller,
                 events>>

ProviderAdopts(x) ==
  /\ ar[x].state = "active"
  /\ Responsible(ar[x])
  /\ "provider" \notin ar[x].finalizers
  /\ ar' = [ar EXCEPT ![x].finalizers = @ \cup {"provider"}]
  /\ UNCHANGED <<owner, first, wanted, config, namespace, cr, provided, expired, library, controller,
                 events>>

ProviderGrants(x) ==
  /\ ar[x].state = "active"
  /\ Responsible(ar[x])
  /\ ar[x].phase = "Pending"
  /\ "provider" \in ar[x].finalizers
  /\ provided' = [provided EXCEPT ![x] = ar[x].version]
  /\ ar' = [ar EXCEPT ![x].phase = "Granted", ![x].observed = ar[x].generation]
  /\ UNCHANGED <<owner, first, wanted, config, namespace, cr, expired, library, controller,
                 events>>

ProviderRevokes(x) ==
  /\ ar[x].state = "deleting"
  /\ Responsible(ar[x])
  /\ "provider" \in ar[x].finalizers
  /\ provided' = [provided EXCEPT ![x] = 0]
  /\ ar' = [ar EXCEPT ![x] = Without(@, {"provider"}, NoAccess)]
  /\ UNCHANGED <<owner, first, wanted, config, namespace, cr, expired, library, controller,
                 events>>

-----------------------------------------------------------------------------
LibraryStep ==
  \/ Dequeue
  \/ \E r \in Registrations : Visit(r)
  \/ EnsureRequest
  \/ EnsureAccess
  \/ GetAccess
  \/ DeleteAccess
  \/ ReleaseAccess
  \/ GetRequest
  \/ DeleteRequest
  \/ ReleaseRequest
  \/ Reconciled
  \/ DeleteReconciled
  \/ Finalize

ControllerStep ==
  \/ \E x \in Names : ArRead(x)
  \/ ArDelete
  \/ ArLabel
  \/ ArStatus

ProviderStep(x) ==
  \/ ProviderAdopts(x)
  \/ ProviderGrants(x)
  \/ ProviderRevokes(x)

SchedulerStep(r) ==
  \/ SchedulerAdopts(r)
  \/ SchedulerGrants(r)
  \/ SchedulerReleases(r)

Next ==
  \/ LibraryStep
  \/ CallFails
  \/ Restart
  \/ ControllerStep
  \/ \E x \in Names : ArTimer(x)
  \/ ArCallFails
  \/ ArStatusFails
  \/ ArRestart
  \/ \E r \in Registrations : UpdateRegistration(r)
  \/ DeleteOwner
  \/ \E x \in Timed : UserAsks(x) \/ Expire(x)
  \/ \E r \in Registrations : SchedulerStep(r)
  \/ \E x \in Names : ProviderStep(x)

Spec == Init /\ [][Next]_vars

\* The workers and the timers go on, the scheduler and the provider answer.
Fairness ==
  /\ WF_vars(LibraryStep)
  /\ WF_vars(ControllerStep)
  /\ \A x \in Names : WF_vars(ArTimer(x)) /\ WF_vars(ProviderStep(x))
  /\ \A r \in Registrations : WF_vars(SchedulerStep(r))

FairSpec == Spec /\ Fairness

-----------------------------------------------------------------------------
(* Properties *)

\* The values the variables may have.
TypeOK ==
  /\ owner \in {"live", "deleting", "gone"}
  /\ first \in BOOLEAN
  /\ wanted \subseteq Registrations
  /\ config \in [Registrations -> Nat]
  /\ namespace \in BOOLEAN
  /\ cr \in [Registrations -> RequestType]
  /\ ar \in [Names -> AccessType]
  /\ \A x \in Names : ar[x].state = "absent" => ar[x] = NoAccess
  /\ provided \in [Names -> Nat]
  /\ expired \subseteq Timed
  /\ queued \in BOOLEAN
  /\ pc \in {"idle", "visit", "request", "access", "getAccess", "deleteAccess", "releaseAccess",
            "getRequest", "deleteRequest", "releaseRequest", "finalize"}
  /\ call \in {"Reconcile", "ReconcileDelete"}
  /\ copy \in {"live", "deleting"}
  /\ marked \in BOOLEAN
  /\ todo \subseteq Registrations
  /\ at \in Registrations \cup {"none"}
  /\ seen \subseteq {Finalizer, "scheduler", "provider"}
  /\ again \in BOOLEAN
  /\ arQueue \subseteq Names
  /\ arPc \in {"idle", "delete", "label", "status"}
  /\ arAt \in Names \cup {"none"}
  /\ arCopy \in AccessType
  /\ arFailed \in BOOLEAN
  /\ timers \subseteq Timed
  /\ events \in 0..MaxEvents

\* When the controller of the owner has let it go, no request made for it is left,
\* also after a restart that lost requestsInDeletion.  Only the AccessRequest of a
\* registration whose access is switched off may be: ReconcileDelete passes it over.
NothingLeftBehind ==
  owner = "gone" =>
    /\ \A r \in wanted : ar[r].state = "absent"
    /\ \A r \in Own : cr[r].state = "absent"

\* The moment Reconcile asks for no further reconciliation.
Rests == pc = "visit" /\ pc' = "idle" /\ ~queued /\ ~queued'

HasAccess(r) ==
  /\ ar[r].state = "active"
  /\ ar[r].phase = "Granted"
  /\ provided[r] = config[r]

\* What the docs promise: Reconcile asks for no further reconciliation only if every
\* wanted access is there as it is configured, so that the getters succeed.
ReadyMeansAccess == [][Rests => \A r \in wanted : HasAccess(r)]_vars

\* What the code keeps of that: a grant of an older configuration never counts.  The
\* exception is an AccessRequest in deletion, of an access that was switched off and
\* on again, which EnsureAccess passes over.  (The phase is left out: the
\* status patch that access_generation is about can set it back in the meantime.)
ReadyMeansCurrent ==
  [][Rests => \A r \in wanted :
       \/ ar[r].state = "deleting"
       \/ ar[r].state = "active" /\ provided[r] = config[r]]_vars

\* A registration's ClusterRequest, and with it the cluster, is given up only when the
\* AccessRequest for it is gone, whose provider still needs the cluster, unless the
\* access of the registration is switched off.
ClusterOutlivesAccess ==
  [][\A r \in Own \cap wanted :
       cr[r].state = "active" /\ cr'[r].state # "active" => ar[r].state = "absent"]_vars

\* Neither controller takes back the grant of an AccessRequest that has not changed
\* since: the status patch of the AccessRequest controller is computed from a copy that
\* is older than the grant.  (It may well write an older observed generation.)
GrantStays ==
  [][\A x \in Names :
       /\ ar[x].phase = "Granted" /\ ar[x].observed = ar[x].generation
       /\ ar'[x].state = "active" /\ ar'[x].generation = ar[x].generation
       => ar'[x].phase = "Granted"]_vars

\* An owner that lives on gets all its access, with the configuration it has.
EventuallyReady ==
  (owner = "live") ~>
    (owner # "live" \/ (pc = "idle" /\ ~queued /\ \A r \in wanted : HasAccess(r)))

\* A granted AccessRequest whose status lags behind, and nobody is about to repair it.
Forgotten(r) ==
  /\ ar[r].state = "active" /\ ar[r].phase = "Granted"
  /\ ar[r].observed # ar[r].generation
  /\ r \notin arQueue /\ arAt # r

\* Reconcile has passed over an AccessRequest in deletion whose access is wanted.
PassedOver(r) == owner = "live" /\ pc = "idle" /\ ~queued /\ ar[r].state = "deleting"

\* EventuallyReady, wherever neither of these happens, which the runs access_generation
\* and access_ready show: access comes after failing calls, restarts of both processes,
\* changes of its configuration and of the registrations.
EventuallyReadyUnlessMissed ==
  <>(\E r \in wanted : Forgotten(r) \/ PassedOver(r)) \/ EventuallyReady

\* The deletion of an owner comes to its end, unless its controller calls Reconcile
\* first and waits there for an AccessRequest that is forgotten.
EventuallyGone ==
  (owner = "deleting") ~> (owner = "gone" \/ \E r \in wanted : Forgotten(r))

\* An AccessRequest does not outlive its TTL for ever.
EventuallyExpired == \A x \in Timed : (x \in expired) ~> (ar[x].state = "absent")

=============================================================================

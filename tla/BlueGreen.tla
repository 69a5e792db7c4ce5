----------------------------- MODULE BlueGreen -----------------------------
(***************************************************************************)
(* Blue-green rollouts, src/src/gitops/blue_green_service.py.              *)
(*                                                                         *)
(* A manager process runs deploy or abort.  Every call to the GitOps       *)
(* client is one step of its own, may raise with or without effect, and    *)
(* the process may crash before it.  The cluster behind the client is      *)
(* external: two colors, the color that serves, the color under preview, a *)
(* lock without an owner, and requests in flight on each color.  A color   *)
(* that is promoted (the other one scaled down) is no longer reported as   *)
(* preview.                                                                *)
(***************************************************************************)
EXTENDS Naturals, FiniteSets

CONSTANTS
  Managers,     \* processes that run deploy or abort, once each
  Revisions,    \* revision ids, 0 for a color that is not deployed
  MaxAttempts,  \* max_health_retry_attempts
  MaxInFlight,  \* bound on the requests in flight on a color
  MaxRunning    \* how many operations its users run side by side

ASSUME BlueGreenAssumption ==
  /\ Revisions \subseteq Nat \ {0} /\ 1 \in Revisions
  /\ MaxAttempts \in Nat \ {0} /\ MaxInFlight \in Nat
  /\ MaxRunning \in Nat \ {0} /\ IsFiniteSet(Managers)

VARIABLES
  serving,    \* the color the active service routes to
  preview,    \* the color under preview, or "none"
  rev,        \* the revision deployed on each color, 0 for none
  healthy,    \* whether the deployment of each color is healthy
  inFlight,   \* requests in flight on each color
  locked,     \* the deployment lock of the application
  pc,         \* where each manager is
  old,        \* the color each manager found serving
  target,     \* the revision each manager deploys
  attempt,    \* health checks made
  stuck,      \* since the last unlock a manager crashed, its unlock raised, or its
              \* lock_deployment raised after it took effect (history)
  late        \* scale_down raised after it took effect (history)

cluster == <<serving, preview, rev, healthy, inFlight, locked, stuck>>
vars == <<cluster, pc, old, target, attempt, late>>

Colors == {"blue", "green"}
Opposite(c) == IF c = "blue" THEN "green" ELSE "blue"
Ended == {"idle", "succeeded", "failed", "aborted", "crashed"}
Aborting == {"aborting", "deleting", "unlocking_abort"}
InSection(m) == pc[m] \notin Ended \cup {"check", "lock"} \cup Aborting

Init ==
  /\ serving = "blue"
  /\ preview = "none"
  /\ rev = [c \in Colors |-> IF c = "blue" THEN 1 ELSE 0]
  /\ healthy = [c \in Colors |-> c = "blue"]
  /\ inFlight = [c \in Colors |-> 0]
  /\ locked = FALSE
  /\ pc = [m \in Managers |-> "idle"]
  /\ old = [m \in Managers |-> "blue"]
  /\ target = [m \in Managers |-> 1]
  /\ attempt = [m \in Managers |-> 0]
  /\ stuck = FALSE
  /\ late = FALSE

Goto(m, label) == pc' = [pc EXCEPT ![m] = label]
Starts(m) ==
  /\ pc[m] = "idle"
  /\ Cardinality({n \in Managers : pc[n] \notin Ended}) < MaxRunning
  /\ UNCHANGED late

(***************************************************************************)
(* deploy                                                                  *)
(***************************************************************************)
StartDeploy(m) ==
  /\ Starts(m)
  /\ Goto(m, "check")
  /\ \E r \in Revisions : target' = [target EXCEPT ![m] = r]
  /\ UNCHANGED <<cluster, old, attempt>>

LockFree == ~locked

\* _acquire_lock: is_deployment_locked, and then lock_deployment.
CheckLock(m) ==
  /\ pc[m] = "check"
  /\ Goto(m, IF LockFree THEN "lock" ELSE "failed")
  /\ UNCHANGED <<cluster, old, target, attempt, late>>

\* lock_deployment is called before the try: when it takes effect and raises,
\* nobody unlocks.
TakeLock(m) ==
  /\ pc[m] = "lock"
  /\ locked' = TRUE
  /\ \/ Goto(m, "inspect") /\ UNCHANGED stuck
     \/ Goto(m, "failed") /\ stuck' = TRUE
  /\ UNCHANGED <<serving, preview, rev, healthy, inFlight, old, target, attempt, late>>

\* get_active_color and get_deployment of that color.
Inspect(m) ==
  /\ pc[m] = "inspect"
  /\ old' = [old EXCEPT ![m] = serving]
  /\ Goto(m, IF healthy[serving] /\ rev[serving] # target[m] THEN "provision" ELSE "unlocking")
  /\ UNCHANGED <<cluster, target, attempt, late>>

\* create_or_update_preview; what raises after it took effect goes on as what
\* raises without.
Provision(m) ==
  /\ pc[m] = "provision"
  /\ LET c == Opposite(old[m])
     IN  /\ rev' = [rev EXCEPT ![c] = target[m]]
         /\ healthy' = [healthy EXCEPT ![c] = FALSE]
         /\ preview' = c
  /\ attempt' = [attempt EXCEPT ![m] = 0]
  /\ Goto(m, "polling") \/ Goto(m, "unlocking")
  /\ UNCHANGED <<serving, inFlight, locked, old, target, stuck, late>>

MutPassed(c) == TRUE
Passed(c) == healthy[c]

More(m) == attempt[m] + 1 < MaxAttempts

\* One turn of _validate_preview_health.
Poll(m) ==
  /\ pc[m] = "polling"
  /\ attempt' = [attempt EXCEPT ![m] = @ + 1]
  /\ Goto(m, IF Passed(Opposite(old[m])) THEN "routing"
             ELSE IF More(m) THEN "polling" ELSE "dropping")
  /\ UNCHANGED <<cluster, old, target, late>>

Deleted(c) ==
  /\ rev' = [rev EXCEPT ![c] = 0]
  /\ healthy' = [healthy EXCEPT ![c] = FALSE]
  /\ inFlight' = [inFlight EXCEPT ![c] = 0]
  /\ preview' = "none"

\* delete_preview after the last failed health check.
DropPreview(m) ==
  /\ pc[m] = "dropping"
  /\ Deleted(Opposite(old[m]))
  /\ Goto(m, "unlocking")
  /\ UNCHANGED <<serving, locked, old, target, attempt, stuck, late>>

\* route_traffic; when it raises after it took effect, traffic stays on the
\* preview: only what raises later is rolled back.
Route(m) ==
  /\ pc[m] = "routing"
  /\ serving' = Opposite(old[m])
  /\ Goto(m, "draining") \/ Goto(m, "unlocking")
  /\ UNCHANGED <<preview, rev, healthy, inFlight, locked, old, target, attempt, stuck, late>>

MutDrained == TRUE
Drained == \A c \in Colors : inFlight[c] = 0

\* One turn of _drain_in_flight_requests: done, again, or timed out.
Drain(m) ==
  /\ pc[m] = "draining"
  /\ \/ Drained /\ Goto(m, "scaling")
     \/ ~Drained /\ Goto(m, "rollback")
  /\ UNCHANGED <<cluster, old, target, attempt, late>>

MutScaled(m) == Opposite(old[m])
Scaled(m) == old[m]

\* scale_down of the retired color; it may raise when it is already done.
ScaleDown(m) ==
  /\ pc[m] = "scaling"
  /\ rev' = [rev EXCEPT ![Scaled(m)] = 0]
  /\ healthy' = [healthy EXCEPT ![Scaled(m)] = FALSE]
  /\ inFlight' = [inFlight EXCEPT ![Scaled(m)] = 0]
  /\ preview' = "none"
  /\ \/ Goto(m, "promoted") /\ UNCHANGED late
     \/ Goto(m, "rollback") /\ late' = TRUE
  /\ UNCHANGED <<serving, locked, old, target, attempt, stuck>>

\* Draining or scaling failed: traffic goes back.
Rollback(m) ==
  /\ pc[m] = "rollback"
  /\ serving' = old[m]
  /\ Goto(m, "unlocking")
  /\ UNCHANGED <<preview, rev, healthy, inFlight, locked, old, target, attempt, stuck, late>>

\* The finally clause of deploy and of abort.
Unlock(m) ==
  /\ pc[m] \in {"promoted", "unlocking", "unlocking_abort"}
  /\ locked' = FALSE
  /\ stuck' = FALSE
  /\ \/ Goto(m, "failed")
     \/ pc[m] = "promoted" /\ Goto(m, "succeeded")
     \/ pc[m] = "unlocking_abort" /\ Goto(m, "aborted")
  /\ UNCHANGED <<serving, preview, rev, healthy, inFlight, old, target, attempt, late>>

(***************************************************************************)
(* abort                                                                   *)
(***************************************************************************)
\* get_active_color and get_preview_color, either of which may raise.
StartAbort(m) ==
  /\ Starts(m)
  /\ old' = [old EXCEPT ![m] = preview]
  /\ \/ Goto(m, "unlocking_abort")
     \/ preview # "none" /\ serving = preview /\ Goto(m, "aborting")
     \/ preview # "none" /\ serving # preview /\ Goto(m, "deleting")
  /\ UNCHANGED <<cluster, target, attempt>>

\* The color under preview serves: traffic goes to the other one first.
AbortRoute(m) ==
  /\ pc[m] = "aborting"
  /\ serving' = Opposite(old[m])
  /\ Goto(m, "deleting") \/ Goto(m, "unlocking_abort")
  /\ UNCHANGED <<preview, rev, healthy, inFlight, locked, old, target, attempt, stuck, late>>

AbortDelete(m) ==
  /\ pc[m] = "deleting"
  /\ Deleted(old[m])
  /\ Goto(m, "unlocking_abort")
  /\ UNCHANGED <<serving, locked, old, target, attempt, stuck, late>>

(***************************************************************************)
(* A client call raises without effect; where the exception goes.          *)
(***************************************************************************)
MutHandler(label) ==
  IF label \in {"check", "lock", "aborting", "deleting"} THEN "failed"
  ELSE IF label \in {"draining", "scaling"} THEN "rollback" ELSE "unlocking"

Handler(label) ==
  CASE label \in {"check", "lock"}            -> "failed"
    [] label \in {"draining", "scaling"}      -> "rollback"
    [] label \in {"aborting", "deleting"}     -> "unlocking_abort"
    [] OTHER                                  -> "unlocking"

Raise(m) ==
  /\ pc[m] \notin Ended
  /\ IF pc[m] \in {"promoted", "unlocking", "unlocking_abort"}
     THEN Goto(m, "failed") /\ stuck' = locked
     ELSE Goto(m, Handler(pc[m])) /\ UNCHANGED stuck
  /\ UNCHANGED <<serving, preview, rev, healthy, inFlight, locked, old, target, attempt, late>>

Crash(m) ==
  /\ pc[m] \notin Ended
  /\ Goto(m, "crashed")
  /\ stuck' = locked
  /\ UNCHANGED <<serving, preview, rev, healthy, inFlight, locked, old, target, attempt, late>>

(***************************************************************************)
(* The cluster (external).                                                 *)
(***************************************************************************)
BecomesHealthy(c) ==
  /\ rev[c] # 0
  /\ healthy' = [healthy EXCEPT ![c] = TRUE]
  /\ UNCHANGED <<serving, preview, rev, inFlight, locked, pc, old, target, attempt, stuck, late>>

RequestArrives ==
  /\ inFlight[serving] < MaxInFlight
  /\ inFlight' = [inFlight EXCEPT ![serving] = @ + 1]
  /\ UNCHANGED <<serving, preview, rev, healthy, locked, pc, old, target, attempt, stuck, late>>

RequestEnds(c) ==
  /\ inFlight[c] > 0
  /\ inFlight' = [inFlight EXCEPT ![c] = @ - 1]
  /\ UNCHANGED <<serving, preview, rev, healthy, locked, pc, old, target, attempt, stuck, late>>

Next ==
  \/ \E m \in Managers :
       \/ StartDeploy(m) \/ CheckLock(m) \/ TakeLock(m) \/ Inspect(m) \/ Provision(m)
       \/ Poll(m) \/ DropPreview(m) \/ Route(m) \/ Drain(m) \/ ScaleDown(m)
       \/ Rollback(m) \/ Unlock(m) \/ StartAbort(m) \/ AbortRoute(m) \/ AbortDelete(m)
       \/ Raise(m) \/ Crash(m)
  \/ RequestArrives
  \/ \E c \in Colors : BecomesHealthy(c) \/ RequestEnds(c)

Spec == Init /\ [][Next]_vars

-----------------------------------------------------------------------------
(***************************************************************************)
(* Properties.                                                             *)
(***************************************************************************)
Labels ==
  Ended \cup {"check", "lock", "inspect", "provision", "polling", "dropping", "routing",
              "draining", "scaling", "rollback", "promoted", "unlocking"} \cup Aborting

\* Every variable has the shape of what it stands for.
TypeOK ==
  /\ serving \in Colors
  /\ preview \in Colors \cup {"none"}
  /\ rev \in [Colors -> Revisions \cup {0}]
  /\ healthy \in [Colors -> BOOLEAN]
  /\ inFlight \in [Colors -> 0 .. MaxInFlight]
  /\ {locked, stuck, late} \subseteq BOOLEAN
  /\ pc \in [Managers -> Labels]
  /\ old \in [Managers -> Colors \cup {"none"}]
  /\ target \in [Managers -> Revisions]
  /\ attempt \in [Managers -> 0 .. MaxAttempts]

\* When operations run one at a time and no answer of scale_down is lost, the color that
\* serves is deployed and healthy at every moment, through failed calls,
\* crashes, rollbacks, aborts and whatever rollout comes next.
ServingIsHealthy == TypeOK /\ (~late => healthy[serving])

\* No deployment is taken down while it still has requests in flight, except
\* the preview that an abort gives up, and a preview that fails its health checks
\* (one that still answers requests of an earlier rollout that was rolled back).
NoRequestDropped ==
  [][\A c \in Colors : rev[c] # 0 /\ rev'[c] = 0 =>
       inFlight[c] = 0 \/ \E m \in Managers : pc[m] \in {"deleting", "dropping"}]_vars

\* The lock is not left behind: when nothing runs it is free, unless a manager
\* crashed, could not unlock, or had its lock_deployment raise after it took
\* effect, which deploy calls outside its try.
LockReleased == (\A m \in Managers : pc[m] \in Ended) /\ locked => stuck

\* What is left behind an abort clears: one that ends without a crash, whichever
\* of its calls raised, leaves the lock free, unless the unlock itself raised.
AbortUnlocks ==
  [][\A m \in Managers :
       pc[m] \in Aborting /\ pc'[m] \in Ended \ {"crashed"} /\ locked' =>
         pc[m] = "unlocking_abort" /\ pc'[m] = "failed"]_vars

\* A deploy that reports success has moved traffic to the revision it was asked
\* for, and the color that served before is gone.
SuccessIsServing ==
  [][\A m \in Managers : pc[m] = "promoted" /\ pc'[m] = "succeeded" =>
       serving # old[m] /\ rev[serving] = target[m] /\ rev[old[m]] = 0]_vars

\* What a rollout promises altogether: traffic is served by a healthy deployment
\* and keeps its requests, success means what it says, and the lock comes back.
RolloutsAreSafe ==
  /\ [](ServingIsHealthy /\ LockReleased)
  /\ AbortUnlocks
  /\ NoRequestDropped
  /\ SuccessIsServing

\* test_concurrent_deployment_raises_conflict: "Deploying while an existing
\* blue-green process is active raises conflict error."  Two managers that both
\* look before either locks, or an abort that unlocks, let a second one in.
OneDeploymentAtATime ==
  \A m, n \in Managers : InSection(m) /\ InSection(n) => m = n
=============================================================================

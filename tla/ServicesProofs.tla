--------------------------- MODULE ServicesProofs ---------------------------
(***************************************************************************)
(* Proofs about the services, as MCServices puts them together: rollouts,  *)
(* the cache, the webhooks, the rule worker, the charts that follow each   *)
(* other, the event simulation and the render loop, for any instance of    *)
(* each.                                                                   *)
(***************************************************************************)
EXTENDS MCServices, FiniteSetTheorems, SequenceTheorems, TLAPS

-----------------------------------------------------------------------------
(***************************************************************************)
(* The rollouts, where operations run one at a time (MaxRunning = 1):      *)
(* BlueGreenRace shows that the promise does not survive two at once.      *)
(*                                                                         *)
(* The inductive invariant says, for each place a manager may be at, what  *)
(* it knows of the cluster there (Knows), and what the cluster is left in  *)
(* when a manager fails or crashes at any of them: a healthy color serves, *)
(* and if the color that serves is the one under preview, which an abort   *)
(* would route away from, the other one is healthy as well.                *)
(***************************************************************************)
Running(m) == pc[m] \notin Ended

OneAtATime == \A m, n \in Managers : Running(m) /\ Running(n) => m = n

\* The lock is held by a manager in its section, or was left behind.
LockIsHeld == locked => stuck \/ \E m \in Managers : InSection(m)

WayBackIsHealthy ==
  ~late => healthy[serving] /\ (preview = serving => healthy[Opposite(serving)])

\* What manager m knows of the cluster, by where it is.
Knows(m) ==
  LET new == Opposite(old[m]) IN
  /\ pc[m] \in {"provision", "polling", "dropping", "routing"} =>
       old[m] \in Colors /\ serving = old[m] /\ healthy[old[m]]
  /\ pc[m] \in {"polling", "dropping", "routing", "draining", "scaling"} =>
       preview = new /\ rev[new] = target[m]
  /\ pc[m] = "polling" => attempt[m] < MaxAttempts
  /\ pc[m] = "routing" => healthy[new]
  /\ pc[m] \in {"draining", "scaling"} =>
       old[m] \in Colors /\ serving = new /\ healthy[old[m]] /\ healthy[new]
  /\ pc[m] = "scaling" => inFlight[old[m]] = 0
  /\ pc[m] = "rollback" =>
       old[m] \in Colors /\ (~late => healthy[old[m]] /\ preview = new)
  /\ pc[m] = "promoted" =>
       old[m] \in Colors /\ serving = new /\ rev[new] = target[m] /\ rev[old[m]] = 0
  /\ pc[m] \in {"aborting", "deleting"} => old[m] \in Colors /\ preview = old[m]
  /\ pc[m] = "aborting" => serving = old[m]
  /\ pc[m] = "deleting" => serving = new

RolloutInvariant ==
  /\ TypeOK /\ OneAtATime /\ LockIsHeld /\ WayBackIsHealthy
  /\ \A m \in Managers : Knows(m)

\* A manager that does not run knows nothing that a step could refute.
LEMMA EndedKnows == \A m \in Managers : pc[m] \in Ended => Knows(m)
BY DEF Knows, Ended

\* An operation starts when no other runs.
LEMMA StartsAlone ==
  ASSUME MaxRunning = 1, NEW m \in Managers, Starts(m)
  PROVE  \A n \in Managers : ~Running(n)
<1>. DEFINE R == {n \in Managers : pc[n] \notin Ended}
<1>1. IsFiniteSet(R) BY BlueGreenAssumption, FS_Subset DEF BlueGreenAssumption
<1>2. Cardinality(R) \in Nat /\ Cardinality(R) < 1
  BY <1>1, FS_CardinalityType DEF Starts
<1>3. R = {} BY <1>1, <1>2, FS_EmptySet
<1>. QED BY <1>3 DEF Running

LEMMA RolloutStarts == Init => RolloutInvariant
<1>. SUFFICES ASSUME Init PROVE RolloutInvariant
  OBVIOUS
<1>. USE BlueGreenAssumption DEF Init, Ended, Aborting, Colors, Opposite
<1>1. TypeOK
  <2>1. rev \in [Colors -> Revisions \cup {0}] OBVIOUS
  <2>2. healthy \in [Colors -> BOOLEAN] OBVIOUS
  <2>3. inFlight \in [Colors -> 0 .. MaxInFlight] OBVIOUS
  <2>4. attempt \in [Managers -> 0 .. MaxAttempts] OBVIOUS
  <2>. QED BY <2>1, <2>2, <2>3, <2>4 DEF TypeOK, Labels
<1>2. OneAtATime BY DEF OneAtATime, Running
<1>3. LockIsHeld BY DEF LockIsHeld
<1>4. WayBackIsHealthy BY DEF WayBackIsHealthy
<1>5. \A m \in Managers : Knows(m) BY EndedKnows
<1>. QED BY <1>1, <1>2, <1>3, <1>4, <1>5 DEF RolloutInvariant

\* A step of the manager that runs, or that starts to run.
LEMMA ManagerStep ==
  ASSUME MaxRunning = 1, RolloutInvariant, NEW m \in Managers,
         \/ StartDeploy(m) \/ CheckLock(m) \/ TakeLock(m) \/ Inspect(m) \/ Provision(m)
         \/ Poll(m) \/ DropPreview(m) \/ Route(m) \/ Drain(m) \/ ScaleDown(m)
         \/ Rollback(m) \/ Unlock(m) \/ StartAbort(m) \/ AbortRoute(m) \/ AbortDelete(m)
         \/ Raise(m) \/ Crash(m)
  PROVE  RolloutInvariant'
<1>. USE BlueGreenAssumption DEF RolloutInvariant, TypeOK, Labels, Ended, Aborting, Colors, Opposite, Goto, cluster
<1>1. CASE StartDeploy(m)
  <2>. USE <1>1 DEF StartDeploy, Starts
  <2>1. \A n \in Managers \ {m} : pc[n] \in Ended /\ pc'[n] = pc[n]
    BY StartsAlone DEF Running
  <2>2. TypeOK' BY DEF Knows
  <2>3. OneAtATime' BY <2>1 DEF OneAtATime, Running
  <2>4. LockIsHeld' BY <2>1 DEF LockIsHeld, InSection
  <2>5. WayBackIsHealthy' BY DEF WayBackIsHealthy, Knows
  <2>6. Knows(m)' BY DEF Knows, WayBackIsHealthy
  <2>7. \A n \in Managers \ {m} : Knows(n)' BY <2>1 DEF Knows
  <2>. QED BY <2>2, <2>3, <2>4, <2>5, <2>6, <2>7
<1>2. CASE CheckLock(m)
  <2>. USE <1>2 DEF CheckLock, LockFree
  <2>1. \A n \in Managers \ {m} : pc[n] \in Ended /\ pc'[n] = pc[n]
    BY DEF OneAtATime, Running
  <2>2. TypeOK' BY DEF Knows
  <2>3. OneAtATime' BY <2>1 DEF OneAtATime, Running
  <2>4. LockIsHeld' BY <2>1 DEF LockIsHeld, InSection
  <2>5. WayBackIsHealthy' BY DEF WayBackIsHealthy, Knows
  <2>6. Knows(m)' BY DEF Knows, WayBackIsHealthy
  <2>7. \A n \in Managers \ {m} : Knows(n)' BY <2>1 DEF Knows
  <2>. QED BY <2>2, <2>3, <2>4, <2>5, <2>6, <2>7
<1>3. CASE TakeLock(m)
  <2>. USE <1>3 DEF TakeLock
  <2>1. \A n \in Managers \ {m} : pc[n] \in Ended /\ pc'[n] = pc[n]
    BY DEF OneAtATime, Running
  <2>2. TypeOK' BY DEF Knows
  <2>3. OneAtATime' BY <2>1 DEF OneAtATime, Running
  <2>4. LockIsHeld' BY <2>1 DEF LockIsHeld, InSection
  <2>5. WayBackIsHealthy' BY DEF WayBackIsHealthy, Knows
  <2>6. Knows(m)' BY DEF Knows, WayBackIsHealthy
  <2>7. \A n \in Managers \ {m} : Knows(n)' BY <2>1 DEF Knows
  <2>. QED BY <2>2, <2>3, <2>4, <2>5, <2>6, <2>7
<1>4. CASE Inspect(m)
  <2>. USE <1>4 DEF Inspect
  <2>1. \A n \in Managers \ {m} : pc[n] \in Ended /\ pc'[n] = pc[n]
    BY DEF OneAtATime, Running
  <2>2. TypeOK' BY DEF Knows
  <2>3. OneAtATime' BY <2>1 DEF OneAtATime, Running
  <2>4. LockIsHeld' BY <2>1 DEF LockIsHeld, InSection
  <2>5. WayBackIsHealthy' BY DEF WayBackIsHealthy, Knows
  <2>6. Knows(m)' BY DEF Knows, WayBackIsHealthy
  <2>7. \A n \in Managers \ {m} : Knows(n)' BY <2>1 DEF Knows
  <2>. QED BY <2>2, <2>3, <2>4, <2>5, <2>6, <2>7
<1>5. CASE Provision(m)
  <2>. USE <1>5 DEF Provision
  <2>1. \A n \in Managers \ {m} : pc[n] \in Ended /\ pc'[n] = pc[n]
    BY DEF OneAtATime, Running
  <2>2. TypeOK' BY DEF Knows
  <2>3. OneAtATime' BY <2>1 DEF OneAtATime, Running
  <2>4. LockIsHeld' BY <2>1 DEF LockIsHeld, InSection
  <2>5. WayBackIsHealthy' BY DEF WayBackIsHealthy, Knows
  <2>6. Knows(m)' BY DEF Knows, WayBackIsHealthy
  <2>7. \A n \in Managers \ {m} : Knows(n)' BY <2>1 DEF Knows
  <2>. QED BY <2>2, <2>3, <2>4, <2>5, <2>6, <2>7
<1>6. CASE Poll(m)
  <2>. USE <1>6 DEF Poll, Passed, More
  <2>1. \A n \in Managers \ {m} : pc[n] \in Ended /\ pc'[n] = pc[n]
    BY DEF OneAtATime, Running
  <2>2. TypeOK' BY DEF Knows
  <2>3. OneAtATime' BY <2>1 DEF OneAtATime, Running
  <2>4. LockIsHeld' BY <2>1 DEF LockIsHeld, InSection
  <2>5. WayBackIsHealthy' BY DEF WayBackIsHealthy, Knows
  <2>6. Knows(m)' BY DEF Knows, WayBackIsHealthy
  <2>7. \A n \in Managers \ {m} : Knows(n)' BY <2>1 DEF Knows
  <2>. QED BY <2>2, <2>3, <2>4, <2>5, <2>6, <2>7
<1>7. CASE DropPreview(m)
  <2>. USE <1>7 DEF DropPreview, Deleted
  <2>1. \A n \in Managers \ {m} : pc[n] \in Ended /\ pc'[n] = pc[n]
    BY DEF OneAtATime, Running
  <2>2. TypeOK' BY DEF Knows
  <2>3. OneAtATime' BY <2>1 DEF OneAtATime, Running
  <2>4. LockIsHeld' BY <2>1 DEF LockIsHeld, InSection
  <2>5. WayBackIsHealthy' BY DEF WayBackIsHealthy, Knows
  <2>6. Knows(m)' BY DEF Knows, WayBackIsHealthy
  <2>7. \A n \in Managers \ {m} : Knows(n)' BY <2>1 DEF Knows
  <2>. QED BY <2>2, <2>3, <2>4, <2>5, <2>6, <2>7
<1>8. CASE Route(m)
  <2>. USE <1>8 DEF Route
  <2>1. \A n \in Managers \ {m} : pc[n] \in Ended /\ pc'[n] = pc[n]
    BY DEF OneAtATime, Running
  <2>2. TypeOK' BY DEF Knows
  <2>3. OneAtATime' BY <2>1 DEF OneAtATime, Running
  <2>4. LockIsHeld' BY <2>1 DEF LockIsHeld, InSection
  <2>5. WayBackIsHealthy' BY DEF WayBackIsHealthy, Knows
  <2>6. Knows(m)' BY DEF Knows, WayBackIsHealthy
  <2>7. \A n \in Managers \ {m} : Knows(n)' BY <2>1 DEF Knows
  <2>. QED BY <2>2, <2>3, <2>4, <2>5, <2>6, <2>7
<1>9. CASE Drain(m)
  <2>. USE <1>9 DEF Drain, Drained
  <2>1. \A n \in Managers \ {m} : pc[n] \in Ended /\ pc'[n] = pc[n]
    BY DEF OneAtATime, Running
  <2>2. TypeOK' BY DEF Knows
  <2>3. OneAtATime' BY <2>1 DEF OneAtATime, Running
  <2>4. LockIsHeld' BY <2>1 DEF LockIsHeld, InSection
  <2>5. WayBackIsHealthy' BY DEF WayBackIsHealthy, Knows
  <2>6. Knows(m)' BY DEF Knows, WayBackIsHealthy
  <2>7. \A n \in Managers \ {m} : Knows(n)' BY <2>1 DEF Knows
  <2>. QED BY <2>2, <2>3, <2>4, <2>5, <2>6, <2>7
<1>10. CASE ScaleDown(m)
  <2>. USE <1>10 DEF ScaleDown, Scaled
  <2>1. \A n \in Managers \ {m} : pc[n] \in Ended /\ pc'[n] = pc[n]
    BY DEF OneAtATime, Running
  <2>2. TypeOK'
    <3>1. /\ rev' \in [Colors -> Revisions \cup {0}] /\ healthy' \in [Colors -> BOOLEAN]
          /\ inFlight' \in [Colors -> 0 .. MaxInFlight] /\ preview' = "none"
      <4>1. old[m] \in Colors \cup {"none"} /\ FALSE \in BOOLEAN /\ 0 \in 0 .. MaxInFlight
        OBVIOUS
      <4>2. /\ rev' = [rev EXCEPT ![old[m]] = 0] /\ preview' = "none"
            /\ healthy' = [healthy EXCEPT ![old[m]] = FALSE]
            /\ inFlight' = [inFlight EXCEPT ![old[m]] = 0]
        OBVIOUS
      <4>3. /\ rev \in [Colors -> Revisions \cup {0}] /\ healthy \in [Colors -> BOOLEAN]
            /\ inFlight \in [Colors -> 0 .. MaxInFlight]
        OBVIOUS
      <4>. HIDE DEF Colors, RolloutInvariant, TypeOK, ScaleDown
      <4>. QED BY <4>1, <4>2, <4>3
    <3>2. late' \in BOOLEAN /\ pc' \in [Managers -> Labels]
      OBVIOUS
    <3>3. UNCHANGED <<serving, locked, old, target, attempt, stuck>>
      OBVIOUS
    <3>. QED BY <3>1, <3>2, <3>3
  <2>3. OneAtATime' BY <2>1 DEF OneAtATime, Running
  <2>4. LockIsHeld' BY <2>1 DEF LockIsHeld, InSection
  <2>5. WayBackIsHealthy' BY DEF WayBackIsHealthy, Knows
  <2>6. Knows(m)' BY DEF Knows, WayBackIsHealthy
  <2>7. \A n \in Managers \ {m} : Knows(n)' BY <2>1 DEF Knows
  <2>. QED BY <2>2, <2>3, <2>4, <2>5, <2>6, <2>7
<1>11. CASE Rollback(m)
  <2>. USE <1>11 DEF Rollback
  <2>1. \A n \in Managers \ {m} : pc[n] \in Ended /\ pc'[n] = pc[n]
    BY DEF OneAtATime, Running
  <2>2. TypeOK' BY DEF Knows
  <2>3. OneAtATime' BY <2>1 DEF OneAtATime, Running
  <2>4. LockIsHeld' BY <2>1 DEF LockIsHeld, InSection
  <2>5. WayBackIsHealthy' BY DEF WayBackIsHealthy, Knows
  <2>6. Knows(m)' BY DEF Knows, WayBackIsHealthy
  <2>7. \A n \in Managers \ {m} : Knows(n)' BY <2>1 DEF Knows
  <2>. QED BY <2>2, <2>3, <2>4, <2>5, <2>6, <2>7
<1>12. CASE Unlock(m)
  <2>. USE <1>12 DEF Unlock
  <2>1. \A n \in Managers \ {m} : pc[n] \in Ended /\ pc'[n] = pc[n]
    BY DEF OneAtATime, Running
  <2>2. TypeOK' BY DEF Knows
  <2>3. OneAtATime' BY <2>1 DEF OneAtATime, Running
  <2>4. LockIsHeld' BY <2>1 DEF LockIsHeld, InSection
  <2>5. WayBackIsHealthy' BY DEF WayBackIsHealthy, Knows
  <2>6. Knows(m)' BY DEF Knows, WayBackIsHealthy
  <2>7. \A n \in Managers \ {m} : Knows(n)' BY <2>1 DEF Knows
  <2>. QED BY <2>2, <2>3, <2>4, <2>5, <2>6, <2>7
<1>13. CASE StartAbort(m)
  <2>. USE <1>13 DEF StartAbort, Starts
  <2>1. \A n \in Managers \ {m} : pc[n] \in Ended /\ pc'[n] = pc[n]
    BY StartsAlone DEF Running
  <2>2. TypeOK' BY DEF Knows
  <2>3. OneAtATime' BY <2>1 DEF OneAtATime, Running
  <2>4. LockIsHeld' BY <2>1 DEF LockIsHeld, InSection
  <2>5. WayBackIsHealthy' BY DEF WayBackIsHealthy, Knows
  <2>6. Knows(m)' BY DEF Knows, WayBackIsHealthy
  <2>7. \A n \in Managers \ {m} : Knows(n)' BY <2>1 DEF Knows
  <2>. QED BY <2>2, <2>3, <2>4, <2>5, <2>6, <2>7
<1>14. CASE AbortRoute(m)
  <2>. USE <1>14 DEF AbortRoute
  <2>1. \A n \in Managers \ {m} : pc[n] \in Ended /\ pc'[n] = pc[n]
    BY DEF OneAtATime, Running
  <2>2. TypeOK' BY DEF Knows
  <2>3. OneAtATime' BY <2>1 DEF OneAtATime, Running
  <2>4. LockIsHeld' BY <2>1 DEF LockIsHeld, InSection
  <2>5. WayBackIsHealthy' BY DEF WayBackIsHealthy, Knows
  <2>6. Knows(m)' BY DEF Knows, WayBackIsHealthy
  <2>7. \A n \in Managers \ {m} : Knows(n)' BY <2>1 DEF Knows
  <2>. QED BY <2>2, <2>3, <2>4, <2>5, <2>6, <2>7
<1>15. CASE AbortDelete(m)
  <2>. USE <1>15 DEF AbortDelete, Deleted
  <2>1. \A n \in Managers \ {m} : pc[n] \in Ended /\ pc'[n] = pc[n]
    BY DEF OneAtATime, Running
  <2>2. TypeOK' BY DEF Knows
  <2>3. OneAtATime' BY <2>1 DEF OneAtATime, Running
  <2>4. LockIsHeld' BY <2>1 DEF LockIsHeld, InSection
  <2>5. WayBackIsHealthy' BY DEF WayBackIsHealthy, Knows
  <2>6. Knows(m)' BY DEF Knows, WayBackIsHealthy
  <2>7. \A n \in Managers \ {m} : Knows(n)' BY <2>1 DEF Knows
  <2>. QED BY <2>2, <2>3, <2>4, <2>5, <2>6, <2>7
<1>16. CASE Raise(m)
  <2>. USE <1>16 DEF Raise, Handler
  <2>1. \A n \in Managers \ {m} : pc[n] \in Ended /\ pc'[n] = pc[n]
    BY DEF OneAtATime, Running
  <2>2. TypeOK' BY DEF Knows
  <2>3. OneAtATime' BY <2>1 DEF OneAtATime, Running
  <2>4. LockIsHeld' 
    <3>1. CASE pc[m] \in {"promoted", "unlocking", "unlocking_abort"}
      BY <3>1 DEF LockIsHeld
    <3>2. CASE pc[m] \notin {"promoted", "unlocking", "unlocking_abort"}
      <4>1. InSection(m) => InSection(m)' BY <3>2 DEF InSection
      <4>2. locked' = locked /\ stuck' = stuck BY <3>2
      <4>. QED BY <2>1, <4>1, <4>2 DEF LockIsHeld, InSection
    <3>. QED BY <3>1, <3>2
  <2>5. WayBackIsHealthy' BY DEF WayBackIsHealthy, Knows
  <2>6. Knows(m)' BY DEF Knows, WayBackIsHealthy
  <2>7. \A n \in Managers \ {m} : Knows(n)' BY <2>1 DEF Knows
  <2>. QED BY <2>2, <2>3, <2>4, <2>5, <2>6, <2>7
<1>17. CASE Crash(m)
  <2>. USE <1>17 DEF Crash
  <2>1. \A n \in Managers \ {m} : pc[n] \in Ended /\ pc'[n] = pc[n]
    BY DEF OneAtATime, Running
  <2>2. TypeOK' BY DEF Knows
  <2>3. OneAtATime' BY <2>1 DEF OneAtATime, Running
  <2>4. LockIsHeld' BY <2>1 DEF LockIsHeld, InSection
  <2>5. WayBackIsHealthy' BY DEF WayBackIsHealthy, Knows
  <2>6. Knows(m)' BY DEF Knows, WayBackIsHealthy
  <2>7. \A n \in Managers \ {m} : Knows(n)' BY <2>1 DEF Knows
  <2>. QED BY <2>2, <2>3, <2>4, <2>5, <2>6, <2>7
<1>. QED BY <1>1, <1>2, <1>3, <1>4, <1>5, <1>6, <1>7, <1>8, <1>9, <1>10, <1>11, <1>12, <1>13, <1>14, <1>15, <1>16, <1>17

\* A step of the cluster by itself.
LEMMA ClusterStep ==
  ASSUME RolloutInvariant,
         RequestArrives \/ \E c \in Colors : BecomesHealthy(c) \/ RequestEnds(c)
  PROVE  RolloutInvariant'
<1>. USE BlueGreenAssumption DEF RolloutInvariant, TypeOK, Labels, Ended, Aborting, Colors, Opposite
<1>1. CASE RequestArrives
  <2>. USE <1>1 DEF RequestArrives
  <2>1. TypeOK' OBVIOUS
  <2>2. OneAtATime' /\ LockIsHeld' /\ WayBackIsHealthy'
    BY DEF OneAtATime, LockIsHeld, WayBackIsHealthy, Running, InSection
  <2>3. ASSUME NEW m \in Managers PROVE Knows(m)'
    BY DEF Knows
  <2>. QED BY <2>1, <2>2, <2>3
<1>2. ASSUME NEW c \in Colors, BecomesHealthy(c) PROVE RolloutInvariant'
  <2>. USE <1>2 DEF BecomesHealthy
  <2>1. TypeOK' OBVIOUS
  <2>2. OneAtATime' /\ LockIsHeld' /\ WayBackIsHealthy'
    BY DEF OneAtATime, LockIsHeld, WayBackIsHealthy, Running, InSection
  <2>3. ASSUME NEW m \in Managers PROVE Knows(m)'
    BY DEF Knows
  <2>. QED BY <2>1, <2>2, <2>3
<1>3. ASSUME NEW c \in Colors, RequestEnds(c) PROVE RolloutInvariant'
  <2>. USE <1>3 DEF RequestEnds
  <2>1. TypeOK' OBVIOUS
  <2>2. OneAtATime' /\ LockIsHeld' /\ WayBackIsHealthy'
    BY DEF OneAtATime, LockIsHeld, WayBackIsHealthy, Running, InSection
  <2>3. ASSUME NEW m \in Managers PROVE Knows(m)'
    BY DEF Knows
  <2>. QED BY <2>1, <2>2, <2>3
<1>. QED BY <1>1, <1>2, <1>3

LEMMA RolloutStep ==
  ASSUME MaxRunning = 1, RolloutInvariant, [Next]_vars
  PROVE  RolloutInvariant'
<1>1. CASE Next
  BY <1>1, ManagerStep, ClusterStep DEF Next
<1>2. CASE UNCHANGED vars
  BY <1>2 DEF vars, cluster, RolloutInvariant, TypeOK, OneAtATime, LockIsHeld, WayBackIsHealthy,
    Knows, Running, InSection, Aborting
<1>. QED BY <1>1, <1>2

LEMMA RolloutInvariantHolds == ASSUME MaxRunning = 1 PROVE Spec => []RolloutInvariant
<1>1. RolloutInvariant /\ [Next]_vars => RolloutInvariant'
  BY RolloutStep
<1>. QED BY <1>1, RolloutStarts, PTL DEF Spec

\* Nothing but a scale-down, a preview's end or an abort takes a revision off a color,
\* and a scale-down finds no request in flight.
LEMMA OnlyDrainedGoes ==
  ASSUME RolloutInvariant, Next, NEW c \in Colors, rev[c] # 0, rev'[c] = 0
  PROVE  inFlight[c] = 0 \/ \E m \in Managers : pc[m] \in {"deleting", "dropping"}
<1>. USE BlueGreenAssumption DEF RolloutInvariant, TypeOK
<1>1. ASSUME NEW m \in Managers, Provision(m) PROVE FALSE
  BY <1>1 DEF Provision, Knows, Colors, Opposite, BlueGreenAssumption
<1>2. ASSUME NEW m \in Managers, ScaleDown(m) PROVE inFlight[c] = 0
  BY <1>2 DEF ScaleDown, Scaled, Knows, Colors, Opposite
<1>3. ASSUME NEW m \in Managers, DropPreview(m) \/ AbortDelete(m)
      PROVE  pc[m] \in {"deleting", "dropping"}
  BY <1>3 DEF DropPreview, AbortDelete
<1>4. ASSUME rev' = rev PROVE FALSE
  BY <1>4
<1>. QED
  BY <1>1, <1>2, <1>3, <1>4 DEF Next, StartDeploy, CheckLock, TakeLock, Inspect, Poll, Route, Drain,
    Rollback, Unlock, StartAbort, AbortRoute, Raise, Crash, RequestArrives, BecomesHealthy,
    RequestEnds, cluster

\* An abort that ends has unlocked, or its unlock raised.
LEMMA AbortsUnlock ==
  ASSUME RolloutInvariant, Next, NEW m \in Managers,
         pc[m] \in Aborting, pc'[m] \in Ended \ {"crashed"}, locked'
  PROVE  pc[m] = "unlocking_abort" /\ pc'[m] = "failed"
<1>. USE DEF RolloutInvariant, TypeOK, Ended, Aborting, Goto
<1>1. pc'[m] # pc[m]
  OBVIOUS
<1>2. ASSUME NEW n \in Managers, NEW label, pc' = [pc EXCEPT ![n] = label]
      PROVE  n = m /\ pc'[m] = label
  BY <1>1, <1>2
<1>3. ASSUME NEW n \in Managers, StartDeploy(n) \/ StartAbort(n) PROVE FALSE
  <2>1. pc[n] = "idle" /\ \E label : pc' = [pc EXCEPT ![n] = label]
    BY <1>3 DEF StartDeploy, StartAbort, Starts
  <2>. QED BY <2>1, <1>2
<1>4. ASSUME NEW n \in Managers,
             \/ CheckLock(n) \/ TakeLock(n) \/ Inspect(n) \/ Provision(n) \/ Poll(n)
             \/ DropPreview(n) \/ Route(n) \/ Drain(n) \/ ScaleDown(n) \/ Rollback(n)
      PROVE  FALSE
  <2>1. pc[n] \notin Aborting /\ \E label : pc' = [pc EXCEPT ![n] = label]
    BY <1>4 DEF CheckLock, TakeLock, Inspect, Provision, Poll, DropPreview, Route, Drain,
      ScaleDown, Rollback
  <2>. QED BY <2>1, <1>2
<1>5. ASSUME NEW n \in Managers, AbortRoute(n) \/ AbortDelete(n) PROVE FALSE
  <2>1. \E label \in {"deleting", "unlocking_abort"} : pc' = [pc EXCEPT ![n] = label]
    BY <1>5 DEF AbortRoute, AbortDelete
  <2>. QED BY <2>1, <1>2
<1>6. ASSUME NEW n \in Managers, Unlock(n) PROVE FALSE
  BY <1>6 DEF Unlock
<1>7. ASSUME NEW n \in Managers, Crash(n) PROVE FALSE
  BY <1>7, <1>2 DEF Crash
<1>8. ASSUME NEW n \in Managers, Raise(n)
      PROVE  pc[m] = "unlocking_abort" /\ pc'[m] = "failed"
  <2>1. \E label : pc' = [pc EXCEPT ![n] = label]
    BY <1>8 DEF Raise
  <2>2. n = m
    BY <2>1, <1>2
  <2>3. CASE pc[m] = "unlocking_abort"
    BY <1>8, <2>2, <2>3, <1>2 DEF Raise
  <2>4. CASE pc[m] \in {"aborting", "deleting"}
    BY <1>8, <2>2, <2>4, <1>2 DEF Raise, Handler
  <2>. QED BY <2>3, <2>4
<1>9. ASSUME RequestArrives \/ \E c \in Colors : BecomesHealthy(c) \/ RequestEnds(c)
      PROVE  FALSE
  BY <1>1, <1>9 DEF RequestArrives, BecomesHealthy, RequestEnds
<1>. QED BY <1>3, <1>4, <1>5, <1>6, <1>7, <1>8, <1>9 DEF Next

\* Success is reported by the unlock of a promoted rollout only.
LEMMA OnlyPromotedSucceeds ==
  ASSUME RolloutInvariant, Next, NEW m \in Managers, pc[m] = "promoted", pc'[m] = "succeeded"
  PROVE  serving # old[m] /\ rev[serving] = target[m] /\ rev[old[m]] = 0
BY DEF RolloutInvariant, Knows, Colors, Opposite

\* Where operations run one at a time, for any number of managers, revisions and health
\* checks: traffic is served by a healthy deployment whatever fails or crashes, no request
\* is dropped, success means what it says, and the lock comes back, or the next abort
\* that ends clears it.
THEOREM RolloutsAreAlwaysSafe == ASSUME MaxRunning = 1 PROVE PartsSpec => RolloutsAreSafe
<1>1. RolloutInvariant => ServingIsHealthy /\ LockReleased
  BY DEF RolloutInvariant, ServingIsHealthy, LockReleased, WayBackIsHealthy, LockIsHeld, InSection
<1>2. RolloutInvariant /\ [Next]_vars =>
        [\A c \in Colors : rev[c] # 0 /\ rev'[c] = 0 =>
           inFlight[c] = 0 \/ \E m \in Managers : pc[m] \in {"deleting", "dropping"}]_vars
  BY OnlyDrainedGoes
<1>3. RolloutInvariant /\ [Next]_vars =>
        [\A m \in Managers : pc[m] = "promoted" /\ pc'[m] = "succeeded" =>
           serving # old[m] /\ rev[serving] = target[m] /\ rev[old[m]] = 0]_vars
  BY OnlyPromotedSucceeds
<1>4. RolloutInvariant /\ [Next]_vars =>
        [\A m \in Managers :
           pc[m] \in Aborting /\ pc'[m] \in Ended \ {"crashed"} /\ locked' =>
             pc[m] = "unlocking_abort" /\ pc'[m] = "failed"]_vars
  BY AbortsUnlock
<1>5. PartsInit => Init
  BY DEF PartsInit
<1>6. [PartsNext]_allVars => [Next]_vars
  BY DEF PartsNext, Frozen, allVars
<1>. QED
  BY <1>1, <1>2, <1>3, <1>4, <1>5, <1>6, RolloutInvariantHolds, PTL
     DEF PartsSpec, Spec, RolloutsAreSafe, AbortUnlocks, NoRequestDropped, SuccessIsServing

-----------------------------------------------------------------------------
(***************************************************************************)
(* The cache.                                                              *)
(***************************************************************************)
CallRecords ==
  [op : {"read", "fill", "found", "write"}, key : Keys, entry : Entries \cup {Absent}]

CacheTypes ==
  /\ Cache!TypeOK
  /\ call \in [Clients -> CallRecords \cup {Cache!Idle}]
  /\ since \in [Keys -> SUBSET (Entries \cup {Absent})] /\ raced \subseteq Keys

Tells(k, entry) == entry \in since[k] \cup {Absent}

On(c, k) == Cache!Busy(c) /\ call[c].key = k

\* Where no calls have met, a call on the key is alone with it, and what a write
\* left in the first tier stays there or expires until it has written the second.
KeyIsSound(k) ==
  /\ \A c, d \in Clients : On(c, k) /\ On(d, k) => c = d
  /\ Tells(k, l1[k]) /\ Tells(k, l2[k])
  /\ \A c \in Clients : On(c, k) =>
       /\ call[c].op \in {"fill", "found"} => Tells(k, call[c].entry)
       /\ call[c].op = "write" => call[c].entry \in since[k] /\ l1[k] \in {call[c].entry, Absent}

CacheInvariant == CacheTypes /\ \A k \in Keys \ raced : KeyIsSound(k)

LEMMA CacheStarts == Cache!Init => CacheInvariant
<1>. SUFFICES ASSUME Cache!Init PROVE CacheInvariant
  OBVIOUS
<1>. USE ServicesAssumption DEF Cache!Init
<1>1. CacheTypes BY DEF CacheTypes, Cache!TypeOK, Cache!CacheAssumption
<1>2. ASSUME NEW k \in Keys PROVE KeyIsSound(k)
  BY DEF KeyIsSound, Tells, On, Cache!Busy
<1>. QED BY <1>1, <1>2 DEF CacheInvariant

\* A step of a client.
LEMMA ClientStep ==
  ASSUME CacheInvariant, NEW c \in Clients,
         \/ \E k \in Keys : \/ Cache!get(c, k)
                           \/ \E v \in Entries \cup {Absent} : Cache!WriteFirst(c, k, v)
         \/ Cache!ReadSecond(c) \/ Cache!Backfill(c) \/ Cache!Return(c) \/ Cache!WriteSecond(c)
         \/ Cache!SecondRaises(c)
  PROVE  CacheInvariant'
<1>. USE ServicesAssumption
     DEF CacheInvariant, CacheTypes, Cache!TypeOK, CallRecords, Cache!Idle, Cache!CacheAssumption
<1>1. ASSUME NEW k \in Keys, Cache!get(c, k) PROVE CacheInvariant'
  <2>. USE <1>1 DEF Cache!get, Cache!Begins, Cache!Busy
  <2>1. CacheTypes' OBVIOUS
  <2>2. ASSUME NEW j \in Keys \ raced' PROVE KeyIsSound(j)'
    <3>1. j \in Keys \ raced /\ KeyIsSound(j) BY <2>2
    <3>2. j = k => \A d \in Clients : ~On(d, j) BY <2>2 DEF On
    <3>3. \A d \in Clients \ {c} : call'[d] = call[d] OBVIOUS
    <3>. QED BY <3>1, <3>2, <3>3 DEF KeyIsSound, On, Tells
  <2>. QED BY <2>1, <2>2
<1>2. ASSUME NEW k \in Keys, NEW v \in Entries \cup {Absent}, Cache!WriteFirst(c, k, v)
      PROVE  CacheInvariant'
  <2>. USE <1>2 DEF Cache!WriteFirst, Cache!Begins, Cache!Busy
  <2>1. CacheTypes' OBVIOUS
  <2>2. ASSUME NEW j \in Keys \ raced' PROVE KeyIsSound(j)'
    <3>1. j \in Keys \ raced /\ KeyIsSound(j) BY <2>2
    <3>2. j = k => \A d \in Clients : ~On(d, j) BY <2>2 DEF On
    <3>3. \A d \in Clients \ {c} : call'[d] = call[d] OBVIOUS
    <3>. QED BY <3>1, <3>2, <3>3 DEF KeyIsSound, On, Tells
  <2>. QED BY <2>1, <2>2
<1>3. CASE Cache!ReadSecond(c)
  <2>. USE <1>3 DEF Cache!ReadSecond, Cache!Busy
  <2>1. CacheTypes'
    <3>1. call[c] \in CallRecords /\ l2[call[c].key] \in Entries \cup {Absent} OBVIOUS
    <3>2. \A o \in {"fill", "found"}, e \in Entries \cup {Absent} :
            [call[c] EXCEPT !.op = o, !.entry = e] \in CallRecords
      BY <3>1
    <3>3. call'[c] \in CallRecords /\ call' = [call EXCEPT ![c] = call'[c]] BY <3>1, <3>2
    <3>. QED BY <3>3
  <2>2. /\ call'[c].op \in {"found", "fill"} /\ call[c].op = "read"
        /\ call'[c].key = call[c].key /\ call'[c].entry = l2[call[c].key]
        /\ Cache!Busy(c) /\ Cache!Busy(c)'
    OBVIOUS
  <2>3. \A d \in Clients \ {c} : call'[d] = call[d]
    OBVIOUS
  <2>4. l1' = l1 /\ l2' = l2 /\ since' = since /\ raced' = raced
    OBVIOUS
  <2>5. \A j \in Keys \ raced : KeyIsSound(j)
    OBVIOUS
  <2>. HIDE DEF Cache!ReadSecond, CacheInvariant, CacheTypes, Cache!TypeOK, CallRecords
  <2>6. ASSUME NEW j \in Keys \ raced PROVE KeyIsSound(j)'
    <3>1. KeyIsSound(j)
      BY <2>5
    <3>2. \A d \in Clients : On(d, j)' <=> On(d, j)
      BY <2>2, <2>3 DEF On, Cache!Busy
    <3>3. On(c, j) => Tells(j, call'[c].entry)
      BY <2>2, <3>1 DEF KeyIsSound, On
    <3>. QED BY <2>2, <2>3, <2>4, <3>1, <3>2, <3>3 DEF KeyIsSound, Tells
  <2>. QED BY <2>1, <2>4, <2>6 DEF CacheInvariant
<1>4. CASE Cache!Backfill(c)
  <2>. USE <1>4 DEF Cache!Backfill, Cache!Busy
  <2>1. CacheTypes' OBVIOUS
  <2>2. ASSUME NEW j \in Keys \ raced PROVE KeyIsSound(j)'
    <3>1. KeyIsSound(j) BY <2>2
    <3>2. \A d \in Clients \ {c} : call'[d] = call[d] OBVIOUS
    <3>. QED BY <3>1, <3>2 DEF KeyIsSound, On, Tells
  <2>. QED BY <2>1, <2>2
<1>5. CASE Cache!Return(c)
  <2>. USE <1>5 DEF Cache!Return, Cache!Ends, Cache!Busy
  <2>1. CacheTypes' OBVIOUS
  <2>2. ASSUME NEW j \in Keys \ raced PROVE KeyIsSound(j)'
    <3>1. KeyIsSound(j) BY <2>2
    <3>2. \A d \in Clients \ {c} : call'[d] = call[d] OBVIOUS
    <3>. QED BY <3>1, <3>2 DEF KeyIsSound, On, Tells
  <2>. QED BY <2>1, <2>2
<1>6. CASE Cache!WriteSecond(c)
  <2>. USE <1>6 DEF Cache!WriteSecond, Cache!WriteReturns, Cache!Ends, Cache!Busy
  <2>1. CacheTypes' OBVIOUS
  <2>2. ASSUME NEW j \in Keys \ raced PROVE KeyIsSound(j)'
    <3>1. KeyIsSound(j) BY <2>2
    <3>2. \A d \in Clients \ {c} : call'[d] = call[d] OBVIOUS
    <3>3. On(c, j) => \A d \in Clients : ~On(d, j)'
      BY <3>1, <3>2 DEF KeyIsSound, On
    <3>. QED BY <3>1, <3>2, <3>3 DEF KeyIsSound, On, Tells
  <2>. QED BY <2>1, <2>2
<1>7. CASE Cache!SecondRaises(c)
  <2>. USE <1>7 DEF Cache!SecondRaises, Cache!Ends, Cache!Busy
  <2>1. CacheTypes' OBVIOUS
  <2>2. ASSUME NEW j \in Keys \ raced PROVE KeyIsSound(j)'
    <3>1. KeyIsSound(j) BY <2>2
    <3>2. \A d \in Clients \ {c} : call'[d] = call[d] OBVIOUS
    <3>. QED BY <3>1, <3>2 DEF KeyIsSound, On, Tells
  <2>. QED BY <2>1, <2>2
<1>. QED BY <1>1, <1>2, <1>3, <1>4, <1>5, <1>6, <1>7

\* An entry that expires becomes a miss.
LEMMA ExpiryStep ==
  ASSUME CacheInvariant, NEW k \in Keys, Cache!Expire1(k) \/ Cache!Expire2(k)
  PROVE  CacheInvariant'
<1>. USE ServicesAssumption
     DEF CacheInvariant, CacheTypes, Cache!TypeOK, Cache!CacheAssumption, Cache!Expire1, Cache!Expire2
<1>1. CacheTypes' OBVIOUS
<1>2. ASSUME NEW j \in Keys \ raced PROVE KeyIsSound(j)'
  <2>1. KeyIsSound(j) BY <1>2
  <2>. QED BY <2>1 DEF KeyIsSound, On, Tells, Cache!Busy
<1>. QED BY <1>1, <1>2

LEMMA CacheInvariantHolds == PartsSpec => []CacheInvariant
<1>1. PartsInit => CacheInvariant
  BY CacheStarts DEF PartsInit
<1>2. CacheInvariant /\ [PartsNext]_allVars => CacheInvariant'
  <2>. SUFFICES ASSUME CacheInvariant, [PartsNext]_allVars PROVE CacheInvariant'
    OBVIOUS
  <2>1. CASE Cache!Next
    BY <2>1, ClientStep, ExpiryStep DEF Cache!Next
  <2>2. CASE UNCHANGED cacheVars
    BY <2>2 DEF cacheVars, CacheInvariant, CacheTypes, Cache!TypeOK, KeyIsSound, On, Tells, Cache!Busy
  <2>. QED BY <2>1, <2>2 DEF PartsNext, Frozen, allVars
<1>. QED BY <1>1, <1>2, PTL DEF PartsSpec

\* On a key no two calls have met on, neither tier holds and no get returns
\* anything but what was last set, what a write that raised since then left behind,
\* or nothing: for any clients, keys, entries and number of calls.
THEOREM AlwaysServesLastStored == PartsSpec => []ServesLastStored
<1>1. CacheInvariant => ServesLastStored
  <2>. SUFFICES ASSUME CacheInvariant PROVE Cache!TypeOK /\ Cache!ServesLastStored
    BY DEF ServesLastStored
  <2>1. ASSUME NEW k \in Keys \ raced PROVE KeyIsSound(k)
    BY DEF CacheInvariant
  <2>2. \A k \in Keys : Cache!Quiet(k) => \A c \in Clients : ~On(c, k)
    BY DEF Cache!Quiet, On
  <2>. QED
    BY <2>1, <2>2 DEF CacheInvariant, CacheTypes, Cache!ServesLastStored, KeyIsSound, Tells, On
<1>. QED BY <1>1, CacheInvariantHolds, PTL

-----------------------------------------------------------------------------
(***************************************************************************)
(* The webhooks.                                                           *)
(***************************************************************************)
WebhookTypes ==
  /\ Webhooks!TypeOK
  /\ maxRetries \in [Deliveries -> Limits]
  /\ dlq \in Seq(Deliveries) /\ letters \in Seq(Deliveries)

InHand(d) == \E c \in Callers : posting[c] = d

\* A delivery that no two callers dispatched at once: its attempts are those its
\* status tells of, and none is under way once its status is terminal.
DeliveryIsSound(d) ==
  /\ \A b, c \in Callers : posting[b] = d /\ posting[c] = d => b = c
  /\ attempts[d] =< (IF maxRetries[d] = 0 THEN 1 ELSE maxRetries[d])
  /\ Webhooks!Count(d) = (IF status[d] = "FAILED" THEN 1 ELSE 0)
  /\ status[d] \in Webhooks!Terminal => ~InHand(d)
  /\ status[d] = "SUCCEEDED" => d \in received
  /\ status[d] = "PENDING" => attempts[d] = (IF InHand(d) THEN 1 ELSE 0)
  /\ status[d] = "RETRY_SCHEDULED" =>
       /\ retryPending[d] /\ attempts[d] =< maxRetries[d]
       /\ ~InHand(d) => attempts[d] < maxRetries[d]

WebhookInvariant ==
  WebhookTypes /\ \A d \in Deliveries \ overlapped : DeliveryIsSound(d)

\* The instance counts as this module does.
LEMMA WebhookCounts == \A S : Webhooks!Cardinality(S) = Cardinality(S)
BY DEF Webhooks!Cardinality, Cardinality

\* The letters of a delivery, counted once more when one is appended.
LEMMA CountAppend ==
  ASSUME NEW e \in Deliveries, NEW d \in Deliveries,
         letters \in Seq(Deliveries), letters' = Append(letters, e)
  PROVE  Webhooks!Count(d)' = Webhooks!Count(d) + (IF d = e THEN 1 ELSE 0)
<1>. DEFINE I == {i \in DOMAIN letters : letters[i] = d}
            J == {i \in DOMAIN letters' : letters'[i] = d}
            n == Len(letters) + 1
<1>1. IsFiniteSet(I) /\ n \notin I
  <2>1. I \in SUBSET (1 .. Len(letters)) /\ Len(letters) \in Nat /\ n \notin I OBVIOUS
  <2>2. IsFiniteSet(1 .. Len(letters)) BY <2>1, FS_Interval
  <2>. HIDE DEF I
  <2>. QED BY <2>1, <2>2, FS_Subset
<1>2. J = IF d = e THEN I \cup {n} ELSE I
  OBVIOUS
<1>3. Cardinality(I) \in Nat /\ Cardinality(I \cup {n}) = Cardinality(I) + 1
  <2>. HIDE DEF I, n
  <2>. QED BY <1>1, FS_AddElement, FS_CardinalityType
<1>4. Webhooks!Count(d) = Cardinality(I) /\ Webhooks!Count(d)' = Cardinality(J)
  BY WebhookCounts DEF Webhooks!Count
<1>. HIDE DEF I, J, n
<1>. QED BY <1>2, <1>3, <1>4

LEMMA WebhookStarts == Webhooks!Init => WebhookInvariant
<1>. SUFFICES ASSUME Webhooks!Init PROVE WebhookInvariant
  OBVIOUS
<1>. USE ServicesAssumption DEF Webhooks!Init, Webhooks!WebhookAssumption
<1>1. WebhookTypes
  BY DEF WebhookTypes, Webhooks!TypeOK, Webhooks!Statuses, Webhooks!Terminal, Webhooks!ToSet
<1>2. ASSUME NEW d \in Deliveries PROVE DeliveryIsSound(d)
  <2>1. {i \in DOMAIN letters : letters[i] = d} = {} OBVIOUS
  <2>2. Webhooks!Count(d) = 0
    BY <2>1, FS_EmptySet, WebhookCounts DEF Webhooks!Count
  <2>3. ~InHand(d) /\ maxRetries[d] \in Nat BY DEF InHand
  <2>. QED BY <2>2, <2>3 DEF DeliveryIsSound, Webhooks!Terminal
<1>. QED BY <1>1, <1>2 DEF WebhookInvariant

\* What an append and a Tail do to the members of a sequence.
LEMMA Members ==
  ASSUME NEW S, NEW q \in Seq(S)
  PROVE  /\ \A e \in S : Webhooks!ToSet(Append(q, e)) = Webhooks!ToSet(q) \cup {e}
         /\ q # <<>> => Webhooks!ToSet(Tail(q)) \subseteq Webhooks!ToSet(q)
<1>1. ASSUME NEW e \in S PROVE Webhooks!ToSet(Append(q, e)) = Webhooks!ToSet(q) \cup {e}
  <2>. DEFINE r == Append(q, e)
  <2>1. DOMAIN r = 1 .. Len(q) + 1 /\ DOMAIN q = 1 .. Len(q) /\ Len(q) \in Nat
    OBVIOUS
  <2>2. r[Len(q) + 1] = e /\ \A i \in 1 .. Len(q) : r[i] = q[i]
    OBVIOUS
  <2>. HIDE DEF r
  <2>3. {r[i] : i \in DOMAIN r} = {q[i] : i \in DOMAIN q} \cup {e}
    BY <2>1, <2>2
  <2>. QED BY <2>3 DEF Webhooks!ToSet, r
<1>2. ASSUME q # <<>> PROVE Webhooks!ToSet(Tail(q)) \subseteq Webhooks!ToSet(q)
  <2>1. \A i \in DOMAIN Tail(q) : Tail(q)[i] = q[i + 1] /\ i + 1 \in DOMAIN q
    BY <1>2
  <2>. QED BY <2>1 DEF Webhooks!ToSet
<1>. QED BY <1>1, <1>2

\* The counters of a delivery are numbers.
LEMMA CountersAreNat ==
  ASSUME WebhookTypes
  PROVE  \A d \in Deliveries : attempts[d] \in Nat /\ maxRetries[d] \in Nat
<1>1. MaxPosts \in Nat /\ Limits \subseteq Nat
  BY ServicesAssumption DEF Webhooks!WebhookAssumption
<1>2. attempts \in [Deliveries -> 0 .. MaxPosts] /\ maxRetries \in [Deliveries -> Limits]
  BY DEF WebhookTypes, Webhooks!TypeOK
<1>3. ASSUME NEW d \in Deliveries PROVE attempts[d] \in Nat /\ maxRetries[d] \in Nat
  <2>1. attempts[d] \in 0 .. MaxPosts BY <1>2
  <2>2. maxRetries[d] \in Limits BY <1>2
  <2>. QED BY <1>1, <2>1, <2>2
<1>. QED BY <1>3

\* A call begins.
LEMMA DispatchStep ==
  ASSUME WebhookInvariant, NEW c \in Callers, NEW d \in Deliveries, Webhooks!Dispatch(c, d)
  PROVE  WebhookInvariant'
<1>. USE ServicesAssumption
     DEF WebhookInvariant, WebhookTypes, Webhooks!TypeOK, Webhooks!Statuses, Webhooks!Terminal,
       Webhooks!WebhookAssumption, Webhooks!Dispatch, Webhooks!Open
<1>1. WebhookTypes'
  <2>1. attempts' \in [Deliveries -> 0 .. MaxPosts] OBVIOUS
  <2>2. posting' \in [Callers -> Deliveries \cup {Nothing}] OBVIOUS
  <2>. QED BY <2>1, <2>2
<1>2. ASSUME NEW e \in Deliveries \ overlapped' PROVE DeliveryIsSound(e)'
  <2>1. e \notin overlapped /\ DeliveryIsSound(e) BY <1>2
  <2>2. Webhooks!Count(e)' = Webhooks!Count(e) BY DEF Webhooks!Count
  <2>3. CASE e = d
    <3>1. ~InHand(e) /\ InHand(e)' BY <1>2, <2>3 DEF InHand
    <3>2. \A b \in Callers : posting'[b] = e => b = c BY <2>3, <3>1 DEF InHand
    <3>3. attempts[e] \in Nat /\ maxRetries[e] \in Nat
      <4>1. WebhookTypes BY DEF WebhookInvariant
      <4>. QED BY <4>1, CountersAreNat
    <3>4. attempts'[e] = attempts[e] + 1
      BY <2>3
    <3>. QED BY <2>1, <2>2, <2>3, <3>1, <3>2, <3>3, <3>4 DEF DeliveryIsSound
  <2>4. CASE e # d
    <3>1. \A b \in Callers : posting'[b] = e <=> posting[b] = e BY <2>4
    <3>2. InHand(e)' <=> InHand(e) BY <3>1 DEF InHand
    <3>. QED BY <2>1, <2>2, <2>4, <3>1, <3>2 DEF DeliveryIsSound
  <2>. QED BY <2>3, <2>4
<1>. QED BY <1>1, <1>2

\* A call ends, with a success or a failure.
LEMMA AnswerStep ==
  ASSUME WebhookInvariant, NEW c \in Callers, NEW d \in Deliveries, posting[c] = d,
         Webhooks!Succeed(c) \/ Webhooks!Fail(c)
  PROVE  WebhookInvariant'
<1>. USE ServicesAssumption
     DEF WebhookInvariant, WebhookTypes, Webhooks!TypeOK, Webhooks!Statuses, Webhooks!Terminal,
       Webhooks!WebhookAssumption, Webhooks!Answered
<1>1. ASSUME NEW e \in Deliveries \ {d} PROVE
        /\ InHand(e)' <=> InHand(e)
        /\ \A b \in Callers : posting'[b] = e <=> posting[b] = e
  <2>1. \A b \in Callers : posting'[b] = e <=> posting[b] = e
    BY <1>1 DEF Webhooks!Succeed, Webhooks!Fail
  <2>. QED BY <2>1 DEF InHand
<1>2. d \notin overlapped =>
        /\ InHand(d) /\ ~InHand(d)'
        /\ status[d] = "PENDING" => attempts[d] = 1
        /\ status[d] = "RETRY_SCHEDULED" => attempts[d] =< maxRetries[d]
        /\ status[d] \in {"PENDING", "RETRY_SCHEDULED"}
  <2>. SUFFICES ASSUME d \notin overlapped
                PROVE  /\ InHand(d) /\ ~InHand(d)'
                       /\ status[d] = "PENDING" => attempts[d] = 1
                       /\ status[d] = "RETRY_SCHEDULED" => attempts[d] =< maxRetries[d]
                       /\ status[d] \in {"PENDING", "RETRY_SCHEDULED"}
    OBVIOUS
  <2>1. DeliveryIsSound(d) OBVIOUS
  <2>2. InHand(d) BY DEF InHand
  <2>3. posting' = [posting EXCEPT ![c] = Nothing]
    BY DEF Webhooks!Succeed, Webhooks!Fail
  <2>4. ~InHand(d)'
    <3>1. \A b \in Callers : posting[b] = d => b = c BY <2>1 DEF DeliveryIsSound
    <3>2. \A b \in Callers : posting'[b] # d BY <2>3, <3>1
    <3>. QED BY <3>2 DEF InHand
  <2>. QED BY <2>1, <2>2, <2>4 DEF DeliveryIsSound
<1>3. CASE Webhooks!Succeed(c)
  <2>. USE <1>3 DEF Webhooks!Succeed
  <2>1. WebhookTypes'
    <3>1. posting' \in [Callers -> Deliveries \cup {Nothing}] OBVIOUS
    <3>2. status' \in [Deliveries -> Webhooks!Statuses] OBVIOUS
    <3>. QED BY <3>1, <3>2
  <2>2. ASSUME NEW e \in Deliveries \ overlapped PROVE DeliveryIsSound(e)'
    <3>1. DeliveryIsSound(e) BY <2>2
    <3>2. Webhooks!Count(e)' = Webhooks!Count(e) BY DEF Webhooks!Count
    <3>3. CASE e = d
      BY <1>2, <2>2, <3>1, <3>2, <3>3 DEF DeliveryIsSound, InHand
    <3>4. CASE e # d
      BY <1>1, <3>1, <3>2, <3>4 DEF DeliveryIsSound
    <3>. QED BY <3>3, <3>4
  <2>. QED BY <2>1, <2>2
<1>4. CASE Webhooks!Fail(c)
  <2>. USE <1>4 DEF Webhooks!Fail
  <2>1. WebhookTypes'
    <3>1. posting' \in [Callers -> Deliveries \cup {Nothing}] OBVIOUS
    <3>2. status' \in [Deliveries -> Webhooks!Statuses] OBVIOUS
    <3>3. retryPending' \in [Deliveries -> BOOLEAN]
      BY DEF Webhooks!Retries
    <3>4. CASE Webhooks!Retries(d)
      BY <3>1, <3>2, <3>3, <3>4
    <3>5. CASE ~Webhooks!Retries(d)
      <4>1. dlq' = Append(dlq, d) /\ letters' = Append(letters, d) BY <3>5
      <4>2. dlq' \in Seq(Deliveries) /\ letters' \in Seq(Deliveries) BY <4>1
      <4>3. /\ Webhooks!ToSet(dlq)' = Webhooks!ToSet(dlq) \cup {d}
            /\ Webhooks!ToSet(letters)' = Webhooks!ToSet(letters) \cup {d}
        BY <4>1, Members
      <4>. QED BY <3>1, <3>2, <3>3, <4>2, <4>3
    <3>. QED BY <3>4, <3>5
  <2>2. ASSUME NEW e \in Deliveries \ overlapped PROVE DeliveryIsSound(e)'
    <3>1. DeliveryIsSound(e) BY <2>2
    <3>2. CASE e = d
      <4>1. attempts[d] \in Nat /\ maxRetries[d] \in Nat
        <5>1. WebhookTypes BY DEF WebhookInvariant
        <5>. QED BY <5>1, CountersAreNat
      <4>2. Webhooks!Count(d) = 0
        BY <1>2, <2>2, <3>1, <3>2 DEF DeliveryIsSound
      <4>3. \A b \in Callers : posting'[b] # d
        BY <1>2, <2>2, <3>2 DEF InHand
      <4>4. CASE Webhooks!Retries(d)
        <5>1. Webhooks!Count(d)' = 0 BY <4>2, <4>4 DEF Webhooks!Count
        <5>2. status'[d] = "RETRY_SCHEDULED" /\ retryPending'[d] BY <4>4
        <5>. QED
          BY <1>2, <2>2, <3>1, <3>2, <4>1, <4>3, <4>4, <5>1, <5>2 DEF DeliveryIsSound, Webhooks!Retries
      <4>5. CASE ~Webhooks!Retries(d)
        <5>1. Webhooks!Count(d)' = 1
          <6>1. letters \in Seq(Deliveries) /\ letters' = Append(letters, d) BY <4>5
          <6>2. Webhooks!Count(d)' = Webhooks!Count(d) + 1 BY <6>1, CountAppend
          <6>. QED BY <4>2, <6>2
        <5>2. status'[d] = "FAILED" BY <4>5
        <5>. QED BY <1>2, <2>2, <3>1, <3>2, <4>1, <4>3, <5>1, <5>2 DEF DeliveryIsSound
      <4>. QED BY <4>4, <4>5
    <3>3. CASE e # d
      <4>1. Webhooks!Count(e)' = Webhooks!Count(e)
        <5>1. CASE Webhooks!Retries(d) BY <5>1 DEF Webhooks!Count
        <5>2. CASE ~Webhooks!Retries(d)
          <6>1. letters \in Seq(Deliveries) /\ letters' = Append(letters, d) BY <5>2
          <6>2. Webhooks!Count(e)' = Webhooks!Count(e) + 0 BY <3>3, <6>1, CountAppend
          <6>3. Webhooks!Count(e) \in Nat BY <3>1 DEF DeliveryIsSound
          <6>. QED BY <6>2, <6>3
        <5>. QED BY <5>1, <5>2
      <4>2. /\ attempts'[e] = attempts[e] /\ status'[e] = status[e]
            /\ retryPending'[e] = retryPending[e] /\ maxRetries'[e] = maxRetries[e]
            /\ e \in received => e \in received'
        BY <3>3
      <4>. QED BY <1>1, <3>1, <3>3, <4>1, <4>2 DEF DeliveryIsSound
    <3>. QED BY <3>2, <3>3
  <2>. QED BY <2>1, <2>2
<1>. QED BY <1>3, <1>4

\* The queue of dead letters is read or emptied: no letter is forgotten.
LEMMA QueueStep ==
  ASSUME WebhookInvariant, Webhooks!Pop \/ Webhooks!Clear
  PROVE  WebhookInvariant'
<1>. USE DEF WebhookInvariant, WebhookTypes, Webhooks!TypeOK, Webhooks!Pop, Webhooks!Clear
<1>1. dlq' \in Seq(Deliveries) /\ Webhooks!ToSet(dlq') \subseteq Webhooks!ToSet(dlq)
  <2>1. CASE dlq' = Tail(dlq)
    BY <2>1, Members
  <2>2. CASE dlq' = <<>>
    <3>1. Webhooks!ToSet(<<>>) = {} BY DEF Webhooks!ToSet
    <3>. QED BY <2>2, <3>1
  <2>. QED BY <2>1, <2>2
<1>2. WebhookTypes' BY <1>1
<1>3. ASSUME NEW d \in Deliveries \ overlapped PROVE DeliveryIsSound(d)'
  <2>1. DeliveryIsSound(d) BY <1>3
  <2>. QED BY <2>1 DEF DeliveryIsSound, Webhooks!Count, InHand
<1>. QED BY <1>2, <1>3

LEMMA WebhookInvariantHolds == PartsSpec => []WebhookInvariant
<1>1. PartsInit => WebhookInvariant
  BY WebhookStarts DEF PartsInit
<1>2. WebhookInvariant /\ [PartsNext]_allVars => WebhookInvariant'
  <2>. SUFFICES ASSUME WebhookInvariant, [PartsNext]_allVars PROVE WebhookInvariant'
    OBVIOUS
  <2>1. CASE Webhooks!Next
    <3>1. ASSUME NEW c \in Callers, Webhooks!Succeed(c) \/ Webhooks!Fail(c)
          PROVE  posting[c] \in Deliveries
      BY <3>1 DEF Webhooks!Succeed, Webhooks!Fail, Webhooks!Answered, WebhookInvariant, WebhookTypes,
        Webhooks!TypeOK
    <3>. QED BY <2>1, <3>1, DispatchStep, AnswerStep, QueueStep DEF Webhooks!Next
  <2>2. CASE UNCHANGED webhookVars
    <3>. USE <2>2 DEF webhookVars
    <3>1. WebhookTypes' BY DEF WebhookInvariant, WebhookTypes, Webhooks!TypeOK
    <3>2. ASSUME NEW d \in Deliveries \ overlapped PROVE DeliveryIsSound(d)'
      <4>1. Webhooks!Count(d)' = Webhooks!Count(d) BY DEF Webhooks!Count
      <4>. QED BY <4>1 DEF WebhookInvariant, DeliveryIsSound, InHand
    <3>. QED BY <3>1, <3>2 DEF WebhookInvariant
  <2>. QED BY <2>1, <2>2 DEF PartsNext, Frozen, allVars
<1>. QED BY <1>1, <1>2, PTL DEF PartsSpec

\* However the deliveries of other callers overlap, a delivery that is dispatched
\* by one caller at a time is tried as often as it may, and dead-lettered once,
\* exactly when it has failed: for any callers, deliveries and limits.
THEOREM AlwaysDeadLetteredOnce == PartsSpec => []DeadLetterOnce
<1>1. WebhookInvariant => DeadLetterOnce
  BY DEF WebhookInvariant, WebhookTypes, DeadLetterOnce, Webhooks!DeadLetterOnce, DeliveryIsSound,
    InHand, Webhooks!InHand
<1>. QED BY <1>1, WebhookInvariantHolds, PTL

-----------------------------------------------------------------------------
(***************************************************************************)
(* The rule worker.  A message that is done with came before the one in    *)
(* hand, which came before those Pub/Sub still holds.                      *)
(***************************************************************************)
RuleTypes ==
  /\ Rules!TypeOK
  /\ hand \in Seq(Nat) /\ inbox \in Seq(Nat) /\ evaluated \in Seq(Nat)
  /\ dead \subseteq Nat /\ missed \subseteq Nat

Increasing(q) == \A i, j \in DOMAIN q : i < j => q[i] < q[j]

\* m precedes every message that waits, and every message in hand.
PrecedesInbox(m) == \A i \in DOMAIN inbox : m < inbox[i]
PrecedesHand(m) == \A i \in DOMAIN hand : m < hand[i]

LineIsSound ==
  /\ Increasing(inbox) /\ \A i \in DOMAIN inbox : inbox[i] \in DOMAIN published
  /\ \A i \in DOMAIN hand : hand[i] \in DOMAIN published /\ PrecedesInbox(hand[i])
  /\ Increasing(evaluated)
  /\ \A i \in DOMAIN evaluated : PrecedesHand(evaluated[i]) /\ PrecedesInbox(evaluated[i])
  /\ \A i \in DOMAIN evaluated : evaluated[i] \in DOMAIN published
  /\ \A m \in dead \cup missed :
       /\ m \in DOMAIN published /\ published[m] = "invalid"
       /\ PrecedesHand(m) /\ PrecedesInbox(m)
  /\ dead \cap missed = {}

RuleInvariant == RuleTypes /\ LineIsSound

LEMMA RuleStarts == Rules!Init => RuleInvariant
<1>. SUFFICES ASSUME Rules!Init PROVE RuleInvariant
  OBVIOUS
<1>1. RuleTypes
  <2>1. hand \in Seq(Nat) /\ inbox \in Seq(Nat) /\ evaluated \in Seq(Nat) /\ published \in Seq(Kinds)
    BY DEF Rules!Init
  <2>2. Len(hand) = 0 /\ rulePc = "idle" BY DEF Rules!Init
  <2>3. dead \subseteq Nat /\ missed \subseteq Nat BY DEF Rules!Init
  <2>4. {isRunning, isSubscribed} \subseteq BOOLEAN BY DEF Rules!Init
  <2>. QED BY <2>1, <2>2, <2>3, <2>4 DEF RuleTypes, Rules!TypeOK
<1>2. LineIsSound
  BY DEF Rules!Init, LineIsSound, Increasing, PrecedesInbox, PrecedesHand
<1>. QED BY <1>1, <1>2 DEF RuleInvariant

\* A message is published.
LEMMA PublishStep ==
  ASSUME RuleInvariant, NEW kind \in Kinds, Rules!Publish(kind)
  PROVE  RuleInvariant'
<1>. USE DEF RuleInvariant, RuleTypes, Rules!TypeOK, Rules!Publish
<1>. DEFINE n == Len(published)
<1>1. RuleTypes'
  OBVIOUS
<1>2. /\ n \in Nat /\ DOMAIN published = 1 .. n /\ DOMAIN published' = 1 .. n + 1
      /\ \A m \in 1 .. n : published'[m] = published[m]
      /\ DOMAIN inbox' = 1 .. Len(inbox) + 1 /\ inbox'[Len(inbox) + 1] = n + 1
      /\ \A i \in DOMAIN inbox : inbox'[i] = inbox[i]
      /\ Len(inbox) \in Nat /\ DOMAIN inbox = 1 .. Len(inbox)
  OBVIOUS
<1>3. \A m \in 1 .. n : PrecedesInbox(m) => PrecedesInbox(m)'
  BY <1>2 DEF PrecedesInbox
<1>4. LineIsSound'
  <2>1. Increasing(inbox)' /\ \A i \in DOMAIN inbox' : inbox'[i] \in DOMAIN published'
    BY <1>2, SMTT(30) DEF LineIsSound, Increasing
  <2>2. Increasing(evaluated)'
    BY DEF LineIsSound, Increasing
  <2>. QED BY <1>2, <1>3, <2>1, <2>2, SMTT(30) DEF LineIsSound, PrecedesHand
<1>. QED BY <1>1, <1>4

\* get_message returns the first message that waits.
LEMMA PollStep ==
  ASSUME RuleInvariant, Rules!Poll
  PROVE  RuleInvariant'
<1>1. RuleTypes /\ LineIsSound
  BY DEF RuleInvariant
<1>2. UNCHANGED <<isRunning, isSubscribed, published, evaluated, dead, missed>>
  BY DEF Rules!Poll
<1>3. CASE inbox = <<>> /\ rulePc' = Rules!AfterTimeout /\ UNCHANGED <<inbox, hand>>
  <2>1. RuleTypes'
    <3>1. rulePc = "polling" BY DEF Rules!Poll
    <3>. QED BY <1>1, <1>2, <1>3, <3>1 DEF Rules!AfterTimeout, RuleTypes, Rules!TypeOK
  <2>2. LineIsSound'
    BY <1>1, <1>2, <1>3 DEF LineIsSound, Increasing, PrecedesInbox, PrecedesHand
  <2>. QED BY <2>1, <2>2 DEF RuleInvariant
<1>4. CASE inbox # <<>> /\ rulePc' = "handling" /\ hand' = <<Head(inbox)>> /\ inbox' = Tail(inbox)
  <2>1. inbox \in Seq(Nat) /\ inbox # <<>>
    BY <1>1, <1>4 DEF RuleTypes
  <2>2. /\ DOMAIN inbox' = 1 .. Len(inbox) - 1 /\ DOMAIN inbox = 1 .. Len(inbox)
        /\ Len(inbox) \in Nat \ {0}
        /\ \A i \in DOMAIN inbox' : inbox'[i] = inbox[i + 1]
    BY <1>4, <2>1
  <2>3. DOMAIN hand' = {1} /\ hand'[1] = inbox[1] /\ inbox[1] \in Nat
    BY <1>4, <2>1
  <2>4. RuleTypes'
    <3>1. hand' \in Seq(Nat) /\ inbox' \in Seq(Nat) /\ Len(hand') = 1 BY <1>4, <2>1
    <3>. QED BY <1>1, <1>2, <1>4, <3>1 DEF RuleTypes, Rules!TypeOK
  <2>5. Increasing(inbox)' /\ \A i \in DOMAIN inbox' : inbox'[i] \in DOMAIN published
    BY <1>1, <2>2 DEF LineIsSound, Increasing
  <2>6. \A i \in DOMAIN hand' : hand'[i] \in DOMAIN published /\ PrecedesInbox(hand[i])'
    <3>1. inbox[1] \in DOMAIN published BY <1>1, <2>2 DEF LineIsSound
    <3>2. \A i \in DOMAIN inbox' : inbox[1] < inbox'[i]
      BY <1>1, <2>2 DEF LineIsSound, Increasing
    <3>. QED BY <2>3, <3>1, <3>2 DEF PrecedesInbox
  <2>7. \A m \in Nat : PrecedesInbox(m) => PrecedesInbox(m)' /\ PrecedesHand(m)'
    <3>1. \A i \in DOMAIN inbox' : i + 1 \in DOMAIN inbox BY <2>2
    <3>2. 1 \in DOMAIN inbox BY <2>2
    <3>. QED BY <2>2, <2>3, <3>1, <3>2 DEF PrecedesInbox, PrecedesHand
  <2>8. Increasing(evaluated)'
    BY <1>1, <1>2 DEF LineIsSound, Increasing
  <2>9. (\A i \in DOMAIN evaluated : evaluated[i] \in Nat) /\ \A m \in dead \cup missed : m \in Nat
    BY <1>1 DEF RuleTypes
  <2>10. LineIsSound'
    BY <1>1, <1>2, <2>5, <2>6, <2>7, <2>8, <2>9 DEF LineIsSound
  <2>. QED BY <2>4, <2>10 DEF RuleInvariant
<1>. QED BY <1>3, <1>4 DEF Rules!Poll

\* The message in hand meets its one fate.
LEMMA HandleStep ==
  ASSUME RuleInvariant, Rules!Handle
  PROVE  RuleInvariant'
<1>. DEFINE m == Head(hand)
<1>1. RuleTypes /\ LineIsSound
  BY DEF RuleInvariant
<1>2. /\ DOMAIN hand = {1} /\ m = hand[1] /\ m \in Nat
  <2>1. Len(hand) = 1 /\ hand \in Seq(Nat)
    BY <1>1 DEF RuleTypes, Rules!TypeOK, Rules!Handle
  <2>. QED BY <2>1, SMTT(30)
<1>3. /\ hand' = <<>> /\ rulePc' = "loop"
      /\ UNCHANGED <<isRunning, isSubscribed, published, runs>>
  BY DEF Rules!Handle
<1>4. /\ m \in DOMAIN published /\ PrecedesInbox(m)
      /\ \A i \in DOMAIN evaluated : evaluated[i] < m
      /\ m \notin dead \cup missed
  BY <1>1, <1>2 DEF LineIsSound, PrecedesHand
<1>5. \/ /\ published[m] = "valid" /\ evaluated' = Append(evaluated, m)
         /\ UNCHANGED <<inbox, dead, missed>>
      \/ /\ published[m] = "invalid" /\ UNCHANGED <<inbox, evaluated>>
         /\ \/ dead' = dead \cup {m} /\ UNCHANGED missed
            \/ missed' = missed \cup {m} /\ UNCHANGED dead
      \/ UNCHANGED <<inbox, evaluated, dead, missed>>
  <2>1. CASE published[m] = "valid" BY <2>1 DEF Rules!Handle
  <2>2. CASE published[m] = "invalid" BY <2>2 DEF Rules!Handle, Rules!Undelivered
  <2>3. CASE published[m] \notin {"valid", "invalid"} BY <2>3 DEF Rules!Handle
  <2>. QED BY <2>1, <2>2, <2>3
<1>. HIDE DEF m
<1>6. UNCHANGED inbox
  BY <1>5
<1>7. \A k : PrecedesHand(k)' /\ (PrecedesInbox(k)' <=> PrecedesInbox(k))
  BY <1>3, <1>6 DEF PrecedesHand, PrecedesInbox
<1>8. Increasing(inbox)' /\ \A i \in DOMAIN inbox' : inbox'[i] \in DOMAIN published'
  BY <1>1, <1>3, <1>6 DEF LineIsSound, Increasing
<1>9. RuleTypes'
  <2>1. dead' \subseteq Nat /\ missed' \subseteq Nat
    BY <1>1, <1>2, <1>5 DEF RuleTypes
  <2>2. evaluated' \in Seq(Nat)
    <3>1. evaluated \in Seq(Nat) BY <1>1 DEF RuleTypes
    <3>2. evaluated' = evaluated \/ evaluated' = Append(evaluated, m) BY <1>5
    <3>. QED BY <1>2, <3>1, <3>2
  <2>3. hand' \in Seq(Nat) /\ Len(hand') = 0
    BY <1>3
  <2>. QED BY <1>1, <1>3, <1>6, <2>1, <2>2, <2>3 DEF RuleTypes, Rules!TypeOK
<1>10. CASE evaluated' = Append(evaluated, m) /\ UNCHANGED <<dead, missed>>
  <2>1. evaluated \in Seq(Nat)
    BY <1>1 DEF RuleTypes
  <2>2. /\ DOMAIN evaluated' = 1 .. Len(evaluated) + 1 /\ DOMAIN evaluated = 1 .. Len(evaluated)
        /\ Len(evaluated) \in Nat /\ evaluated'[Len(evaluated) + 1] = m
        /\ \A i \in DOMAIN evaluated : evaluated'[i] = evaluated[i]
    BY <1>2, <1>10, <2>1
  <2>3. Increasing(evaluated)
    BY <1>1 DEF LineIsSound
  <2>4. Increasing(evaluated)'
    BY <1>4, <2>2, <2>3 DEF Increasing
  <2>5. \A i \in DOMAIN evaluated : PrecedesInbox(evaluated[i]) /\ evaluated[i] \in DOMAIN published
    BY <1>1 DEF LineIsSound
  <2>6. \A i \in DOMAIN evaluated' :
          PrecedesHand(evaluated[i])' /\ PrecedesInbox(evaluated[i])' /\ evaluated'[i] \in DOMAIN published
    <3>. SUFFICES ASSUME NEW i \in DOMAIN evaluated'
                  PROVE  PrecedesInbox(evaluated'[i]) /\ evaluated'[i] \in DOMAIN published
      BY <1>6, <1>7 DEF PrecedesHand, PrecedesInbox
    <3>1. CASE i = Len(evaluated) + 1 BY <1>4, <2>2, <3>1
    <3>2. CASE i \in DOMAIN evaluated BY <2>2, <2>5, <3>2
    <3>. QED BY <2>2, <3>1, <3>2
  <2>. QED BY <1>1, <1>3, <1>7, <1>8, <1>9, <1>10, <2>4, <2>6 DEF LineIsSound, RuleInvariant
<1>11. CASE UNCHANGED evaluated
  <2>1. Increasing(evaluated)' BY <1>1, <1>11 DEF LineIsSound, Increasing
  <2>2. published[m] = "invalid" \/ (dead' = dead /\ missed' = missed)
    BY <1>5
  <2>3. \A k \in dead' \cup missed' :
          k \in DOMAIN published /\ published[k] = "invalid" /\ PrecedesInbox(k)
    BY <1>1, <1>4, <1>5, <2>2 DEF LineIsSound
  <2>4. dead' \cap missed' = {}
    BY <1>1, <1>4, <1>5 DEF LineIsSound
  <2>. QED BY <1>1, <1>3, <1>7, <1>8, <1>9, <1>11, <2>1, <2>3, <2>4 DEF LineIsSound, RuleInvariant
<1>. QED BY <1>5, <1>10, <1>11

\* run ends, and may drop what waits.
LEMMA EndStep ==
  ASSUME RuleInvariant, Rules!End
  PROVE  RuleInvariant'
<1>. USE DEF RuleInvariant, Rules!End
<1>1. inbox' = <<>> \/ inbox' = inbox
  OBVIOUS
<1>2. RuleTypes'
  <2>1. RuleTypes /\ rulePc = "ending" /\ rulePc' = "idle" /\ hand' = hand OBVIOUS
  <2>2. Len(hand) = 0 BY <2>1 DEF RuleTypes, Rules!TypeOK
  <2>3. inbox' \in Seq(Nat)
    <3>1. inbox \in Seq(Nat) BY <2>1 DEF RuleTypes
    <3>2. <<>> \in Seq(Nat) OBVIOUS
    <3>. QED BY <1>1, <3>1, <3>2
  <2>4. isSubscribed' \in BOOLEAN /\ isRunning' \in BOOLEAN BY <2>1 DEF RuleTypes, Rules!TypeOK
  <2>. QED BY <2>1, <2>2, <2>3, <2>4 DEF RuleTypes, Rules!TypeOK
<1>3. LineIsSound'
  BY <1>1 DEF LineIsSound, Increasing, PrecedesInbox, PrecedesHand
<1>. QED BY <1>2, <1>3

LEMMA RuleInvariantHolds == PartsSpec => []RuleInvariant
<1>1. PartsInit => RuleInvariant
  BY RuleStarts DEF PartsInit
<1>2. RuleInvariant /\ [PartsNext]_allVars => RuleInvariant'
  <2>. SUFFICES ASSUME RuleInvariant, [PartsNext]_allVars PROVE RuleInvariant'
    OBVIOUS
  <2>1. ASSUME UNCHANGED <<hand, inbox, published, evaluated, dead, missed>>
        PROVE  LineIsSound'
    BY <2>1 DEF RuleInvariant, LineIsSound, Increasing, PrecedesInbox, PrecedesHand
  <2>2. CASE Rules!Run \/ Rules!Subscribe \/ Rules!Loop \/ Rules!PollRaises \/ Rules!Stop
    <3>1. UNCHANGED <<hand, inbox, published, evaluated, dead, missed>>
      BY <2>2 DEF Rules!Run, Rules!Subscribe, Rules!Loop, Rules!PollRaises, Rules!Stop, Rules!messages
    <3>2. RuleTypes'
      BY <2>2, <3>1 DEF Rules!Run, Rules!Subscribe, Rules!Loop, Rules!PollRaises, Rules!Stop,
        RuleInvariant, RuleTypes, Rules!TypeOK
    <3>. QED BY <2>1, <3>1, <3>2 DEF RuleInvariant
  <2>3. CASE UNCHANGED ruleVars
    <3>1. RuleTypes'
      BY <2>3 DEF ruleVars, RuleInvariant, RuleTypes, Rules!TypeOK
    <3>. QED BY <2>1, <2>3, <3>1 DEF RuleInvariant, ruleVars
  <2>4. CASE Rules!Next
    BY <2>2, <2>4, PublishStep, PollStep, HandleStep, EndStep DEF Rules!Next, Rules!RunStep
  <2>. QED BY <2>3, <2>4 DEF PartsNext, Frozen, allVars
<1>. QED BY <1>1, <1>2, PTL DEF PartsSpec

\* Across stops, failures and new runs, a published message is evaluated in its
\* turn, at most once, and has one fate: for any number of messages and runs.
THEOREM AlwaysAtMostOnce == PartsSpec => []AtMostOnce
<1>1. RuleInvariant => AtMostOnce
  <2>. SUFFICES ASSUME RuleInvariant PROVE Rules!TypeOK /\ Rules!AtMostOnce
    BY DEF AtMostOnce
  <2>. USE DEF RuleInvariant, RuleTypes
  <2>1. ASSUME NEW k \in Rules!ToSet(inbox \o hand) PROVE k \notin Rules!ToSet(evaluated) \cup dead \cup missed
    <3>1. PICK i \in DOMAIN (inbox \o hand) : k = (inbox \o hand)[i]
      BY <2>1 DEF Rules!ToSet
    <3>2. \/ i \in DOMAIN inbox /\ k = inbox[i]
          \/ i - Len(inbox) \in DOMAIN hand /\ k = hand[i - Len(inbox)]
      BY <3>1
    <3>3. \A n \in Nat : PrecedesInbox(n) /\ PrecedesHand(n) => n # k
      BY <3>2 DEF PrecedesInbox, PrecedesHand
    <3>4. ASSUME NEW j \in DOMAIN evaluated PROVE evaluated[j] # k
      BY <3>3 DEF LineIsSound
    <3>5. k \notin dead \cup missed
      BY <3>3 DEF LineIsSound
    <3>. QED BY <3>4, <3>5 DEF Rules!ToSet
  <2>. QED BY <2>1 DEF Rules!AtMostOnce, LineIsSound, Increasing
<1>. QED BY <1>1, RuleInvariantHolds, PTL

-----------------------------------------------------------------------------
(***************************************************************************)
(* The charts that follow each other.  A running broadcast has the peers   *)
(* it called behind it and those it still has to call ahead, none in both. *)
(***************************************************************************)
Broadcasts ==
  [source : Charts, todo : Seq(Nat), calling : Nat \cup {Nobody}, called : Seq(Nat),
   owed : SUBSET Nat]

SyncTypes ==
  /\ owner \in Seq(Charts) /\ flag \in Seq(BOOLEAN) /\ Len(flag) = Len(owner)
  /\ group \in Seq(Nat) /\ stack \in Seq(Broadcasts)

OneEach ==
  /\ \A i \in DOMAIN group : group[i] \in DOMAIN owner
  /\ \A i, j \in DOMAIN group : owner[group[i]] = owner[group[j]] => i = j

\* The calls of broadcast b go to charts other than its source, each once.
CallsAreSound(b) ==
  /\ \A j \in DOMAIN b.todo : b.todo[j] \in DOMAIN owner /\ owner[b.todo[j]] # b.source
  /\ \A j \in DOMAIN b.called : b.called[j] \in DOMAIN owner /\ owner[b.called[j]] # b.source
  /\ \A j, k \in DOMAIN b.todo : b.todo[j] = b.todo[k] => j = k
  /\ \A j, k \in DOMAIN b.called : b.called[j] = b.called[k] => j = k
  /\ \A j \in DOMAIN b.todo, k \in DOMAIN b.called : b.todo[j] # b.called[k]

\* Those b owes a call follow, and were called or will be.
DebtIsSound(b) ==
  \A s \in b.owed :
    /\ s \in DOMAIN owner /\ flag[s]
    /\ (\E j \in DOMAIN b.todo : b.todo[j] = s) \/ (\E j \in DOMAIN b.called : b.called[j] = s)

SyncInvariant ==
  SyncTypes /\ OneEach /\ \A i \in DOMAIN stack : CallsAreSound(stack[i]) /\ DebtIsSound(stack[i])

\* Where the i-th element stood before the p-th was removed.
Before(p, i) == IF i < p THEN i ELSE i + 1

\* What RemoveAt leaves of a sequence.
LEMMA Removed ==
  ASSUME NEW S, NEW q \in Seq(S), NEW p \in DOMAIN q
  PROVE  /\ Sync!RemoveAt(q, p) \in Seq(S)
         /\ \A i \in DOMAIN Sync!RemoveAt(q, p) :
              /\ Before(p, i) \in DOMAIN q \ {p}
              /\ Sync!RemoveAt(q, p)[i] = q[Before(p, i)]
         /\ \A i, j \in DOMAIN Sync!RemoveAt(q, p) : Before(p, i) = Before(p, j) => i = j
<1>. DEFINE left == SubSeq(q, 1, p - 1)
            right == SubSeq(q, p + 1, Len(q))
<1>1. p \in 1 .. Len(q) /\ Len(q) \in Nat /\ DOMAIN q = 1 .. Len(q) OBVIOUS
<1>2. /\ left \in Seq(S) /\ Len(left) = p - 1
      /\ \A i \in 1 .. p - 1 : left[i] = q[i]
  BY <1>1
<1>3. /\ right \in Seq(S) /\ Len(right) = Len(q) - p
      /\ \A i \in 1 .. Len(q) - p : right[i] = q[i + p]
  BY <1>1
<1>. HIDE DEF left, right
<1>. DEFINE r == left \o right
<1>4. r \in Seq(S) BY <1>2, <1>3
<1>5. Len(r) = (p - 1) + (Len(q) - p) BY <1>2, <1>3, ConcatProperties
<1>6. \A k \in 1 .. Len(left) + Len(right) :
        r[k] = IF k =< Len(left) THEN left[k] ELSE right[k - Len(left)]
  BY <1>2, <1>3, ConcatProperties
<1>8. r = Sync!RemoveAt(q, p) BY DEF Sync!RemoveAt, left, right
<1>. HIDE DEF r
<1>9. DOMAIN r = 1 .. Len(q) - 1 BY <1>1, <1>4, <1>5
<1>10. ASSUME NEW i \in DOMAIN r PROVE Before(p, i) \in DOMAIN q \ {p} /\ r[i] = q[Before(p, i)]
  <2>1. i \in 1 .. Len(left) + Len(right) BY <1>1, <1>2, <1>3, <1>9
  <2>2. CASE i < p
    <3>1. r[i] = left[i] BY <1>1, <1>2, <1>6, <2>1, <2>2
    <3>. QED BY <1>1, <1>2, <1>9, <2>2, <3>1 DEF Before
  <2>3. CASE i >= p
    <3>. DEFINE k == i - Len(left)
    <3>1. k \in 1 .. Len(q) - p /\ k + p = i + 1 BY <1>1, <1>2, <1>9, <2>3
    <3>2. r[i] = right[k] BY <1>1, <1>2, <1>6, <2>1, <2>3
    <3>. HIDE DEF k
    <3>3. r[i] = q[i + 1] BY <1>3, <3>1, <3>2
    <3>. QED BY <1>1, <1>9, <2>3, <3>3 DEF Before
  <2>. QED BY <1>1, <1>9, <2>2, <2>3
<1>11. \A i, j \in DOMAIN r : Before(p, i) = Before(p, j) => i = j
  BY <1>1, <1>9 DEF Before
<1>. QED BY <1>4, <1>8, <1>10, <1>11

\* A registered chart has one place in the group.
LEMMA PlaceOf ==
  ASSUME SyncInvariant, NEW c \in Charts, Sync!Registered(c)
  PROVE  /\ Sync!PositionOf(c) \in DOMAIN group
         /\ Sync!SubOf(c) = group[Sync!PositionOf(c)]
         /\ Sync!SubOf(c) \in DOMAIN owner /\ owner[Sync!SubOf(c)] = c
         /\ Sync!SubOf(c) \in Nat
<1>1. \E i \in DOMAIN group : owner[group[i]] = c
  BY DEF Sync!Registered
<1>2. /\ Sync!PositionOf(c) \in DOMAIN group
      /\ owner[group[Sync!PositionOf(c)]] = c
  BY <1>1 DEF Sync!PositionOf
<1>. QED BY <1>2 DEF Sync!SubOf, SyncInvariant, SyncTypes, OneEach

LEMMA SyncStarts == Sync!Init => SyncInvariant
BY DEF Sync!Init, SyncInvariant, SyncTypes, OneEach, CallsAreSound, DebtIsSound

\* Registrations change nothing for the broadcasts that run.
LEMMA RegisterStep ==
  ASSUME SyncInvariant, NEW c \in Charts, Sync!Register(c)
  PROVE  SyncInvariant'
<1>. USE DEF SyncInvariant, SyncTypes, Sync!Register
<1>1. SyncTypes'
  OBVIOUS
<1>2. /\ DOMAIN owner = 1 .. Len(owner) /\ Len(owner) \in Nat
      /\ DOMAIN owner' = 1 .. Len(owner) + 1 /\ owner'[Len(owner) + 1] = c
      /\ \A s \in DOMAIN owner : owner'[s] = owner[s] /\ flag'[s] = flag[s]
  OBVIOUS
<1>3. /\ DOMAIN group = 1 .. Len(group) /\ Len(group) \in Nat
      /\ DOMAIN group' = 1 .. Len(group) + 1 /\ group'[Len(group) + 1] = Len(owner) + 1
      /\ \A i \in DOMAIN group : group'[i] = group[i]
  OBVIOUS
<1>4. \A i \in DOMAIN group : owner[group[i]] # c
  BY DEF Sync!MayJoin, Sync!Registered
<1>5. OneEach'
  BY <1>2, <1>3, <1>4, SMTT(30) DEF OneEach
<1>6. stack' = stack
  OBVIOUS
<1>7. \A s \in DOMAIN owner : s \in DOMAIN owner' /\ owner'[s] = owner[s] /\ flag'[s] = flag[s]
  <2>1. \A s \in 1 .. Len(owner) : s \in 1 .. Len(owner) + 1
    BY <1>2
  <2>. QED BY <1>2, <2>1, Zenon
<1>8. ASSUME NEW i \in DOMAIN stack PROVE CallsAreSound(stack[i]) /\ DebtIsSound(stack[i])
  OBVIOUS
<1>. HIDE DEF SyncInvariant, SyncTypes, Sync!Register
<1>9. ASSUME NEW i \in DOMAIN stack PROVE CallsAreSound(stack[i])' /\ DebtIsSound(stack[i])'
  <2>1. CallsAreSound(stack[i]) /\ DebtIsSound(stack[i])
    BY <1>8
  <2>2. CallsAreSound(stack[i])'
    BY <1>6, <1>7, <2>1 DEF CallsAreSound
  <2>3. DebtIsSound(stack[i])'
    BY <1>6, <1>7, <2>1 DEF DebtIsSound
  <2>. QED BY <2>2, <2>3
<1>. QED BY <1>1, <1>5, <1>6, <1>9 DEF SyncInvariant

\* What excusing a peer does to the broadcasts.
LEMMA Excused ==
  ASSUME SyncInvariant, NEW s \in Nat, Sync!Excuse(s)
  PROVE  /\ stack' \in Seq(Broadcasts) /\ DOMAIN stack' = DOMAIN stack
         /\ \A i \in DOMAIN stack :
              /\ stack'[i].source = stack[i].source /\ stack'[i].todo = stack[i].todo
              /\ stack'[i].called = stack[i].called /\ stack'[i].owed = stack[i].owed \ {s}
<1>1. stack \in Seq(Broadcasts) /\ stack' = [i \in DOMAIN stack |-> [stack[i] EXCEPT !.owed = @ \ {s}]]
  BY DEF SyncInvariant, SyncTypes, Sync!Excuse
<1>2. \A b \in Broadcasts : [b EXCEPT !.owed = @ \ {s}] \in Broadcasts
  BY DEF Broadcasts
<1>3. \A i \in DOMAIN stack : stack[i] \in Broadcasts /\ stack'[i] = [stack[i] EXCEPT !.owed = @ \ {s}]
  BY <1>1
<1>4. stack' \in Seq(Broadcasts)
  <2>1. DOMAIN stack = 1 .. Len(stack) /\ Len(stack) \in Nat BY <1>1
  <2>. QED BY <1>1, <1>2, <1>3, <2>1
<1>. QED BY <1>1, <1>3, <1>4 DEF Broadcasts

LEMMA UnregisterStep ==
  ASSUME SyncInvariant, NEW c \in Charts, Sync!Unregister(c)
  PROVE  SyncInvariant'
<1>. DEFINE p == Sync!PositionOf(c)
            s == Sync!SubOf(c)
<1>1. SyncTypes /\ OneEach
  BY DEF SyncInvariant
<1>2. p \in DOMAIN group /\ s \in Nat
  BY PlaceOf DEF Sync!Unregister
<1>3. group' = Sync!RemoveAt(group, p) /\ UNCHANGED <<owner, flag>> /\ Sync!Excuse(s)
  BY DEF Sync!Unregister
<1>. HIDE DEF p, s
<1>4. /\ group' \in Seq(Nat)
      /\ \A i \in DOMAIN group' :
           Before(p, i) \in DOMAIN group \ {p} /\ group'[i] = group[Before(p, i)]
      /\ \A i, j \in DOMAIN group' : Before(p, i) = Before(p, j) => i = j
  <2>1. group \in Seq(Nat) BY <1>1 DEF SyncTypes
  <2>. QED BY <1>2, <1>3, <2>1, Removed
<1>5. OneEach'
  BY <1>1, <1>2, <1>3, <1>4 DEF OneEach
<1>6. /\ stack' \in Seq(Broadcasts) /\ DOMAIN stack' = DOMAIN stack
      /\ \A i \in DOMAIN stack :
           /\ stack'[i].source = stack[i].source /\ stack'[i].todo = stack[i].todo
           /\ stack'[i].called = stack[i].called /\ stack'[i].owed = stack[i].owed \ {s}
  BY <1>2, <1>3, Excused
<1>7. ASSUME NEW i \in DOMAIN stack PROVE CallsAreSound(stack[i])' /\ DebtIsSound(stack[i])'
  <2>1. CallsAreSound(stack[i]) /\ DebtIsSound(stack[i]) BY DEF SyncInvariant
  <2>. QED BY <1>3, <1>6, <2>1 DEF CallsAreSound, DebtIsSound
<1>. QED BY <1>1, <1>3, <1>4, <1>5, <1>6, <1>7 DEF SyncInvariant, SyncTypes

LEMMA SetSyncFlagStep ==
  ASSUME SyncInvariant, NEW c \in Charts, NEW on \in BOOLEAN, Sync!SetSyncFlag(c, on)
  PROVE  SyncInvariant'
<1>. DEFINE s == Sync!SubOf(c)
<1>1. SyncTypes /\ OneEach
  BY DEF SyncInvariant
<1>2. s \in DOMAIN owner /\ s \in Nat
  BY PlaceOf DEF Sync!SetSyncFlag
<1>3. /\ flag' = [flag EXCEPT ![s] = on] /\ UNCHANGED <<owner, group>>
      /\ IF on THEN UNCHANGED stack ELSE Sync!Excuse(s)
  BY DEF Sync!SetSyncFlag
<1>. HIDE DEF s
<1>4. flag' \in Seq(BOOLEAN) /\ Len(flag') = Len(owner)
  BY <1>1, <1>2, <1>3 DEF SyncTypes
<1>5. OneEach'
  BY <1>1, <1>3 DEF OneEach
<1>6. DOMAIN flag = DOMAIN owner
  BY <1>1 DEF SyncTypes
<1>7. CASE on
  <2>1. ASSUME NEW i \in DOMAIN stack PROVE CallsAreSound(stack[i])' /\ DebtIsSound(stack[i])'
    <3>1. CallsAreSound(stack[i]) /\ DebtIsSound(stack[i]) BY DEF SyncInvariant
    <3>2. \A d \in DOMAIN owner : flag[d] => flag'[d] BY <1>3, <1>6, <1>7
    <3>. QED BY <1>3, <1>7, <3>1, <3>2 DEF CallsAreSound, DebtIsSound
  <2>. QED BY <1>1, <1>3, <1>4, <1>5, <1>7, <2>1 DEF SyncInvariant, SyncTypes
<1>8. CASE ~on
  <2>1. /\ stack' \in Seq(Broadcasts) /\ DOMAIN stack' = DOMAIN stack
        /\ \A i \in DOMAIN stack :
             /\ stack'[i].source = stack[i].source /\ stack'[i].todo = stack[i].todo
             /\ stack'[i].called = stack[i].called /\ stack'[i].owed = stack[i].owed \ {s}
    BY <1>2, <1>3, <1>8, Excused
  <2>2. \A d \in DOMAIN owner \ {s} : flag'[d] = flag[d] BY <1>3, <1>6
  <2>3. ASSUME NEW i \in DOMAIN stack PROVE CallsAreSound(stack[i])' /\ DebtIsSound(stack[i])'
    <3>1. CallsAreSound(stack[i]) /\ DebtIsSound(stack[i]) BY DEF SyncInvariant
    <3>. QED BY <1>3, <2>1, <2>2, <3>1 DEF CallsAreSound, DebtIsSound
  <2>. QED BY <1>1, <1>3, <1>4, <1>5, <2>1, <2>3 DEF SyncInvariant, SyncTypes
<1>. QED BY <1>7, <1>8

\* A broadcast begins: its peers are those of the group but the source.
LEMMA UpdateStep ==
  ASSUME SyncInvariant, NEW c \in Charts, Sync!Update(c)
  PROVE  SyncInvariant'
<1>. DEFINE p == Sync!PositionOf(c)
            peers == Sync!RemoveAt(group, p)
            b == [source |-> c, todo |-> peers, calling |-> Nobody, called |-> <<>>,
                  owed |-> {s \in Sync!ToSet(peers) : flag[s]}]
<1>1. SyncTypes /\ OneEach
  BY DEF SyncInvariant
<1>2. p \in DOMAIN group /\ owner[group[p]] = c
  BY PlaceOf DEF Sync!Update
<1>3. stack' = Append(stack, b) /\ UNCHANGED <<owner, flag, group>>
  BY DEF Sync!Update
<1>. HIDE DEF p
<1>4. /\ peers \in Seq(Nat)
      /\ \A i \in DOMAIN peers :
           Before(p, i) \in DOMAIN group \ {p} /\ peers[i] = group[Before(p, i)]
      /\ \A i, j \in DOMAIN peers : Before(p, i) = Before(p, j) => i = j
  <2>1. group \in Seq(Nat) BY <1>1 DEF SyncTypes
  <2>. QED BY <1>2, <2>1, Removed
<1>. HIDE DEF peers
<1>5. /\ b.source = c /\ b.todo = peers /\ b.called = <<>>
      /\ b.owed = {s \in Sync!ToSet(peers) : flag[s]}
  OBVIOUS
<1>6. \A s \in Sync!ToSet(peers) : s \in Nat /\ \E j \in DOMAIN peers : peers[j] = s
  BY <1>4 DEF Sync!ToSet
<1>7. b \in Broadcasts
  BY <1>4, <1>6 DEF Broadcasts
<1>. HIDE DEF b
<1>8. \A j \in DOMAIN peers : peers[j] \in DOMAIN owner /\ owner[peers[j]] # c
  BY <1>1, <1>2, <1>4 DEF OneEach
<1>9. \A j, k \in DOMAIN peers : peers[j] = peers[k] => j = k
  BY <1>1, <1>4 DEF OneEach
<1>10. CallsAreSound(b) /\ DebtIsSound(b)
  <2>1. CallsAreSound(b) BY <1>5, <1>8, <1>9 DEF CallsAreSound
  <2>2. DebtIsSound(b) BY <1>5, <1>6, <1>8 DEF DebtIsSound
  <2>. QED BY <2>1, <2>2
<1>11. /\ stack' \in Seq(Broadcasts)
       /\ \A i \in DOMAIN stack' :
            \/ i \in DOMAIN stack /\ stack'[i] = stack[i]
            \/ stack'[i] = b
  BY <1>1, <1>3, <1>7 DEF SyncTypes
<1>12. ASSUME NEW i \in DOMAIN stack' PROVE CallsAreSound(stack'[i]) /\ DebtIsSound(stack'[i])
  BY <1>10, <1>11 DEF SyncInvariant
<1>13. ASSUME NEW i \in DOMAIN stack' PROVE CallsAreSound(stack[i])' /\ DebtIsSound(stack[i])'
  BY <1>3, <1>12 DEF CallsAreSound, DebtIsSound
<1>. QED BY <1>1, <1>3, <1>11, <1>13 DEF SyncInvariant, SyncTypes, OneEach

\* The innermost broadcast is replaced.
LEMMA TopReplaced ==
  ASSUME SyncInvariant, stack # <<>>, NEW b \in Broadcasts, Sync!SetTop(b),
         UNCHANGED <<owner, flag, group>>, CallsAreSound(b), DebtIsSound(b)
  PROVE  SyncInvariant'
<1>1. stack \in Seq(Broadcasts) /\ stack' = [stack EXCEPT ![Len(stack)] = b]
  BY DEF SyncInvariant, SyncTypes, Sync!SetTop
<1>2. /\ stack' \in Seq(Broadcasts) /\ DOMAIN stack' = DOMAIN stack
      /\ \A i \in DOMAIN stack : stack'[i] = stack[i] \/ stack'[i] = b
  BY <1>1
<1>3. ASSUME NEW i \in DOMAIN stack' PROVE CallsAreSound(stack'[i]) /\ DebtIsSound(stack'[i])
  BY <1>2 DEF SyncInvariant
<1>4. ASSUME NEW i \in DOMAIN stack' PROVE CallsAreSound(stack[i])' /\ DebtIsSound(stack[i])'
  BY <1>3 DEF CallsAreSound, DebtIsSound
<1>. QED BY <1>2, <1>4 DEF SyncInvariant, SyncTypes, OneEach

LEMMA TopIs ==
  ASSUME SyncInvariant, stack # <<>>
  PROVE  Sync!Top \in Broadcasts /\ CallsAreSound(Sync!Top) /\ DebtIsSound(Sync!Top)
<1>1. stack \in Seq(Broadcasts)
  BY DEF SyncInvariant, SyncTypes
<1>2. Len(stack) \in DOMAIN stack
  BY <1>1
<1>3. Sync!Top = stack[Len(stack)]
  BY DEF Sync!Top, Sync!Last
<1>. QED BY <1>1, <1>2, <1>3 DEF SyncInvariant

\* What the calls made and to make are when the next one is made.
LEMMA HeadCalled ==
  ASSUME NEW todo \in Seq(Nat), NEW called \in Seq(Nat), todo # <<>>
  PROVE  LET s == Head(todo)
             rest == Tail(todo)
             more == Append(called, s)
         IN  /\ s \in Nat /\ rest \in Seq(Nat) /\ more \in Seq(Nat)
             /\ 1 \in DOMAIN todo /\ s = todo[1]
             /\ \A i \in DOMAIN rest : i + 1 \in DOMAIN todo \ {1} /\ rest[i] = todo[i + 1]
             /\ \A i \in DOMAIN todo \ {1} : i - 1 \in DOMAIN rest /\ rest[i - 1] = todo[i]
             /\ \A i \in DOMAIN rest, j \in DOMAIN rest : i + 1 = j + 1 => i = j
             /\ \A i \in DOMAIN called : i \in DOMAIN more /\ more[i] = called[i]
             /\ \A i \in DOMAIN more : i \in DOMAIN called \/ i = Len(called) + 1
             /\ Len(called) + 1 \in DOMAIN more /\ more[Len(called) + 1] = s
<1>. DEFINE s == Head(todo)
            rest == Tail(todo)
            more == Append(called, s)
<1>1. /\ Len(todo) \in Nat \ {0} /\ DOMAIN todo = 1 .. Len(todo) /\ s = todo[1] /\ s \in Nat
  OBVIOUS
<1>2. /\ rest \in Seq(Nat) /\ DOMAIN rest = 1 .. Len(todo) - 1
      /\ \A i \in 1 .. Len(todo) - 1 : rest[i] = todo[i + 1]
  OBVIOUS
<1>. HIDE DEF s
<1>3. /\ Len(called) \in Nat /\ DOMAIN called = 1 .. Len(called) /\ more \in Seq(Nat)
      /\ DOMAIN more = 1 .. Len(called) + 1 /\ more[Len(called) + 1] = s
      /\ \A i \in 1 .. Len(called) : more[i] = called[i]
  BY <1>1
<1>. HIDE DEF rest, more
<1>4. /\ \A i \in DOMAIN rest : i + 1 \in DOMAIN todo \ {1} /\ rest[i] = todo[i + 1]
      /\ \A i \in DOMAIN rest, j \in DOMAIN rest : i + 1 = j + 1 => i = j
  <2>. DEFINE n == Len(todo)
  <2>1. n \in Nat \ {0} /\ DOMAIN todo = 1 .. n /\ DOMAIN rest = 1 .. n - 1
    BY <1>1, <1>2
  <2>2. \A i \in 1 .. n - 1 : rest[i] = todo[i + 1]
    BY <1>2
  <2>. HIDE DEF n
  <2>3. \A i \in 1 .. n - 1 : i + 1 \in (1 .. n) \ {1}
    BY <2>1
  <2>4. \A i \in 1 .. n - 1, j \in 1 .. n - 1 : i + 1 = j + 1 => i = j
    BY <2>1
  <2>. QED BY <2>1, <2>2, <2>3, <2>4
<1>5. \A i \in DOMAIN todo \ {1} : i - 1 \in DOMAIN rest /\ rest[i - 1] = todo[i]
  BY <1>1, <1>2, SMTT(30)
<1>6. /\ \A i \in DOMAIN called : i \in DOMAIN more /\ more[i] = called[i]
      /\ \A i \in DOMAIN more : i \in DOMAIN called \/ i = Len(called) + 1
      /\ Len(called) + 1 \in DOMAIN more
  BY <1>3
<1>7. s = Head(todo) /\ rest = Tail(todo) /\ more = Append(called, Head(todo))
  BY DEF s, rest, more
<1>. QED BY <1>1, <1>2, <1>3, <1>4, <1>5, <1>6, <1>7

\* The next peer is called, or passed over: one that does not follow is owed nothing.
LEMMA CallPeerStep ==
  ASSUME SyncInvariant, Sync!CallPeer
  PROVE  SyncInvariant'
<1>. SUFFICES ASSUME NEW t \in Broadcasts, t = Sync!Top PROVE SyncInvariant'
  BY TopIs DEF Sync!CallPeer
<1>1. stack # <<>> /\ t.todo # <<>> /\ UNCHANGED <<owner, flag, group>>
  BY DEF Sync!CallPeer
<1>2. CallsAreSound(t) /\ DebtIsSound(t)
  BY <1>1, TopIs
<1>3. t.todo \in Seq(Nat) /\ t.called \in Seq(Nat) /\ t.owed \in SUBSET Nat
  BY DEF Broadcasts
<1>. DEFINE s == Head(t.todo)
            rest == Tail(t.todo)
            more == Append(t.called, s)
            passed == [t EXCEPT !.todo = rest]
            called == [passed EXCEPT !.calling = s, !.called = more]
<1>4. Sync!SetTop(IF flag[s] THEN called ELSE passed)
  <2>1. called = [passed EXCEPT !.calling = s, !.called = Append(@, s)]
    BY DEF Broadcasts
  <2>. QED BY <2>1 DEF Sync!CallPeer
<1>5. /\ s \in Nat /\ rest \in Seq(Nat) /\ 1 \in DOMAIN t.todo /\ s = t.todo[1]
      /\ \A i \in DOMAIN rest : i + 1 \in DOMAIN t.todo \ {1} /\ rest[i] = t.todo[i + 1]
      /\ \A i \in DOMAIN t.todo \ {1} : i - 1 \in DOMAIN rest /\ rest[i - 1] = t.todo[i]
      /\ \A i \in DOMAIN rest, j \in DOMAIN rest : i + 1 = j + 1 => i = j
  BY <1>1, <1>3, HeadCalled
<1>6. /\ more \in Seq(Nat)
      /\ \A i \in DOMAIN t.called : i \in DOMAIN more /\ more[i] = t.called[i]
      /\ \A i \in DOMAIN more : i \in DOMAIN t.called \/ i = Len(t.called) + 1
      /\ Len(t.called) + 1 \in DOMAIN more /\ more[Len(t.called) + 1] = s
  BY <1>1, <1>3, HeadCalled
<1>. HIDE DEF s, rest, more
<1>7. /\ passed \in Broadcasts /\ passed.source = t.source /\ passed.todo = rest
      /\ passed.called = t.called /\ passed.owed = t.owed
  BY <1>5 DEF Broadcasts
<1>8. /\ called \in Broadcasts /\ called.source = t.source /\ called.todo = rest
      /\ called.called = more /\ called.owed = t.owed
  BY <1>5, <1>6 DEF Broadcasts
<1>. HIDE DEF passed, called
<1>9. \A d \in t.owed : d = s \/ (\E j \in DOMAIN rest : rest[j] = d) \/ (\E j \in DOMAIN t.called : t.called[j] = d)
  <2>1. \A j \in DOMAIN t.todo : t.todo[j] = s \/ \E i \in DOMAIN rest : rest[i] = t.todo[j]
    BY <1>5
  <2>. QED BY <1>2, <2>1 DEF DebtIsSound
<1>10. CASE flag[s]
  <2>1. CallsAreSound(called)
    <3>1. \A j \in DOMAIN rest : rest[j] # s
      BY <1>2, <1>5 DEF CallsAreSound
    <3>2. \A j \in DOMAIN t.called : t.called[j] # s
      BY <1>2, <1>5 DEF CallsAreSound
    <3>3. \A j, k \in DOMAIN more : more[j] = more[k] => j = k
      BY <1>2, <1>6, <3>2 DEF CallsAreSound
    <3>4. \A j, k \in DOMAIN rest : rest[j] = rest[k] => j = k
      BY <1>2, <1>5 DEF CallsAreSound
    <3>5. \A j \in DOMAIN rest, k \in DOMAIN more : rest[j] # more[k]
      <4>1. \A j \in DOMAIN rest, k \in DOMAIN t.called : rest[j] # t.called[k]
        BY <1>2, <1>5 DEF CallsAreSound
      <4>. QED BY <1>6, <3>1, <4>1
    <3>6. \A j \in DOMAIN rest : rest[j] \in DOMAIN owner /\ owner[rest[j]] # t.source
      BY <1>2, <1>5 DEF CallsAreSound
    <3>7. \A j \in DOMAIN more : more[j] \in DOMAIN owner /\ owner[more[j]] # t.source
      BY <1>2, <1>5, <1>6, SMTT(30) DEF CallsAreSound
    <3>. QED BY <1>8, <3>3, <3>4, <3>5, <3>6, <3>7 DEF CallsAreSound
  <2>2. DebtIsSound(called)
    <3>1. \E j \in DOMAIN more : more[j] = s BY <1>6
    <3>2. \A j \in DOMAIN t.called : j \in DOMAIN more BY <1>6
    <3>. QED BY <1>2, <1>6, <1>8, <1>9, <3>1, <3>2 DEF DebtIsSound
  <2>. QED BY <1>1, <1>4, <1>8, <1>10, <2>1, <2>2, TopReplaced
<1>11. CASE ~flag[s]
  <2>1. CallsAreSound(passed)
    BY <1>2, <1>5, <1>7 DEF CallsAreSound
  <2>2. DebtIsSound(passed)
    BY <1>2, <1>7, <1>9, <1>11 DEF DebtIsSound
  <2>. QED BY <1>1, <1>4, <1>7, <1>11, <2>1, <2>2, TopReplaced
<1>. QED BY <1>10, <1>11

\* A callback returns or raises: the broadcast goes on.
LEMMA CallbackStep ==
  ASSUME SyncInvariant, Sync!CallbackReturns \/ Sync!CallbackRaises
  PROVE  SyncInvariant'
<1>. SUFFICES ASSUME NEW t \in Broadcasts, t = Sync!Top PROVE SyncInvariant'
  BY TopIs DEF Sync!CallbackReturns, Sync!CallbackRaises
<1>. DEFINE b == [t EXCEPT !.calling = Nobody]
<1>1. stack # <<>> /\ Sync!SetTop(b) /\ UNCHANGED <<owner, flag, group>>
  BY DEF Sync!CallbackReturns, Sync!CallbackRaises, Sync!AfterRaise
<1>2. /\ b \in Broadcasts /\ b.source = t.source /\ b.todo = t.todo
      /\ b.called = t.called /\ b.owed = t.owed
  BY DEF Broadcasts
<1>. HIDE DEF b
<1>3. CallsAreSound(t) /\ DebtIsSound(t)
  BY <1>1, TopIs
<1>4. CallsAreSound(b) /\ DebtIsSound(b)
  BY <1>2, <1>3 DEF CallsAreSound, DebtIsSound
<1>. QED BY <1>1, <1>2, <1>4, TopReplaced

LEMMA EndBroadcastStep ==
  ASSUME SyncInvariant, Sync!EndBroadcast
  PROVE  SyncInvariant'
<1>1. stack \in Seq(Broadcasts) /\ stack # <<>> /\ UNCHANGED <<owner, flag, group>>
  BY DEF SyncInvariant, SyncTypes, Sync!EndBroadcast
<1>2. stack' = SubSeq(stack, 1, Len(stack) - 1)
  BY DEF Sync!EndBroadcast, Sync!Front
<1>3. stack' \in Seq(Broadcasts) /\ \A i \in DOMAIN stack' : i \in DOMAIN stack /\ stack'[i] = stack[i]
  BY <1>1, <1>2
<1>4. ASSUME NEW i \in DOMAIN stack' PROVE CallsAreSound(stack[i])' /\ DebtIsSound(stack[i])'
  <2>1. CallsAreSound(stack[i]) /\ DebtIsSound(stack[i]) BY <1>3 DEF SyncInvariant
  <2>. QED BY <1>1, <1>3, <2>1 DEF CallsAreSound, DebtIsSound
<1>. QED BY <1>1, <1>3, <1>4 DEF SyncInvariant, SyncTypes, OneEach

LEMMA SyncInvariantHolds == PartsSpec => []SyncInvariant
<1>1. PartsInit => SyncInvariant
  BY SyncStarts DEF PartsInit
<1>2. SyncInvariant /\ [PartsNext]_allVars => SyncInvariant'
  <2>. SUFFICES ASSUME SyncInvariant, [PartsNext]_allVars PROVE SyncInvariant'
    OBVIOUS
  <2>1. CASE Sync!Next
    BY <2>1, RegisterStep, UnregisterStep, UpdateStep, SetSyncFlagStep, CallPeerStep, CallbackStep,
      EndBroadcastStep DEF Sync!Next
  <2>2. CASE UNCHANGED syncVars
    BY <2>2 DEF syncVars, SyncInvariant, SyncTypes, OneEach, CallsAreSound, DebtIsSound
  <2>. QED BY <2>1, <2>2 DEF PartsNext, Frozen, allVars
<1>. QED BY <1>1, <1>2, PTL DEF PartsSpec

\* The instance counts as this module does.
LEMMA SyncCounts == \A S : Sync!Cardinality(S) = Cardinality(S)
BY DEF Sync!Cardinality, Cardinality

\* Whatever callbacks do, a peer that follows during a whole broadcast is called
\* in it exactly once, and the source never: for any charts and nesting.
THEOREM EveryPeerAlwaysOnce == PartsSpec => []EveryPeerOnce
<1>1. SyncInvariant => EveryPeerOnce
  <2>. SUFFICES ASSUME SyncInvariant PROVE Sync!TypeOK /\ Sync!EveryPeerOnce
    BY DEF EveryPeerOnce
  <2>1. ASSUME NEW c \in Charts
        PROVE  Sync!Cardinality({i \in DOMAIN group : owner[group[i]] = c}) =< 1
    <3>. DEFINE P == {i \in DOMAIN group : owner[group[i]] = c}
    <3>1. \A i, j \in P : i = j BY DEF SyncInvariant, OneEach
    <3>. HIDE DEF P
    <3>2. CASE P = {}
      <4>1. Cardinality(P) = 0 BY <3>2, FS_EmptySet
      <4>. QED BY <4>1, SyncCounts DEF P
    <3>3. CASE P # {}
      <4>1. PICK i : P = {i} BY <3>1, <3>3
      <4>2. Cardinality(P) = 1 BY <4>1, FS_Singleton
      <4>. QED BY <4>2, SyncCounts DEF P
    <3>. QED BY <3>2, <3>3
  <2>2. Sync!TypeOK
    BY <2>1 DEF Sync!TypeOK, Sync!ToSet, SyncInvariant, SyncTypes, OneEach
  <2>3. Sync!EveryPeerOnce
    <3>. SUFFICES ASSUME NEW i \in DOMAIN stack, NEW b \in Broadcasts, b = stack[i]
                  PROVE  /\ \A j, k \in DOMAIN b.called : j # k => b.called[j] # b.called[k]
                         /\ \A j \in DOMAIN b.called : owner[b.called[j]] # b.source
                         /\ b.todo = <<>> => b.owed \subseteq Sync!ToSet(b.called)
      BY DEF Sync!EveryPeerOnce, SyncInvariant, SyncTypes
    <3>1. CallsAreSound(b) /\ DebtIsSound(b) BY DEF SyncInvariant
    <3>. QED BY <3>1 DEF CallsAreSound, DebtIsSound, Sync!ToSet
  <2>. QED BY <2>2, <2>3
<1>. QED BY <1>1, SyncInvariantHolds, PTL

-----------------------------------------------------------------------------
(***************************************************************************)
(* The event simulation.  While nothing disturbs the run, it has at most   *)
(* one dispatch under way: the handlers that have got its event, and those *)
(* that have not, agree on what was handed out before.                     *)
(***************************************************************************)
Happenings == Int \X Int \X Nat
Dispatches == [event : Happenings, next : Nat, inside : BOOLEAN]

EventTypes ==
  /\ Events!TypeOK
  /\ queue \subseteq Happenings /\ frames \in Seq(Dispatches)
  /\ handed \in [1 .. MaxHandlers -> Seq(Happenings)] /\ disturbed \in BOOLEAN
  /\ active \in Len(frames) .. Len(frames) + 1 /\ active =< MaxDispatches
  /\ \A i \in DOMAIN frames :
       /\ frames[i].event[3] =< counter
       /\ 1 =< frames[i].next
       /\ frames[i].next =< (IF frames[i].inside THEN handlers ELSE handlers + 1)
       /\ ~frames[i].inside => i = Len(frames) /\ active = Len(frames)

\* The handlers that have got the event under way.
Got ==
  IF frames = <<>> THEN {}
  ELSE {h \in 1 .. handlers :
          h < frames[1].next \/ (h = frames[1].next /\ frames[1].inside)}

\* How many events a handler had got before it.
Prior(h) == IF h \in Got THEN Len(handed[h]) - 1 ELSE Len(handed[h])

AllEarlier(q, e) == \A i \in DOMAIN q : Events!Earlier(q[i], e)

QueueIsLater ==
  /\ active = 1 => \A h \in 1 .. MaxHandlers : \A e \in queue : AllEarlier(handed[h], e)
  /\ frames # <<>> => \A e \in queue : Events!Earlier(frames[1].event, e)

CurrentIsLast ==
  frames # <<>> => \A h \in 1 .. handlers :
    /\ \A i \in 1 .. Prior(h) : Events!Earlier(handed[h][i], frames[1].event)
    /\ h \in Got => Len(handed[h]) > 0 /\ handed[h][Len(handed[h])] = frames[1].event

HandlersAgree ==
  \A h, g \in 1 .. handlers : h < g =>
    /\ Prior(g) =< Prior(h)
    /\ \A i \in 1 .. Prior(g) : handed[g][i] = handed[h][i + (Prior(h) - Prior(g))]

Undisturbed ==
  /\ Len(frames) =< 1 /\ active =< 1
  /\ QueueIsLater /\ CurrentIsLast /\ HandlersAgree
  /\ \A h \in 1 .. MaxHandlers : Events!InOrder(handed[h])
  /\ \A h \in 1 .. MaxHandlers : h > handlers => handed[h] = <<>>

EventInvariant == EventTypes /\ (~disturbed => Undisturbed)

\* Events are totally ordered: by time, sequence number and counter.
LEMMA EarlierIsOrder ==
  ASSUME NEW e \in Happenings, NEW f \in Happenings
  PROVE  /\ \A g \in Happenings : Events!Earlier(e, f) /\ Events!Earlier(f, g) => Events!Earlier(e, g)
         /\ e[3] # f[3] => Events!Earlier(e, f) \/ Events!Earlier(f, e)
<1>1. /\ e[1] \in Int /\ e[2] \in Int /\ e[3] \in Nat
      /\ f[1] \in Int /\ f[2] \in Int /\ f[3] \in Nat
  BY DEF Happenings
<1>2. \A g \in Happenings : g[1] \in Int /\ g[2] \in Int /\ g[3] \in Nat
  BY DEF Happenings
<1>. QED BY <1>1, <1>2 DEF Events!Earlier

LEMMA EventBounds ==
  /\ MaxEvents \in Nat /\ MaxHandlers \in Nat /\ MaxDispatches \in Nat
  /\ EventTimes \subseteq Int /\ SequenceIds \subseteq Int
BY ServicesAssumption DEF Events!EventAssumption

LEMMA EventsStart == Events!Init => EventInvariant
<1>. SUFFICES ASSUME Events!Init PROVE EventInvariant
  OBVIOUS
<1>. USE EventBounds DEF Events!Init
<1>1. EventTypes
  <2>1. frames = <<>> /\ Len(frames) = 0 /\ DOMAIN frames = {} /\ frames \in Seq(Dispatches) OBVIOUS
  <2>2. handed \in [1 .. MaxHandlers -> Seq(Happenings)] OBVIOUS
  <2>3. Events!TypeOK BY <2>1 DEF Events!TypeOK
  <2>4. active = 0 /\ active \in Len(frames) .. Len(frames) + 1 /\ active =< MaxDispatches BY <2>1
  <2>5. queue \subseteq Happenings /\ disturbed \in BOOLEAN OBVIOUS
  <2>. QED BY <2>1, <2>2, <2>3, <2>4, <2>5 DEF EventTypes
<1>2. Undisturbed
  <2>1. \A h \in 1 .. MaxHandlers : handed[h] = <<>> OBVIOUS
  <2>. QED BY <2>1 DEF Undisturbed, QueueIsLater, CurrentIsLast, HandlersAgree, Events!InOrder
<1>. QED BY <1>1, <1>2 DEF EventInvariant

LEMMA LastIsThere ==
  ASSUME NEW S, NEW q \in Seq(S), q # <<>>
  PROVE  Len(q) \in DOMAIN q
<1>1. Len(q) \in Nat \ {0} BY EmptySeq
<1>. QED BY <1>1, LenProperties

\* What is known of the numbers and of the dispatch on top.
LEMMA EventFacts ==
  ASSUME EventTypes
  PROVE  /\ counter \in Nat /\ handlers \in Nat /\ handlers =< MaxHandlers
         /\ active \in Nat /\ Len(frames) \in Nat /\ DOMAIN frames = 1 .. Len(frames)
         /\ \A i \in DOMAIN frames : /\ frames[i] \in Dispatches
                                     /\ frames[i].event \in Happenings /\ frames[i].next \in Nat
                                     /\ frames[i].inside \in BOOLEAN
         /\ \A h \in 1 .. MaxHandlers :
              /\ handed[h] \in Seq(Happenings) /\ Len(handed[h]) \in Nat
              /\ DOMAIN handed[h] = 1 .. Len(handed[h])
              /\ \A i \in 1 .. Len(handed[h]) : handed[h][i] \in Happenings
         /\ frames # <<>> => Len(frames) \in DOMAIN frames
<1>. USE EventBounds DEF EventTypes, Events!TypeOK
<1>1. counter \in Nat /\ handlers \in Nat /\ handlers =< MaxHandlers
  OBVIOUS
<1>2. Len(frames) \in Nat /\ DOMAIN frames = 1 .. Len(frames) /\ active \in Nat
  OBVIOUS
<1>3. frames # <<>> => Len(frames) \in DOMAIN frames
  <2>1. frames \in Seq(Dispatches) OBVIOUS
  <2>. QED BY <2>1, LastIsThere
<1>4. \A i \in DOMAIN frames : frames[i] \in Dispatches
  BY <1>2, ElementOfSeq
<1>5. \A d \in Dispatches : d.event \in Happenings /\ d.next \in Nat /\ d.inside \in BOOLEAN
  BY DEF Dispatches
<1>6. \A h \in 1 .. MaxHandlers : handed[h] \in Seq(Happenings)
  OBVIOUS
<1>7. \A q \in Seq(Happenings) :
        Len(q) \in Nat /\ DOMAIN q = 1 .. Len(q) /\ \A i \in 1 .. Len(q) : q[i] \in Happenings
  OBVIOUS
<1>. QED BY <1>1, <1>2, <1>3, <1>4, <1>5, <1>6, <1>7

\* The numbers and the dispatches keep their types.
LEMMA EventTypesStep ==
  ASSUME EventTypes, Events!Next
  PROVE  EventTypes'
<1>1. /\ counter \in Nat /\ handlers \in Nat /\ handlers =< MaxHandlers
      /\ active \in Nat /\ Len(frames) \in Nat /\ DOMAIN frames = 1 .. Len(frames)
      /\ \A i \in DOMAIN frames : /\ frames[i] \in Dispatches
                                  /\ frames[i].event \in Happenings /\ frames[i].next \in Nat
                                  /\ frames[i].inside \in BOOLEAN
      /\ frames # <<>> => Len(frames) \in DOMAIN frames
  BY EventFacts
<1>2. /\ Events!TypeOK /\ queue \subseteq Happenings /\ frames \in Seq(Dispatches)
      /\ handed \in [1 .. MaxHandlers -> Seq(Happenings)] /\ disturbed \in BOOLEAN
      /\ active \in Len(frames) .. Len(frames) + 1 /\ active =< MaxDispatches
      /\ \A i \in DOMAIN frames :
           /\ frames[i].event[3] =< counter
           /\ 1 =< frames[i].next
           /\ frames[i].next =< (IF frames[i].inside THEN handlers ELSE handlers + 1)
           /\ ~frames[i].inside => i = Len(frames) /\ active = Len(frames)
  BY DEF EventTypes
<1>3. Events!InHandler => \A i \in DOMAIN frames : frames[i].inside
  <2>. SUFFICES ASSUME Events!InHandler, NEW i \in DOMAIN frames PROVE frames[i].inside
    OBVIOUS
  <2>1. frames # <<>> OBVIOUS
  <2>2. frames[Len(frames)].inside BY <2>1 DEF Events!InHandler, Events!Last
  <2>3. ~frames[i].inside => i = Len(frames) BY <1>2
  <2>. QED BY <2>2, <2>3
<1>4. ~Events!InHandler => frames # <<>> /\ ~frames[Len(frames)].inside
  BY DEF Events!InHandler, Events!Last
<1>. DEFINE n == Len(frames)
<1>13. n \in Nat /\ (active = n \/ active = n + 1) /\ MaxDispatches \in Nat
  <2>1. n \in Nat BY <1>1
  <2>2. active \in n .. n + 1 BY <1>2
  <2>. QED BY <2>1, <2>2, EventBounds
<1>5. ASSUME NEW t \in EventTimes, NEW q \in SequenceIds, Events!load_event(t, q) PROVE EventTypes'
  <2>. USE <1>5 DEF Events!load_event
  <2>1. <<t, q, counter + 1>> \in Happenings BY <1>1, EventBounds DEF Happenings
  <2>2. queue' = queue \cup {<<t, q, counter + 1>>} BY DEF Events!Loaded
  <2>3. queue' \subseteq Happenings /\ \A e \in queue' : e[3] \in 1 .. counter'
    BY <1>1, <1>2, <2>1, <2>2 DEF Events!TypeOK
  <2>4. Events!TypeOK'
    BY <1>1, <1>2, <2>3, EventBounds DEF Events!TypeOK
  <2>5. disturbed' \in BOOLEAN OBVIOUS
  <2>6. \A i \in DOMAIN frames : frames[i].event[3] =< counter'
    <3>1. \A i \in DOMAIN frames : frames[i].event[3] \in Nat BY <1>1 DEF Happenings
    <3>. QED BY <1>1, <1>2, <3>1
  <2>. QED BY <1>2, <2>3, <2>4, <2>5, <2>6 DEF EventTypes
<1>6. CASE Events!register_tick_handler
  <2>. USE <1>6 DEF Events!register_tick_handler
  <2>1. Events!TypeOK'
    BY <1>1, <1>2, EventBounds DEF Events!TypeOK
  <2>2. \A i \in DOMAIN frames :
          frames[i].next =< (IF frames[i].inside THEN handlers' ELSE handlers' + 1)
    BY <1>1, <1>2
  <2>. QED BY <1>2, <2>1, <2>2 DEF EventTypes
<1>7. CASE Events!run
  <2>. USE <1>7 DEF Events!run
  <2>1. Events!TypeOK'
    BY <1>2 DEF Events!TypeOK
  <2>2. active' \in n .. n + 1 /\ active' =< MaxDispatches
    BY <1>1, <1>2, EventBounds
  <2>3. handed' \in [1 .. MaxHandlers -> Seq(Happenings)]
    <3>1. [h \in 1 .. MaxHandlers |-> <<>>] \in [1 .. MaxHandlers -> Seq(Happenings)] OBVIOUS
    <3>. QED BY <1>2, <3>1
  <2>4. disturbed' \in BOOLEAN OBVIOUS
  <2>. QED BY <1>2, <1>3, <2>1, <2>2, <2>3, <2>4 DEF EventTypes
<1>8. CASE Events!Pop
  <2>1. PICK e \in queue : /\ queue' = queue \ {e}
                           /\ frames' = Append(frames, [event |-> e, next |-> 1, inside |-> FALSE])
    BY <1>8 DEF Events!Pop
  <2>. DEFINE d == [event |-> e, next |-> 1, inside |-> FALSE]
  <2>2. /\ Events!InHandler /\ active > n
        /\ UNCHANGED <<counter, handlers, active, handed, disturbed>>
    BY <1>8 DEF Events!Pop
  <2>3. d \in Dispatches /\ d.event = e /\ d.next = 1 /\ d.inside = FALSE
    BY <1>2 DEF Dispatches
  <2>. HIDE DEF d
  <2>4. /\ frames' \in Seq(Dispatches) /\ Len(frames') = n + 1 /\ DOMAIN frames' = 1 .. n + 1
        /\ frames'[n + 1] = d /\ \A i \in 1 .. n : frames'[i] = frames[i]
    <3>1. frames' = Append(frames, d) BY <2>1 DEF d
    <3>. QED BY <1>2, <2>3, <3>1, AppendProperties, LenProperties
  <2>5. active = n + 1
    BY <1>13, <2>2
  <2>6. e[3] \in 1 .. counter
    BY <1>2 DEF Events!TypeOK
  <2>7. Events!TypeOK'
    BY <1>1, <1>2, <2>1, <2>2, <2>4, <2>5 DEF Events!TypeOK
  <2>8. ASSUME NEW i \in DOMAIN frames'
        PROVE  /\ frames'[i].event[3] =< counter /\ 1 =< frames'[i].next
               /\ frames'[i].next =< (IF frames'[i].inside THEN handlers ELSE handlers + 1)
               /\ ~frames'[i].inside => i = n + 1
    <3>1. CASE i = n + 1
      BY <1>1, <2>3, <2>4, <2>6, <3>1
    <3>2. CASE i \in 1 .. n
      BY <1>1, <1>2, <1>3, <2>2, <2>4, <3>2
    <3>. QED BY <1>1, <2>4, <3>1, <3>2
  <2>9. active' \in Len(frames') .. Len(frames') + 1 /\ active' =< MaxDispatches
    BY <1>2, <1>13, <2>2, <2>4, <2>5
  <2>10. queue' \subseteq Happenings BY <1>2, <2>1
  <2>. QED BY <1>2, <2>2, <2>4, <2>5, <2>7, <2>8, <2>9, <2>10 DEF EventTypes
<1>9. CASE Events!CallHandler
  <2>. DEFINE k == frames[n].next
  <2>1. /\ ~Events!InHandler /\ k =< handlers
        /\ handed' = [handed EXCEPT ![k] = Append(@, frames[n].event)]
        /\ frames' = [frames EXCEPT ![n].inside = TRUE]
        /\ UNCHANGED <<queue, counter, handlers, active, disturbed>>
    BY <1>9 DEF Events!CallHandler, Events!current, Events!Last
  <2>2. n \in DOMAIN frames /\ active = n /\ k \in 1 .. MaxHandlers /\ frames[n].event \in Happenings
    BY <1>1, <1>2, <1>4, <2>1, EventBounds, SMTT(30)
  <2>. HIDE DEF k
  <2>3. handed' \in [1 .. MaxHandlers -> Seq(Happenings)]
    BY <1>2, <2>1, <2>2
  <2>4. [frames[n] EXCEPT !.inside = TRUE] \in Dispatches
    BY <1>1, <2>2 DEF Dispatches
  <2>5. /\ frames' \in Seq(Dispatches) /\ Len(frames') = n /\ DOMAIN frames' = DOMAIN frames
        /\ frames'[n] = [frames[n] EXCEPT !.inside = TRUE]
        /\ \A i \in DOMAIN frames \ {n} : frames'[i] = frames[i]
    BY <1>2, <2>1, <2>2, <2>4
  <2>6. /\ frames'[n].inside /\ frames'[n].next = k /\ frames'[n].event = frames[n].event
    BY <1>1, <2>2, <2>5 DEF Dispatches, k
  <2>7. Events!TypeOK'
    BY <1>2, <2>1, <2>5 DEF Events!TypeOK
  <2>8. ASSUME NEW i \in DOMAIN frames'
        PROVE  /\ frames'[i].event[3] =< counter /\ 1 =< frames'[i].next
               /\ frames'[i].next =< (IF frames'[i].inside THEN handlers ELSE handlers + 1)
               /\ frames'[i].inside
    <3>1. CASE i = n BY <1>2, <2>1, <2>2, <2>6, <3>1 DEF k
    <3>2. CASE i # n BY <1>1, <1>2, <2>5, <3>2
    <3>. QED BY <3>1, <3>2
  <2>. QED BY <1>2, <2>1, <2>3, <2>5, <2>7, <2>8 DEF EventTypes
<1>10. CASE Events!HandlerReturns
  <2>1. /\ Events!InHandler /\ frames # <<>> /\ active = n
        /\ frames' = [frames EXCEPT ![n] =
                        [event |-> frames[n].event, next |-> frames[n].next + 1, inside |-> FALSE]]
        /\ UNCHANGED <<queue, counter, handlers, active, handed, disturbed>>
    BY <1>10 DEF Events!HandlerReturns, Events!current, Events!Last
  <2>2. n \in DOMAIN frames /\ frames[n] \in Dispatches /\ frames[n].inside
    BY <1>1, <1>3, <2>1
  <2>. DEFINE d == [event |-> frames[n].event, next |-> frames[n].next + 1, inside |-> FALSE]
  <2>3. /\ d \in Dispatches /\ d.inside = FALSE /\ d.next = frames[n].next + 1
        /\ d.event = frames[n].event
    BY <1>1, <2>2 DEF Dispatches
  <2>4. frames' = [frames EXCEPT ![n] = d]
    BY <2>1
  <2>. HIDE DEF d
  <2>5. /\ frames' \in Seq(Dispatches) /\ Len(frames') = n /\ DOMAIN frames' = DOMAIN frames
        /\ frames'[n] = d /\ \A i \in DOMAIN frames \ {n} : frames'[i] = frames[i]
    BY <1>2, <2>2, <2>3, <2>4
  <2>6. Events!TypeOK'
    BY <1>2, <2>1, <2>5 DEF Events!TypeOK
  <2>7. ASSUME NEW i \in DOMAIN frames'
        PROVE  /\ frames'[i].event[3] =< counter /\ 1 =< frames'[i].next
               /\ frames'[i].next =< (IF frames'[i].inside THEN handlers ELSE handlers + 1)
               /\ ~frames'[i].inside => i = n
    <3>1. CASE i = n
      <4>1. frames[n].next \in Nat /\ frames[n].next =< handlers BY <1>1, <1>2, <2>2
      <4>2. frames[n].event[3] =< counter /\ handlers \in Nat BY <1>1, <1>2, <2>2
      <4>3. frames'[i] = d BY <2>5, <3>1
      <4>. QED BY <2>3, <3>1, <4>1, <4>2, <4>3
    <3>2. CASE i # n BY <1>1, <1>2, <2>5, <3>2
    <3>. QED BY <3>1, <3>2
  <2>. QED BY <1>2, <2>1, <2>5, <2>6, <2>7 DEF EventTypes
<1>11. CASE Events!HandlerRaises \/ Events!Dispatched
  <2>1. /\ frames # <<>> /\ frames' = SubSeq(frames, 1, n - 1)
        /\ UNCHANGED <<queue, counter, handlers, handed>> /\ disturbed' \in BOOLEAN
        /\ active = n /\ active' \in n - 1 .. n
    <3>1. CASE Events!HandlerRaises
      BY <1>13, <3>1 DEF Events!HandlerRaises, Events!Front
    <3>2. CASE Events!Dispatched
      <4>1. frames # <<>> /\ active = n BY <1>1, <1>2, <1>4, <3>2 DEF Events!Dispatched
      <4>. QED BY <1>2, <1>13, <3>2, <4>1 DEF Events!Dispatched, Events!Front
    <3>. QED BY <1>11, <3>1, <3>2
  <2>2. n \in Nat \ {0}
    BY <1>1, <2>1
  <2>3. /\ frames' \in Seq(Dispatches) /\ Len(frames') = n - 1 /\ DOMAIN frames' = 1 .. n - 1
        /\ \A i \in 1 .. n - 1 : frames'[i] = frames[i] /\ frames[i].inside
    <3>1. \A i \in 1 .. n - 1 : frames[i] \in Dispatches BY <1>1
    <3>2. /\ frames' \in Seq(Dispatches) /\ Len(frames') = n - 1
          /\ \A i \in 1 .. n - 1 : frames'[i] = frames[i]
      BY <2>1, <2>2, <3>1, SubSeqProperties
    <3>3. \A i \in 1 .. n - 1 : i \in DOMAIN frames /\ i # n
      <4>1. DOMAIN frames = 1 .. n BY <1>1
      <4>2. \A i \in 1 .. n - 1 : i \in 1 .. n /\ i # n BY <2>2
      <4>. QED BY <4>1, <4>2
    <3>. QED BY <1>2, <3>2, <3>3, LenProperties
  <2>4. Events!TypeOK'
    BY <1>1, <1>2, <2>1, <2>3, EventBounds DEF Events!TypeOK
  <2>5. \A i \in 1 .. n - 1 : i \in DOMAIN frames
    BY <1>1, <2>2
  <2>. QED BY <1>1, <1>2, <2>1, <2>2, <2>3, <2>4, <2>5, EventBounds DEF EventTypes
<1>12. CASE Events!RunReturns
  <2>1. /\ Events!InHandler /\ active > n /\ active' = active - 1
        /\ UNCHANGED <<queue, counter, handlers, frames, handed, disturbed>>
    BY <1>12 DEF Events!RunReturns
  <2>2. active' \in n .. n + 1 /\ active' =< MaxDispatches
    <3>1. active =< MaxDispatches BY <1>2
    <3>. QED BY <1>13, <2>1, <3>1
  <2>3. Events!TypeOK'
    BY <1>2, <2>1 DEF Events!TypeOK
  <2>. QED BY <1>2, <1>3, <2>1, <2>2, <2>3 DEF EventTypes
<1>. QED
  BY <1>5, <1>6, <1>7, <1>8, <1>9, <1>10, <1>11, <1>12 DEF Events!Next

\* What an undisturbed run knows of what it handed out.
LEMMA HandedFacts ==
  ASSUME EventTypes, Undisturbed
  PROVE  /\ \A h \in 1 .. MaxHandlers : Prior(h) \in Nat
         /\ frames # <<>> =>
              /\ Len(frames) = 1 /\ DOMAIN frames = {1} /\ active = 1
              /\ frames[1].event \in Happenings /\ Events!current = frames[1].event
              /\ \A h \in 1 .. MaxHandlers : \A i \in DOMAIN handed[h] :
                   \/ handed[h][i] = frames[1].event
                   \/ Events!Earlier(handed[h][i], frames[1].event)
         /\ \A h \in Got : h \in 1 .. handlers /\ frames # <<>>
         /\ 1 .. handlers \subseteq 1 .. MaxHandlers
<1>1. /\ handlers \in Nat /\ handlers =< MaxHandlers /\ Len(frames) \in Nat
      /\ DOMAIN frames = 1 .. Len(frames)
      /\ \A i \in DOMAIN frames : frames[i].event \in Happenings
      /\ frames # <<>> => Len(frames) \in DOMAIN frames
  BY EventFacts
<1>2. \A h \in 1 .. MaxHandlers : Len(handed[h]) \in Nat /\ DOMAIN handed[h] = 1 .. Len(handed[h])
  BY EventFacts
<1>3. \A h \in Got : h \in 1 .. handlers /\ frames # <<>>
  BY DEF Got
<1>4. 1 .. handlers \subseteq 1 .. MaxHandlers
  BY <1>1, EventBounds
<1>5. ASSUME NEW h \in 1 .. MaxHandlers PROVE Prior(h) \in Nat
  <2>1. h \in Got => Len(handed[h]) > 0
    BY <1>3 DEF Undisturbed, CurrentIsLast
  <2>. QED BY <1>2, <2>1 DEF Prior
<1>6. CASE frames # <<>>
  <2>1. Len(frames) = 1 /\ DOMAIN frames = {1}
    BY <1>1, <1>6 DEF Undisturbed
  <2>2. active \in 1 .. 2 /\ active =< 1
    BY <2>1 DEF EventTypes, Undisturbed
  <2>3. Events!current = frames[1].event
    BY <2>1 DEF Events!current, Events!Last
  <2>4. ASSUME NEW h \in 1 .. MaxHandlers, NEW i \in DOMAIN handed[h]
        PROVE  handed[h][i] = frames[1].event \/ Events!Earlier(handed[h][i], frames[1].event)
    <3>1. CASE h > handlers
      <4>1. handed[h] = <<>> BY <3>1 DEF Undisturbed
      <4>. QED BY <4>1
    <3>2. CASE h \in 1 .. handlers
      <4>1. i \in 1 .. Prior(h) \/ (h \in Got /\ i = Len(handed[h]))
        BY <1>2, <2>4 DEF Prior
      <4>. QED BY <1>6, <3>2, <4>1 DEF Undisturbed, CurrentIsLast
    <3>. QED BY <1>1, <3>1, <3>2
  <2>. QED BY <1>1, <1>3, <1>4, <1>5, <2>1, <2>2, <2>3, <2>4
<1>. QED BY <1>3, <1>4, <1>5, <1>6

\* An event is loaded that is not earlier than the one under way.
LEMMA LoadStep ==
  ASSUME EventTypes, Undisturbed, NEW t \in EventTimes, NEW q \in SequenceIds,
         Events!load_event(t, q), ~disturbed'
  PROVE  Undisturbed'
<1>. DEFINE new == <<t, q, counter + 1>>
<1>1. /\ active = Len(frames) /\ queue' = queue \cup {new}
      /\ frames # <<>> => ~Events!Earlier(new, Events!current)
      /\ UNCHANGED <<handlers, frames, active, handed>>
  BY DEF Events!load_event, Events!Loaded
<1>2. new \in Happenings /\ new[3] = counter + 1 /\ counter \in Nat
  BY EventFacts, EventBounds DEF Happenings
<1>. HIDE DEF new
<1>3. Got' = Got /\ \A h : Prior(h)' = Prior(h)
  BY <1>1 DEF Got, Prior
<1>4. CASE frames = <<>>
  <2>1. active = 0 BY <1>1, <1>4
  <2>. QED BY <1>1, <1>3, <1>4, <2>1 DEF Undisturbed, QueueIsLater, CurrentIsLast, HandlersAgree
<1>5. CASE frames # <<>>
  <2>. DEFINE e == frames[1].event
  <2>1. /\ e \in Happenings /\ Events!current = e /\ 1 \in DOMAIN frames
        /\ \A h \in 1 .. MaxHandlers : \A i \in DOMAIN handed[h] :
             handed[h][i] = e \/ Events!Earlier(handed[h][i], e)
    BY <1>5, HandedFacts
  <2>2. e[3] \in Nat /\ e[3] =< counter
    BY <2>1 DEF EventTypes, Happenings
  <2>3. \A h \in 1 .. MaxHandlers : \A i \in DOMAIN handed[h] : handed[h][i] \in Happenings
    BY EventFacts
  <2>. HIDE DEF e
  <2>4. Events!Earlier(e, new)
    BY <1>1, <1>2, <1>5, <2>1, <2>2, EarlierIsOrder
  <2>5. \A h \in 1 .. MaxHandlers : AllEarlier(handed[h], new)
    BY <1>2, <2>1, <2>3, <2>4, EarlierIsOrder DEF AllEarlier
  <2>6. QueueIsLater'
    BY <1>1, <2>4, <2>5 DEF Undisturbed, QueueIsLater, AllEarlier, e
  <2>. QED BY <1>1, <1>3, <2>6 DEF Undisturbed, CurrentIsLast, HandlersAgree
<1>. QED BY <1>4, <1>5

\* A handler that is registered has got nothing.
LEMMA RegisterHandlerStep ==
  ASSUME EventTypes, Undisturbed, Events!register_tick_handler
  PROVE  Undisturbed'
<1>. DEFINE n == handlers + 1
<1>1. /\ handlers < MaxHandlers /\ handlers' = n
      /\ UNCHANGED <<queue, frames, active, handed>>
  BY DEF Events!register_tick_handler
<1>2. handlers \in Nat /\ MaxHandlers \in Nat /\ n \in 1 .. MaxHandlers
  BY <1>1, EventFacts, EventBounds
<1>3. handed[n] = <<>> /\ n \notin Got
  <2>1. handed[n] = <<>> BY <1>2 DEF Undisturbed
  <2>. QED BY <1>2, <2>1 DEF Got
<1>4. Got' = Got
  <2>1. CASE frames = <<>> BY <1>1, <2>1 DEF Got
  <2>2. CASE frames # <<>>
    <3>1. /\ 1 \in DOMAIN frames /\ frames[1].next \in Nat
          /\ frames[1].next =< (IF frames[1].inside THEN handlers ELSE handlers + 1)
      BY <2>2, HandedFacts, EventFacts DEF EventTypes
    <3>2. \A h \in 1 .. n : h < frames[1].next \/ (h = frames[1].next /\ frames[1].inside)
                             => h \in 1 .. handlers
      BY <1>2, <3>1
    <3>3. 1 .. handlers \subseteq 1 .. n
      BY <1>2
    <3>. QED BY <1>1, <2>2, <3>2, <3>3 DEF Got
  <2>. QED BY <2>1, <2>2
<1>5. \A h : Prior(h)' = Prior(h)
  BY <1>1, <1>4 DEF Prior
<1>6. Prior(n) = 0 /\ \A h \in 1 .. MaxHandlers : Prior(h) \in Nat
  BY <1>3, HandedFacts DEF Prior
<1>. HIDE DEF n
<1>7. 1 .. handlers' = (1 .. handlers) \cup {n}
  BY <1>1, <1>2 DEF n
<1>8. CurrentIsLast'
  BY <1>1, <1>3, <1>4, <1>5, <1>6, <1>7 DEF Undisturbed, CurrentIsLast
<1>9. HandlersAgree'
  <2>. SUFFICES ASSUME NEW h \in 1 .. handlers', NEW g \in 1 .. handlers', h < g
                PROVE  /\ Prior(g) =< Prior(h)
                       /\ \A i \in 1 .. Prior(g) : handed[g][i] = handed[h][i + (Prior(h) - Prior(g))]
    BY <1>1, <1>5 DEF HandlersAgree
  <2>1. CASE g = n
    <3>1. h \in 1 .. MaxHandlers BY <1>1, <1>2
    <3>. QED BY <1>6, <2>1, <3>1
  <2>2. CASE g # n
    <3>1. h \in 1 .. handlers /\ g \in 1 .. handlers BY <1>1, <1>2, <2>2 DEF n
    <3>. QED BY <3>1 DEF Undisturbed, HandlersAgree
  <2>. QED BY <2>1, <2>2
<1>10. \A h \in 1 .. MaxHandlers : h > handlers' => handed[h] = <<>>
  BY <1>1, <1>2 DEF Undisturbed, n
<1>. QED BY <1>1, <1>8, <1>9, <1>10 DEF Undisturbed, QueueIsLater

\* A run begins: nothing was handed out.
LEMMA RunBegins ==
  ASSUME EventTypes, Events!run, ~disturbed'
  PROVE  Undisturbed'
<1>1. /\ frames = <<>> /\ frames' = <<>> /\ active = 0 /\ active' = 1
      /\ handed' = [h \in 1 .. MaxHandlers |-> <<>>] /\ UNCHANGED handlers
  <2>1. frames = <<>> BY DEF Events!run
  <2>2. active = 0 /\ active' = 0 + 1 BY <2>1 DEF Events!run
  <2>3. handed' = [h \in 1 .. MaxHandlers |-> <<>>] BY <2>1 DEF Events!run
  <2>. QED BY <2>1, <2>2, <2>3 DEF Events!run
<1>2. \A h \in 1 .. MaxHandlers : handed'[h] = <<>>
  BY <1>1
<1>3. handlers \in Nat /\ 1 .. handlers \subseteq 1 .. MaxHandlers
  BY EventFacts, EventBounds
<1>4. Got' = {} /\ \A h \in 1 .. handlers : Prior(h)' = 0
  BY <1>1, <1>2, <1>3 DEF Got, Prior
<1>5. QueueIsLater' /\ CurrentIsLast'
  BY <1>1, <1>2 DEF QueueIsLater, CurrentIsLast, AllEarlier
<1>6. HandlersAgree'
  BY <1>1, <1>4 DEF HandlersAgree
<1>7. \A h \in 1 .. MaxHandlers : Events!InOrder(handed[h])'
  BY <1>2 DEF Events!InOrder
<1>. QED BY <1>1, <1>2, <1>5, <1>6, <1>7 DEF Undisturbed

\* The earliest event leaves the queue.
LEMMA PopStep ==
  ASSUME EventTypes, Undisturbed, Events!Pop
  PROVE  Undisturbed'
<1>1. PICK e \in queue : /\ \A f \in queue \ {e} : Events!Earlier(e, f)
                         /\ queue' = queue \ {e}
                         /\ frames' = Append(frames, [event |-> e, next |-> 1, inside |-> FALSE])
  BY DEF Events!Pop
<1>2. active > Len(frames) /\ UNCHANGED <<handlers, active, handed>>
  BY DEF Events!Pop
<1>3. frames = <<>> /\ active = 1
  <2>1. active \in Nat /\ Len(frames) \in Nat /\ active =< 1
    BY EventFacts DEF Undisturbed
  <2>2. frames = <<>> BY <1>2, <2>1, HandedFacts
  <2>. QED BY <1>2, <2>1, <2>2
<1>4. /\ Len(frames') = 1 /\ frames' # <<>> /\ frames'[1].event = e
      /\ frames'[1].next = 1 /\ frames'[1].inside = FALSE
  BY <1>1, <1>3
<1>5. Got = {} /\ Got' = {}
  <2>1. Got = {} BY <1>3 DEF Got
  <2>2. handlers \in Nat BY EventFacts
  <2>3. \A h \in 1 .. handlers : ~(h < 1) BY <2>2
  <2>. QED BY <1>2, <1>4, <2>1, <2>3 DEF Got
<1>6. \A h : Prior(h)' = Prior(h) /\ Prior(h) = Len(handed[h])
  BY <1>2, <1>5 DEF Prior
<1>7. QueueIsLater'
  BY <1>1, <1>2, <1>3, <1>4 DEF Undisturbed, QueueIsLater
<1>8. CurrentIsLast'
  <2>1. \A h \in 1 .. MaxHandlers : AllEarlier(handed[h], e)
    BY <1>1, <1>3 DEF Undisturbed, QueueIsLater
  <2>2. \A h \in 1 .. MaxHandlers : DOMAIN handed[h] = 1 .. Len(handed[h])
    BY EventFacts
  <2>. QED BY <1>2, <1>4, <1>5, <1>6, <2>1, <2>2, HandedFacts DEF CurrentIsLast, AllEarlier
<1>. QED BY <1>2, <1>4, <1>6, <1>7, <1>8 DEF Undisturbed, HandlersAgree

\* The next handler gets the event.
LEMMA CallHandlerStep ==
  ASSUME EventTypes, Undisturbed, Events!CallHandler
  PROVE  Undisturbed'
<1>. DEFINE k == frames[1].next
            e == frames[1].event
<1>1. frames # <<>>
  BY DEF Events!CallHandler, Events!InHandler
<1>2. /\ Len(frames) = 1 /\ DOMAIN frames = {1} /\ e \in Happenings /\ Events!current = e
      /\ \A h \in 1 .. MaxHandlers : Prior(h) \in Nat
      /\ 1 .. handlers \subseteq 1 .. MaxHandlers
  BY <1>1, HandedFacts
<1>3. /\ ~frames[1].inside /\ k =< handlers
      /\ handed' = [handed EXCEPT ![k] = Append(@, e)]
      /\ frames' = [frames EXCEPT ![1].inside = TRUE]
      /\ UNCHANGED <<queue, handlers, active>>
  BY <1>2 DEF Events!CallHandler, Events!InHandler, Events!Last
<1>4. frames[1] \in Dispatches /\ k \in Nat /\ 1 =< k /\ handlers \in Nat
  BY <1>2, EventFacts DEF EventTypes
<1>5. k \in 1 .. handlers /\ k \in 1 .. MaxHandlers
  BY <1>2, <1>3, <1>4
<1>6. /\ Len(frames') = 1 /\ frames' # <<>> /\ frames'[1].event = e
      /\ frames'[1].next = k /\ frames'[1].inside
  <2>1. frames'[1] = [frames[1] EXCEPT !.inside = TRUE] /\ DOMAIN frames' = {1}
    BY <1>2, <1>3
  <2>2. frames' \in Seq(Dispatches) /\ Len(frames') = 1 /\ frames' # <<>>
    <3>1. EventTypes' BY EventTypesStep DEF Events!Next
    <3>2. frames' \in Seq(Dispatches) BY <3>1 DEF EventTypes
    <3>3. frames' # <<>> BY <2>1
    <3>4. Len(frames') \in Nat /\ DOMAIN frames' = 1 .. Len(frames') BY <3>2, LenProperties
    <3>5. 1 \in 1 .. Len(frames') /\ 2 \notin 1 .. Len(frames') BY <2>1, <3>4
    <3>6. Len(frames') = 1 BY <3>4, <3>5
    <3>. QED BY <3>2, <3>3, <3>6
  <2>. QED BY <1>4, <2>1, <2>2 DEF Dispatches
<1>7. /\ \A h \in 1 .. handlers : h \in Got <=> h < k
      /\ \A h \in 1 .. handlers : h \in Got' <=> h < k \/ h = k
  BY <1>1, <1>3, <1>6 DEF Got
<1>. HIDE DEF k, e
<1>8. \A h \in 1 .. MaxHandlers :
        /\ handed[h] \in Seq(Happenings) /\ Len(handed[h]) \in Nat
        /\ DOMAIN handed[h] = 1 .. Len(handed[h])
        /\ \A i \in 1 .. Len(handed[h]) : handed[h][i] \in Happenings
  BY EventFacts
<1>9. /\ \A h \in (1 .. MaxHandlers) \ {k} : handed'[h] = handed[h]
      /\ handed'[k] = Append(handed[k], e)
  BY <1>3, <1>5 DEF EventTypes
<1>10. /\ Len(handed'[k]) = Len(handed[k]) + 1 /\ DOMAIN handed'[k] = 1 .. Len(handed[k]) + 1
       /\ handed'[k][Len(handed[k]) + 1] = e
       /\ \A i \in 1 .. Len(handed[k]) : handed'[k][i] = handed[k][i]
  <2>1. Append(handed[k], e) \in Seq(Happenings) BY <1>2, <1>5, <1>8
  <2>. QED BY <1>2, <1>5, <1>8, <1>9, <2>1, AppendProperties, LenProperties
<1>11. \A h \in 1 .. handlers : Prior(h)' = Prior(h)
  BY <1>2, <1>4, <1>5, <1>7, <1>8, <1>9, <1>10 DEF Prior
<1>12. k \notin Got /\ Prior(k) = Len(handed[k])
  BY <1>4, <1>5, <1>7 DEF Prior
<1>13. \A h \in 1 .. handlers : \A i \in 1 .. Prior(h) : handed'[h][i] = handed[h][i]
  BY <1>2, <1>9, <1>10, <1>12
<1>14. \A i \in 1 .. Len(handed[k]) : Events!Earlier(handed[k][i], e)
  BY <1>1, <1>5, <1>12 DEF Undisturbed, CurrentIsLast, e
<1>15. QueueIsLater'
  <2>1. \A f \in queue : Events!Earlier(e, f)
    BY <1>1 DEF Undisturbed, QueueIsLater, e
  <2>2. active = 1 => \A f \in queue : AllEarlier(handed[k], f)
    BY <1>5 DEF Undisturbed, QueueIsLater
  <2>3. active = 1 => \A f \in queue : AllEarlier(handed'[k], f)
    <3> SUFFICES ASSUME active = 1, NEW f \in queue, NEW i \in DOMAIN handed'[k]
                 PROVE  Events!Earlier(handed'[k][i], f)
      BY DEF AllEarlier
    <3>1. i \in 1 .. Len(handed[k]) \/ i = Len(handed[k]) + 1 BY <1>5, <1>8, <1>10
    <3>2. CASE i \in 1 .. Len(handed[k])
      <4>1. handed'[k][i] = handed[k][i] BY <1>10, <3>2
      <4>2. i \in DOMAIN handed[k] BY <1>5, <1>8, <3>2
      <4>3. AllEarlier(handed[k], f) BY <2>2
      <4>4. Events!Earlier(handed[k][i], f) BY <4>2, <4>3 DEF AllEarlier
      <4>. QED BY <4>1, <4>4
    <3>3. CASE i = Len(handed[k]) + 1
      BY <1>10, <2>1, <3>3
    <3>. QED BY <3>1, <3>2, <3>3
  <2>4. active = 1 => \A h \in 1 .. MaxHandlers : \A f \in queue : AllEarlier(handed'[h], f)
    BY <1>9, <2>3 DEF Undisturbed, QueueIsLater
  <2>. QED BY <1>3, <1>6, <2>1, <2>4 DEF QueueIsLater
<1>16. CurrentIsLast'
  <2>. SUFFICES ASSUME NEW h \in 1 .. handlers
                PROVE  /\ \A i \in 1 .. Prior(h) : Events!Earlier(handed'[h][i], e)
                       /\ h \in Got' => Len(handed'[h]) > 0 /\ handed'[h][Len(handed'[h])] = e
    BY <1>3, <1>6, <1>11 DEF CurrentIsLast
  <2>1. \A i \in 1 .. Prior(h) : Events!Earlier(handed[h][i], e)
    BY <1>1 DEF Undisturbed, CurrentIsLast, e
  <2>2. CASE h = k
    BY <1>5, <1>8, <1>10, <1>13, <2>1, <2>2
  <2>3. CASE h # k
    <3>1. h \in Got' => h \in Got BY <1>4, <1>7, <2>3
    <3>2. h \in 1 .. MaxHandlers BY <1>2
    <3>3. h \in Got => Len(handed[h]) > 0 /\ handed[h][Len(handed[h])] = e
      BY <1>1 DEF Undisturbed, CurrentIsLast, e
    <3>. QED BY <1>9, <1>13, <2>1, <2>3, <3>1, <3>2, <3>3
  <2>. QED BY <2>2, <2>3
<1>17. HandlersAgree'
  <2>1. ASSUME NEW h \in 1 .. handlers, NEW g \in 1 .. handlers, h < g
        PROVE  /\ Prior(g)' =< Prior(h)'
               /\ \A i \in 1 .. Prior(g)' :
                    handed'[g][i] = handed'[h][i + (Prior(h)' - Prior(g)')]
    <3>1. /\ Prior(g) =< Prior(h)
          /\ \A i \in 1 .. Prior(g) : handed[g][i] = handed[h][i + (Prior(h) - Prior(g))]
      BY <2>1 DEF Undisturbed, HandlersAgree
    <3>2. Prior(g) \in Nat /\ Prior(h) \in Nat
      BY <1>2
    <3>3. \A i \in 1 .. Prior(g) : i + (Prior(h) - Prior(g)) \in 1 .. Prior(h)
      BY <3>1, <3>2
    <3>4. \A i \in 1 .. Prior(g) : handed'[g][i] = handed'[h][i + (Prior(h) - Prior(g))]
      BY <1>13, <3>1, <3>3
    <3>5. Prior(g)' = Prior(g) /\ Prior(h)' = Prior(h)
      BY <1>11
    <3>. QED BY <3>1, <3>4, <3>5
  <2>. QED BY <1>3, <2>1 DEF HandlersAgree
<1>18. \A h \in 1 .. MaxHandlers : Events!InOrder(handed'[h])
  <2>1. Events!InOrder(handed'[k])
    <3>1. Events!InOrder(handed[k]) BY <1>5 DEF Undisturbed
    <3>. DEFINE n == Len(handed[k])
    <3>2. n \in Nat /\ DOMAIN handed[k] = 1 .. n /\ DOMAIN handed'[k] = 1 .. n + 1
      BY <1>5, <1>8, <1>10
    <3>3. /\ handed'[k][n + 1] = e
          /\ \A i \in 1 .. n : handed'[k][i] = handed[k][i] /\ Events!Earlier(handed[k][i], e)
      BY <1>10, <1>14
    <3>. HIDE DEF n
    <3>4. ASSUME NEW i \in 1 .. n + 1, NEW j \in 1 .. n + 1, i < j
          PROVE  Events!Earlier(handed'[k][i], handed'[k][j])
      <4>1. i \in 1 .. n /\ (j \in 1 .. n \/ j = n + 1) BY <3>2, <3>4
      <4>2. CASE j = n + 1 BY <3>3, <4>1, <4>2
      <4>3. CASE j \in 1 .. n
        <5>1. Events!Earlier(handed[k][i], handed[k][j])
          BY <3>1, <3>2, <3>4, <4>1, <4>3 DEF Events!InOrder
        <5>. QED BY <3>3, <4>1, <4>3, <5>1
      <4>. QED BY <4>1, <4>2, <4>3
    <3>. QED BY <3>2, <3>4 DEF Events!InOrder
  <2>. QED BY <1>9, <2>1 DEF Undisturbed
<1>19. \A h \in 1 .. MaxHandlers : h > handlers => handed'[h] = <<>>
  BY <1>3, <1>4, <1>5, <1>9 DEF Undisturbed
<1>. QED BY <1>3, <1>6, <1>15, <1>16, <1>17, <1>18, <1>19 DEF Undisturbed

LEMMA HandlerReturnsStep ==
  ASSUME EventTypes, Undisturbed, Events!HandlerReturns
  PROVE  Undisturbed'
<1>. DEFINE k == frames[1].next
            d == [event |-> frames[1].event, next |-> k + 1, inside |-> FALSE]
<1>1. frames # <<>> /\ Events!InHandler /\ UNCHANGED <<queue, handlers, active, handed>>
  BY DEF Events!HandlerReturns
<1>2. Len(frames) = 1 /\ DOMAIN frames = {1} /\ Events!current = frames[1].event
  BY <1>1, HandedFacts
<1>3. frames' = [frames EXCEPT ![1] = d] /\ frames[1].inside
  BY <1>1, <1>2 DEF Events!HandlerReturns, Events!InHandler, Events!Last
<1>4. frames[1] \in Dispatches /\ k \in Nat /\ frames[1].event \in Happenings
  BY <1>2, EventFacts
<1>5. /\ Len(frames') = 1 /\ frames' # <<>> /\ frames'[1].event = frames[1].event
      /\ frames'[1].next = k + 1 /\ frames'[1].inside = FALSE
  <2>1. frames'[1] = d /\ Len(frames') = 1 /\ frames' # <<>>
    BY <1>2, <1>3 DEF EventTypes
  <2>. QED BY <2>1
<1>. HIDE DEF k, d
<1>6. Got' = Got
  <2>1. \A h \in 1 .. handlers : (h < k \/ h = k) <=> h < k + 1 BY <1>4
  <2>2. Got = {h \in 1 .. handlers : h < k \/ h = k} BY <1>1, <1>3 DEF Got, k
  <2>3. Got' = {h \in 1 .. handlers : h < k + 1} BY <1>1, <1>5 DEF Got
  <2>. QED BY <2>1, <2>2, <2>3
<1>7. \A h : Prior(h)' = Prior(h)
  BY <1>1, <1>6 DEF Prior
<1>. QED BY <1>1, <1>5, <1>6, <1>7 DEF Undisturbed, QueueIsLater, CurrentIsLast, HandlersAgree

\* All handlers have got the event.
LEMMA DispatchedStep ==
  ASSUME EventTypes, Undisturbed, Events!Dispatched
  PROVE  Undisturbed'
<1>1. /\ ~Events!InHandler /\ frames # <<>> /\ Events!Last(frames).next > handlers
      /\ UNCHANGED <<queue, handlers, active, handed>>
  BY DEF Events!Dispatched, Events!InHandler
<1>2. /\ Len(frames) = 1 /\ DOMAIN frames = {1}
      /\ \A h \in 1 .. MaxHandlers : Prior(h) \in Nat
      /\ 1 .. handlers \subseteq 1 .. MaxHandlers
  BY <1>1, HandedFacts
<1>3. frames' = <<>>
  <2>1. frames' = SubSeq(frames, 1, 0) BY <1>2 DEF Events!Dispatched, Events!Front
  <2>. QED BY <2>1, SubSeqEmpty
<1>4. Got' = {}
  BY <1>3 DEF Got
<1>5. \A h \in 1 .. handlers : h \in Got
  <2>1. frames[1].next > handlers /\ frames[1].next \in Nat /\ handlers \in Nat
    BY <1>1, <1>2, EventFacts DEF Events!Last
  <2>2. \A h \in 1 .. handlers : h < frames[1].next BY <2>1
  <2>. QED BY <1>1, <2>2 DEF Got
<1>6. \A h \in 1 .. MaxHandlers : Len(handed[h]) \in Nat
  BY EventFacts
<1>7. \A h \in 1 .. handlers : Prior(h)' = Len(handed[h]) /\ Prior(h) = Len(handed[h]) - 1
  BY <1>1, <1>4, <1>5 DEF Prior
<1>8. HandlersAgree'
  <2>. SUFFICES ASSUME NEW h \in 1 .. handlers, NEW g \in 1 .. handlers, h < g
                PROVE  /\ Prior(g)' =< Prior(h)'
                       /\ \A i \in 1 .. Prior(g)' :
                            handed[g][i] = handed[h][i + (Prior(h)' - Prior(g)')]
    BY <1>1 DEF HandlersAgree
  <2>. DEFINE m == Len(handed[h])
              n == Len(handed[g])
  <2>1. m \in Nat /\ n \in Nat /\ Prior(h) = m - 1 /\ Prior(g) = n - 1
    BY <1>2, <1>6, <1>7
  <2>2. /\ Prior(g) =< Prior(h)
        /\ \A i \in 1 .. Prior(g) : handed[g][i] = handed[h][i + (Prior(h) - Prior(g))]
    BY DEF Undisturbed, HandlersAgree
  <2>3. handed[g][n] = handed[h][m]
    BY <1>1, <1>5 DEF Undisturbed, CurrentIsLast
  <2>. HIDE DEF m, n
  <2>4. n =< m BY <2>1, <2>2
  <2>5. ASSUME NEW i \in 1 .. n PROVE handed[g][i] = handed[h][i + (m - n)]
    <3>1. CASE i = n
      <4>1. i + (m - n) = m BY <2>1, <3>1
      <4>. QED BY <2>3, <3>1, <4>1
    <3>2. CASE i # n
      <4>1. i \in 1 .. n - 1 /\ (m - 1) - (n - 1) = m - n BY <2>1, <3>2
      <4>. QED BY <2>1, <2>2, <4>1
    <3>. QED BY <3>1, <3>2
  <2>6. Prior(g)' = n /\ Prior(h)' = m
    BY <1>7 DEF m, n
  <2>. QED BY <2>4, <2>5, <2>6
<1>. QED BY <1>1, <1>3, <1>8 DEF Undisturbed, QueueIsLater, CurrentIsLast

LEMMA RunReturnsStep ==
  ASSUME EventTypes, Undisturbed, Events!RunReturns
  PROVE  Undisturbed'
<1>1. active > Len(frames) /\ active' = active - 1 /\ UNCHANGED <<queue, handlers, frames, handed>>
  BY DEF Events!RunReturns
<1>2. frames = <<>> /\ active = 1
  <2>1. active \in Nat /\ Len(frames) \in Nat /\ active =< 1
    BY EventFacts DEF Undisturbed
  <2>2. frames = <<>> BY <1>1, <2>1, HandedFacts
  <2>. QED BY <1>1, <2>1, <2>2
<1>3. Got' = Got /\ \A h : Prior(h)' = Prior(h)
  BY <1>1 DEF Got, Prior
<1>. QED BY <1>1, <1>2, <1>3 DEF Undisturbed, QueueIsLater, CurrentIsLast, HandlersAgree

LEMMA EventInvariantHolds == PartsSpec => []EventInvariant
<1>1. PartsInit => EventInvariant
  BY EventsStart DEF PartsInit
<1>2. EventInvariant /\ [PartsNext]_allVars => EventInvariant'
  <2>. SUFFICES ASSUME EventInvariant, [PartsNext]_allVars PROVE EventInvariant'
    OBVIOUS
  <2>1. CASE Events!Next
    <3>1. EventTypes' BY <2>1, EventTypesStep DEF EventInvariant
    <3>2. ASSUME ~disturbed' PROVE Undisturbed'
      <4>1. ~Events!HandlerRaises BY <3>2 DEF Events!HandlerRaises
      <4>2. Events!run \/ (~disturbed /\ Undisturbed)
        BY <2>1, <3>2, <4>1 DEF EventInvariant, EventTypes, Events!Next, Events!load_event,
          Events!register_tick_handler, Events!Pop, Events!CallHandler, Events!HandlerReturns,
          Events!Dispatched, Events!RunReturns
      <4>. QED
        BY <2>1, <3>2, <4>1, <4>2, LoadStep, RegisterHandlerStep, RunBegins, PopStep, CallHandlerStep,
          HandlerReturnsStep, DispatchedStep, RunReturnsStep DEF EventInvariant, Events!Next
    <3>. QED BY <3>1, <3>2 DEF EventInvariant
  <2>2. CASE UNCHANGED eventVars
    <3>1. EventTypes' BY <2>2 DEF eventVars, EventInvariant, EventTypes, Events!TypeOK
    <3>2. Got' = Got /\ \A h : Prior(h)' = Prior(h) BY <2>2 DEF eventVars, Got, Prior
    <3>3. Undisturbed => Undisturbed'
      BY <2>2, <3>2 DEF eventVars, Undisturbed, QueueIsLater, CurrentIsLast, HandlersAgree
    <3>. QED BY <2>2, <3>1, <3>3 DEF eventVars, EventInvariant
  <2>. QED BY <2>1, <2>2 DEF PartsNext, Frozen, allVars
<1>. QED BY <1>1, <1>2, PTL DEF PartsSpec

\* A sequence that ends as another does is a suffix of it.
LEMMA SuffixByElements ==
  ASSUME NEW S, NEW p \in Seq(S), NEW q \in Seq(S), Len(p) =< Len(q),
         \A i \in 1 .. Len(p) : p[i] = q[i + (Len(q) - Len(p))]
  PROVE  Events!IsSuffix(p, q)
<1>. DEFINE n == Len(p)
            m == Len(q)
            rp == [i \in 1 .. n |-> p[(n - i) + 1]]
            rq == [i \in 1 .. m |-> q[(m - i) + 1]]
<1>1. n \in Nat /\ m \in Nat /\ n =< m
  OBVIOUS
<1>2. \A i \in 1 .. n : p[i] = q[i + (m - n)]
  OBVIOUS
<1>3. \A i \in 1 .. n : p[i] \in S
  OBVIOUS
<1>4. \A i \in 1 .. m : q[i] \in S
  OBVIOUS
<1>5. Events!Reverse(p) = rp /\ Events!Reverse(q) = rq
  BY DEF Events!Reverse
<1>. HIDE DEF n, m
<1>6. rp \in Seq(S) /\ Len(rp) = n /\ \A i \in 1 .. n : rp[i] = p[(n - i) + 1]
  BY <1>1, <1>3
<1>7. rq \in Seq(S) /\ Len(rq) = m /\ \A i \in 1 .. m : rq[i] = q[(m - i) + 1]
  BY <1>1, <1>4
<1>. HIDE DEF rp, rq
<1>8. \A i \in 1 .. n : rp[i] = rq[i]
  <2>. TAKE i \in 1 .. n
  <2>1. (n - i) + 1 \in 1 .. n /\ i \in 1 .. m /\ ((n - i) + 1) + (m - n) = (m - i) + 1
    BY <1>1
  <2>2. rp[i] = p[(n - i) + 1] /\ rq[i] = q[(m - i) + 1]
    BY <1>6, <1>7, <2>1
  <2>3. p[(n - i) + 1] = q[((n - i) + 1) + (m - n)]
    BY <1>2, <2>1
  <2>. QED BY <2>1, <2>2, <2>3
<1>9. \A i \in 1 .. n : i \in 1 .. m /\ rp[i] \in S /\ rq[i] \in S
  BY <1>1, <1>6, <1>7, ElementOfSeq
<1>10. /\ SubSeq(rp, 1, n) \in Seq(S) /\ Len(SubSeq(rp, 1, n)) = n
       /\ \A i \in 1 .. n : SubSeq(rp, 1, n)[i] = rp[i]
  BY <1>1, <1>9, SubSeqProperties
<1>11. /\ SubSeq(rq, 1, n) \in Seq(S) /\ Len(SubSeq(rq, 1, n)) = n
       /\ \A i \in 1 .. n : SubSeq(rq, 1, n)[i] = rq[i]
  BY <1>1, <1>9, SubSeqProperties
<1>12. SubSeq(rp, 1, n) = SubSeq(rq, 1, n)
  BY <1>8, <1>10, <1>11, SeqEqual
<1>. QED BY <1>1, <1>5, <1>6, <1>7, <1>12 DEF Events!IsSuffix, Events!IsPrefix

\* A run that nothing disturbs hands out its events in their order, the same to
\* every handler since it was registered: for any events, handlers and bounds.
THEOREM EventsAlwaysInOrder == PartsSpec => []EventsInOrder
<1>1. EventInvariant => EventsInOrder
  <2>. SUFFICES ASSUME EventInvariant PROVE Events!TypeOK /\ Events!EventsInOrder
    BY DEF EventsInOrder
  <2>1. EventTypes BY DEF EventInvariant
  <2>2. ASSUME ~disturbed, frames = <<>>, NEW h \in 1 .. handlers, NEW g \in 1 .. handlers, h < g
        PROVE  Events!IsSuffix(handed[g], handed[h])
    <3>1. Got = {} BY <2>2 DEF Got
    <3>2. Prior(h) = Len(handed[h]) /\ Prior(g) = Len(handed[g]) BY <3>1 DEF Prior
    <3>3. h \in 1 .. MaxHandlers /\ g \in 1 .. MaxHandlers
      BY <2>1, EventFacts, EventBounds
    <3>4. handed[h] \in Seq(Happenings) /\ handed[g] \in Seq(Happenings)
      BY <2>1, <3>3 DEF EventTypes
    <3>5. /\ Len(handed[g]) =< Len(handed[h])
          /\ \A i \in 1 .. Len(handed[g]) :
               handed[g][i] = handed[h][i + (Len(handed[h]) - Len(handed[g]))]
      <4>1. HandlersAgree
        BY <2>2 DEF EventInvariant, Undisturbed
      <4>2. /\ Prior(g) =< Prior(h)
            /\ \A i \in 1 .. Prior(g) : handed[g][i] = handed[h][i + (Prior(h) - Prior(g))]
        BY <2>2, <4>1 DEF HandlersAgree
      <4>. QED BY <3>2, <4>2
    <3>. QED BY <3>4, <3>5, SuffixByElements
  <2>3. ~disturbed => \A h \in 1 .. MaxHandlers : Events!InOrder(handed[h])
    BY DEF EventInvariant, Undisturbed
  <2>. QED BY <2>1, <2>2, <2>3 DEF Events!EventsInOrder, EventTypes
<1>. QED BY <1>1, EventInvariantHolds, PTL

-----------------------------------------------------------------------------
(***************************************************************************)
(* The render loop.  As long as no callback steps frames, one is drawn at  *)
(* a time, on the buffer that is not shown: what is drawn of it is of the  *)
(* last frame begun, and no other pixel is newer.                          *)
(***************************************************************************)
Drawings == [target : Render!Sides, frame : 0 .. MaxDrawn, pixel : 1 .. Pixels + 1]

FrameTypes ==
  /\ running \in BOOLEAN /\ looping \in BOOLEAN /\ rendered \in 0 .. MaxFrames
  /\ buffer \in [Render!Sides -> [1 .. Pixels -> 0 .. MaxDrawn]] /\ front \in Render!Sides
  /\ drawing \in Seq(Drawings) /\ Len(drawing) =< MaxSteps /\ drawn \in 0 .. MaxDrawn
  /\ drawing # <<>> => looping /\ rendered < MaxFrames

Whole(side) == \A p, q \in 1 .. Pixels : buffer[side][p] = buffer[side][q]

Behind(d) ==
  /\ d.target = 3 - front /\ d.frame = drawn
  /\ \A p \in 1 .. d.pixel - 1 : buffer[3 - front][p] = drawn

Alone ==
  /\ Whole(front)
  /\ \A side \in Render!Sides, p \in 1 .. Pixels : buffer[side][p] =< drawn
  /\ Len(drawing) =< 1
  /\ drawing # <<>> => Behind(drawing[1])

FrameInvariant == FrameTypes /\ (~nested => Alone)

LEMMA FramesStart == Render!Init => FrameInvariant
<1>. SUFFICES ASSUME Render!Init PROVE FrameInvariant
  OBVIOUS
<1>1. Pixels \in Nat \ {0} /\ MaxFrames \in Nat /\ MaxDrawn \in Nat /\ MaxSteps \in Nat
  BY ServicesAssumption DEF Render!RenderAssumption
<1>2. /\ buffer = [s \in Render!Sides |-> [p \in 1 .. Pixels |-> 0]]
      /\ running = FALSE /\ looping = FALSE /\ rendered = 0 /\ front = 1 /\ front \in Render!Sides
      /\ drawing = <<>> /\ drawn = 0
  BY DEF Render!Init, Render!Sides
<1>3. FrameTypes
  <2>1. drawing \in Seq(Drawings) /\ Len(drawing) = 0
    BY <1>2
  <2>2. 0 \in 0 .. MaxDrawn /\ 0 \in 0 .. MaxFrames /\ 0 =< MaxSteps
    BY <1>1
  <2>3. buffer \in [Render!Sides -> [1 .. Pixels -> 0 .. MaxDrawn]]
    BY <1>2, <2>2
  <2>. QED BY <1>2, <2>1, <2>2, <2>3 DEF FrameTypes
<1>4. Alone
  BY <1>1, <1>2 DEF Alone, Whole
<1>. QED BY <1>3, <1>4 DEF FrameInvariant

\* The innermost callback, and what is left when it is over.
LEMMA Innermost ==
  ASSUME FrameTypes, drawing # <<>>
  PROVE  /\ Len(drawing) \in Nat /\ Len(drawing) > 0
         /\ Render!Last(drawing) = drawing[Len(drawing)] /\ drawing[Len(drawing)] \in Drawings
         /\ Render!Front(drawing) \in Seq(Drawings)
         /\ Len(Render!Front(drawing)) = Len(drawing) - 1
         /\ Len(drawing) = 1 => Render!Front(drawing) = <<>>
<1>1. drawing \in Seq(Drawings)
  BY DEF FrameTypes
<1>2. Len(drawing) \in Nat /\ Len(drawing) > 0 /\ drawing[Len(drawing)] \in Drawings
  BY <1>1
<1>3. /\ Render!Last(drawing) = drawing[Len(drawing)]
      /\ Render!Front(drawing) = SubSeq(drawing, 1, Len(drawing) - 1)
  BY DEF Render!Last, Render!Front
<1>4. /\ SubSeq(drawing, 1, Len(drawing) - 1) \in Seq(Drawings)
      /\ Len(SubSeq(drawing, 1, Len(drawing) - 1)) = Len(drawing) - 1
  <2>1. \A i \in 1 .. Len(drawing) - 1 : drawing[i] \in Drawings
    BY <1>1, <1>2
  <2>. DEFINE n == Len(drawing) - 1
  <2>2. 1 \in Int /\ n \in Int /\ n >= 0 /\ (1 =< n => n - 1 + 1 = n) /\ (~(1 =< n) => n = 0)
    <3>. DEFINE m == Len(drawing)
    <3>1. m \in Nat /\ m > 0
      BY <1>2
    <3>. HIDE DEF m
    <3>2. /\ m - 1 \in Int /\ m - 1 >= 0 /\ (1 =< m - 1 => (m - 1) - 1 + 1 = m - 1)
          /\ ~(1 =< m - 1) => m - 1 = 0
      BY <3>1
    <3>. QED BY <3>2 DEF m
  <2>. HIDE DEF n
  <2>3. /\ SubSeq(drawing, 1, n) \in Seq(Drawings)
        /\ Len(SubSeq(drawing, 1, n)) = IF 1 =< n THEN n - 1 + 1 ELSE 0
    BY <2>1, <2>2, SubSeqProperties DEF n
  <2>. QED BY <2>2, <2>3 DEF n
<1>5. Len(drawing) = 1 => SubSeq(drawing, 1, Len(drawing) - 1) = <<>>
  BY <1>4
<1>. QED BY <1>2, <1>3, <1>4, <1>5

LEMMA BeginStep ==
  ASSUME FrameInvariant, Render!tick \/ Render!NestedTick
  PROVE  FrameInvariant'
<1>1. FrameTypes
  BY DEF FrameInvariant
<1>. DEFINE d == [target |-> 3 - front, frame |-> drawn + 1, pixel |-> 1]
<1>2. /\ drawn < MaxDrawn /\ drawn' = drawn + 1 /\ drawing' = Append(drawing, d)
      /\ UNCHANGED <<running, looping, rendered, buffer, front>>
      /\ Len(drawing) < MaxSteps \/ drawing = <<>>
  BY DEF Render!tick, Render!NestedTick, Render!BeginFrame, Render!back
<1>3. MaxSteps \in Nat \ {0} /\ MaxDrawn \in Nat /\ Pixels \in Nat
  BY ServicesAssumption DEF Render!RenderAssumption
<1>4. d \in Drawings
  BY <1>1, <1>2, <1>3 DEF FrameTypes, Drawings, Render!Sides
<1>5. /\ drawing' \in Seq(Drawings) /\ Len(drawing') = Len(drawing) + 1 /\ Len(drawing) \in Nat
      /\ drawing = <<>> => Len(drawing) = 0 /\ drawing'[1] = d
  BY <1>1, <1>2, <1>4 DEF FrameTypes
<1>6. looping /\ rendered < MaxFrames
  BY <1>1 DEF Render!tick, Render!NestedTick, FrameTypes
<1>7. FrameTypes'
  <2>1. drawn' \in 0 .. MaxDrawn /\ Len(drawing') =< MaxSteps
    <3>1. drawn \in 0 .. MaxDrawn
      BY <1>1 DEF FrameTypes
    <3>. QED BY <1>2, <1>3, <1>5, <3>1
  <2>. QED BY <1>1, <1>2, <1>5, <1>6, <2>1 DEF FrameTypes
<1>8. ASSUME ~nested' PROVE Alone'
  <2>1. drawing = <<>> /\ Alone
    BY <1>8 DEF Render!tick, Render!NestedTick, FrameInvariant
  <2>2. /\ drawing'[1].target = 3 - front' /\ drawing'[1].frame = drawn'
        /\ drawing'[1].pixel = 1
    BY <1>2, <1>5, <2>1
  <2>3. Behind(drawing[1])'
    BY <2>2 DEF Behind
  <2>4. Whole(front)'
    BY <1>2, <2>1 DEF Alone, Whole
  <2>5. \A side \in Render!Sides, p \in 1 .. Pixels : buffer'[side][p] =< drawn'
    <3>1. \A side \in Render!Sides, p \in 1 .. Pixels : buffer[side][p] \in Int
      BY <1>1, <1>3 DEF FrameTypes
    <3>. QED BY <1>1, <1>2, <1>3, <2>1, <3>1 DEF Alone, FrameTypes
  <2>. QED BY <1>5, <2>1, <2>3, <2>4, <2>5 DEF Alone
<1>. QED BY <1>7, <1>8 DEF FrameInvariant

LEMMA DrawStep ==
  ASSUME FrameInvariant, Render!Draw
  PROVE  FrameInvariant'
<1>1. FrameTypes /\ drawing # <<>>
  BY DEF FrameInvariant, Render!Draw
<1>. DEFINE n == Len(drawing)
            d == drawing[n]
            e == [d EXCEPT !.pixel = d.pixel + 1]
<1>2. n \in Nat /\ n > 0 /\ Render!Last(drawing) = d /\ d \in Drawings
  BY <1>1, Innermost
<1>3. /\ d.pixel =< Pixels /\ drawing' = [drawing EXCEPT ![n] = e]
      /\ buffer' = [buffer EXCEPT ![d.target] = [buffer[d.target] EXCEPT ![d.pixel] = d.frame]]
      /\ UNCHANGED <<running, looping, rendered, front, drawn, nested>>
  BY <1>1, <1>2 DEF Render!Draw, FrameTypes
<1>4. Pixels \in Nat \ {0} /\ MaxDrawn \in Nat
  BY ServicesAssumption DEF Render!RenderAssumption
<1>5. /\ d.target \in Render!Sides /\ d.frame \in 0 .. MaxDrawn /\ d.pixel \in 1 .. Pixels
      /\ e.target = d.target /\ e.frame = d.frame /\ e.pixel = d.pixel + 1 /\ e \in Drawings
  BY <1>2, <1>3, <1>4 DEF Drawings
<1>6. /\ drawing \in Seq(Drawings) /\ n \in DOMAIN drawing
  BY <1>1, <1>2 DEF FrameTypes
<1>. HIDE DEF d, e
<1>7. /\ drawing' \in Seq(Drawings) /\ Len(drawing') = n /\ drawing'[n] = e
  BY <1>3, <1>5, <1>6
<1>8. buffer' \in [Render!Sides -> [1 .. Pixels -> 0 .. MaxDrawn]]
  BY <1>1, <1>3, <1>5 DEF FrameTypes
<1>9. FrameTypes'
  BY <1>1, <1>3, <1>7, <1>8 DEF FrameTypes
<1>10. ASSUME ~nested' PROVE Alone'
  <2>1. Alone
    BY <1>3, <1>10 DEF FrameInvariant
  <2>2. n = 1
    <3>1. n =< 1 /\ n \in Nat /\ n > 0
      BY <1>2, <2>1 DEF Alone
    <3>. HIDE DEF n
    <3>. QED BY <3>1
  <2>3. Behind(d)
    BY <1>1, <2>1, <2>2 DEF Alone, d
  <2>4. d.target = 3 - front /\ d.frame = drawn /\ front \in Render!Sides /\ 3 - front # front
    BY <1>1, <2>3 DEF Behind, FrameTypes, Render!Sides
  <2>5. /\ buffer'[front] = buffer[front]
        /\ \A p \in 1 .. Pixels :
             buffer'[3 - front][p] = IF p = d.pixel THEN drawn ELSE buffer[3 - front][p]
    BY <1>1, <1>3, <1>5, <2>4 DEF FrameTypes
  <2>6. Whole(front)'
    BY <1>3, <2>1, <2>5 DEF Alone, Whole
  <2>7. ASSUME NEW side \in Render!Sides, NEW p \in 1 .. Pixels PROVE buffer'[side][p] =< drawn'
    <3>1. side = front \/ side = 3 - front
      BY <2>4 DEF Render!Sides
    <3>2. buffer[side][p] =< drawn /\ drawn \in Int /\ drawn' = drawn
      BY <1>1, <1>3, <2>1 DEF Alone, FrameTypes
    <3>. QED BY <2>5, <3>1, <3>2
  <2>8. ASSUME NEW p \in 1 .. d.pixel PROVE buffer'[3 - front][p] = drawn
    <3>1. p = d.pixel \/ p \in 1 .. d.pixel - 1
      BY <1>5
    <3>2. p \in 1 .. Pixels
      BY <1>4, <1>5
    <3>. QED BY <2>3, <2>5, <3>1, <3>2 DEF Behind
  <2>9. Behind(drawing[1])'
    <3>1. drawing'[1] = e /\ e.pixel - 1 = d.pixel
      BY <1>5, <1>7, <2>2
    <3>. QED BY <1>3, <1>5, <2>4, <2>8, <3>1 DEF Behind
  <2>. QED BY <1>7, <2>2, <2>6, <2>7, <2>9 DEF Alone
<1>. QED BY <1>9, <1>10 DEF FrameInvariant

LEMMA EndFrameStep ==
  ASSUME FrameInvariant, Render!EndFrame \/ Render!FrameRaises
  PROVE  /\ FrameInvariant'
         /\ ~nested' /\ Render!EndFrame =>
              \A p \in 1 .. Pixels : buffer[front][p] =< buffer'[front'][p]
<1>1. FrameTypes /\ drawing # <<>>
  BY DEF FrameInvariant, Render!EndFrame, Render!FrameRaises
<1>. DEFINE n == Len(drawing)
            d == drawing[n]
<1>2. /\ n \in Nat /\ n > 0 /\ Render!Last(drawing) = d /\ d \in Drawings
      /\ drawing' \in Seq(Drawings) /\ Len(drawing') = n - 1
      /\ n = 1 => drawing' = <<>>
  BY <1>1, Innermost DEF Render!EndFrame, Render!FrameRaises
<1>3. UNCHANGED <<buffer, drawn, nested>>
  BY DEF Render!EndFrame, Render!FrameRaises
<1>4. front' \in Render!Sides
  <2>1. front' = front \/ front' = 3 - front
    BY DEF Render!EndFrame, Render!FrameRaises, Render!swap, Render!back
  <2>2. front \in {1, 2}
    BY <1>1 DEF FrameTypes, Render!Sides
  <2>. QED BY <2>1, <2>2 DEF Render!Sides
<1>5. /\ running' \in BOOLEAN /\ looping' \in BOOLEAN /\ rendered' \in 0 .. MaxFrames
      /\ n # 1 => UNCHANGED <<looping, rendered>>
  <2>1. rendered \in 0 .. MaxFrames /\ rendered < MaxFrames /\ MaxFrames \in Nat
    BY <1>1, ServicesAssumption DEF FrameTypes, Render!RenderAssumption
  <2>2. rendered' = rendered \/ rendered' = rendered + 1
    BY DEF Render!EndFrame, Render!FrameRaises
  <2>3. rendered' \in 0 .. MaxFrames
    BY <2>1, <2>2
  <2>4. /\ running' \in BOOLEAN /\ looping' \in BOOLEAN
        /\ n # 1 => UNCHANGED <<looping, rendered>>
    BY <1>1 DEF Render!EndFrame, Render!FrameRaises, FrameTypes
  <2>. QED BY <2>3, <2>4
<1>6. FrameTypes'
  <2>1. drawing' # <<>> => looping' /\ rendered' < MaxFrames
    <3>1. looping /\ rendered < MaxFrames
      BY <1>1 DEF FrameTypes
    <3>. QED BY <1>2, <1>5, <3>1
  <2>2. Len(drawing') =< MaxSteps
    <3>1. MaxSteps \in Nat /\ n =< MaxSteps
      BY <1>1, ServicesAssumption DEF FrameTypes, Render!RenderAssumption
    <3>. QED BY <1>2, <3>1
  <2>. QED BY <1>1, <1>2, <1>3, <1>4, <1>5, <2>1, <2>2 DEF FrameTypes
<1>7. ASSUME ~nested'
      PROVE  Alone' /\ (Render!EndFrame =>
               \A p \in 1 .. Pixels : buffer[front][p] =< buffer'[front'][p])
  <2>1. Alone
    BY <1>3, <1>7 DEF FrameInvariant
  <2>2. n = 1 /\ Behind(d)
    <3>1. n =< 1 /\ Behind(drawing[1])
      BY <1>1, <2>1 DEF Alone
    <3>2. n = 1
      BY <1>2, <3>1
    <3>. QED BY <3>1, <3>2
  <2>3. /\ Pixels \in Nat /\ front \in Render!Sides /\ d.pixel \in 1 .. Pixels + 1
    BY <1>1, <1>2, ServicesAssumption DEF FrameTypes, Render!RenderAssumption, Drawings
  <2>4. ASSUME Render!EndFrame, NEW p \in 1 .. Pixels PROVE buffer[3 - front][p] = drawn
    <3>1. d.pixel > Pixels
      BY <1>2, <2>4 DEF Render!EndFrame
    <3>2. p \in 1 .. d.pixel - 1
      BY <2>3, <3>1
    <3>. QED BY <2>2, <3>2 DEF Behind
  <2>5. Render!EndFrame => front' = 3 - front
    BY DEF Render!EndFrame, Render!swap, Render!back
  <2>6. Render!FrameRaises => front' = front
    BY DEF Render!FrameRaises
  <2>7. Whole(front)'
    BY <1>3, <2>1, <2>4, <2>5, <2>6 DEF Whole, Alone
  <2>8. Alone'
    BY <1>2, <1>3, <2>1, <2>2, <2>7 DEF Alone
  <2>9. ASSUME Render!EndFrame, NEW p \in 1 .. Pixels PROVE buffer[front][p] =< buffer'[front'][p]
    BY <1>3, <2>1, <2>3, <2>4, <2>5, <2>9 DEF Alone
  <2>. QED BY <2>8, <2>9
<1>. QED BY <1>6, <1>7 DEF FrameInvariant

LEMMA FrameSame ==
  ASSUME FrameInvariant, UNCHANGED <<rendered, buffer, front, drawing, drawn, nested>>,
         running' \in BOOLEAN, looping' \in BOOLEAN, drawing # <<>> => looping' = looping
  PROVE  FrameInvariant'
<1>1. FrameTypes'
  BY DEF FrameInvariant, FrameTypes
<1>2. Alone => Alone'
  BY DEF Alone, Whole, Behind
<1>. QED BY <1>1, <1>2 DEF FrameInvariant

LEMMA FrameStep ==
  ASSUME FrameInvariant, Render!Next
  PROVE  FrameInvariant'
<1>1. CASE Render!run
  <2>1. FrameTypes'
    <3>1. MaxFrames \in Nat
      BY ServicesAssumption DEF Render!RenderAssumption
    <3>. QED BY <1>1, <3>1 DEF Render!run, FrameInvariant, FrameTypes
  <2>2. Alone => Alone'
    BY <1>1 DEF Render!run, Alone, Whole, Behind
  <2>. QED BY <1>1, <2>1, <2>2 DEF Render!run, FrameInvariant
<1>2. CASE Render!stop \/ Render!EndRun
  BY <1>2, FrameSame DEF Render!stop, Render!EndRun, FrameInvariant, FrameTypes
<1>3. CASE Render!tick \/ Render!NestedTick
  BY <1>3, BeginStep
<1>4. CASE Render!Draw
  BY <1>4, DrawStep
<1>5. CASE Render!EndFrame \/ Render!FrameRaises
  BY <1>5, EndFrameStep
<1>. QED BY <1>1, <1>2, <1>3, <1>4, <1>5 DEF Render!Next

LEMMA FrameInvariantHolds == PartsSpec => []FrameInvariant
<1>1. PartsInit => FrameInvariant
  BY FramesStart DEF PartsInit
<1>2. FrameInvariant /\ [PartsNext]_allVars => FrameInvariant'
  <2>. SUFFICES ASSUME FrameInvariant, [PartsNext]_allVars PROVE FrameInvariant'
    OBVIOUS
  <2>1. CASE Render!Next
    BY <2>1, FrameStep
  <2>2. CASE UNCHANGED renderVars
    BY <2>2, FrameSame DEF renderVars, FrameInvariant, FrameTypes
  <2>. QED BY <2>1, <2>2 DEF PartsNext, Frozen, allVars
<1>. QED BY <1>1, <1>2, PTL DEF PartsSpec

\* What RenderLoop shows is a whole frame, never an older one than before, and
\* a loop that has ended is not running, as long as no callback steps frames.
THEOREM FramesAreAlwaysWhole == PartsSpec => FramesAreWhole
<1>1. FrameInvariant => (part = "frames" => Render!TypeOK /\ Render!ShownIsWhole)
  BY DEF FrameInvariant, FrameTypes, Alone, Whole, Render!TypeOK, Render!ShownIsWhole
<1>2. FrameInvariant /\ [PartsNext]_allVars =>
        [/\ ~nested' => buffer[front][1] =< buffer'[front'][1]
         /\ looping /\ ~looping' => ~running']_renderVars
  <2>. SUFFICES ASSUME FrameInvariant, Render!Next
                PROVE  /\ ~nested' => buffer[front][1] =< buffer'[front'][1]
                       /\ looping /\ ~looping' => ~running'
    BY DEF PartsNext, Frozen, allVars
  <2>1. looping /\ ~looping' => ~running'
    BY DEF Render!Next, Render!run, Render!stop, Render!tick, Render!NestedTick, Render!Draw,
      Render!EndFrame, Render!FrameRaises, Render!EndRun
  <2>2. /\ FrameTypes /\ 1 \in 1 .. Pixels /\ Pixels \in Nat /\ MaxDrawn \in Nat
        /\ buffer[front][1] \in Int
    <3>1. Pixels \in Nat \ {0} /\ MaxDrawn \in Nat
      BY ServicesAssumption DEF Render!RenderAssumption
    <3>2. FrameTypes /\ buffer[front][1] \in 0 .. MaxDrawn
      BY <3>1 DEF FrameInvariant, FrameTypes
    <3>. QED BY <3>1, <3>2
  <2>3. CASE Render!EndFrame
    BY <2>1, <2>2, <2>3, EndFrameStep
  <2>4. CASE Render!Draw
    <3>1. ASSUME ~nested' PROVE buffer'[front'][1] = buffer[front][1]
      <4>1. Alone /\ drawing # <<>> /\ front' = front
        BY <2>4, <3>1 DEF FrameInvariant, Render!Draw
      <4>2. Render!Last(drawing) = drawing[1] /\ drawing[1] \in Drawings
        BY <2>2, <4>1, Innermost DEF Alone
      <4>3. drawing[1].target = 3 - front /\ 3 - front # front /\ front \in Render!Sides
        BY <2>2, <4>1 DEF Alone, Behind, FrameTypes, Render!Sides
      <4>4. buffer'[front] = buffer[front]
        BY <2>2, <2>4, <4>2, <4>3 DEF Render!Draw, FrameTypes
      <4>. QED BY <4>1, <4>4
    <3>. QED BY <2>1, <2>2, <3>1
  <2>5. CASE ~Render!EndFrame /\ ~Render!Draw
    <3>1. UNCHANGED <<buffer, front>>
      BY <2>5 DEF Render!Next, Render!run, Render!stop, Render!tick, Render!NestedTick,
        Render!BeginFrame, Render!FrameRaises, Render!EndRun
    <3>. QED BY <2>1, <2>2, <3>1
  <2>. QED BY <2>3, <2>4, <2>5
<1>3. PartsSpec => [](part = "frames" => Render!TypeOK /\ Render!ShownIsWhole)
  BY <1>1, FrameInvariantHolds, PTL
<1>4. PartsSpec => Render!FramesAdvance
  BY <1>2, FrameInvariantHolds, PTL DEF PartsSpec, Render!FramesAdvance, Render!vars, renderVars
<1>. QED BY <1>3, <1>4 DEF FramesAreWhole
=============================================================================

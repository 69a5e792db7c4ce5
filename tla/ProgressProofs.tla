--------------------------- MODULE ProgressProofs ---------------------------
(***************************************************************************)
(* Proofs about the auto-save engine and the script workers, as MCProgress *)
(* puts them together: for any charts, tasks, versions and scripts.        *)
(***************************************************************************)
EXTENDS MCProgress, FiniteSets, FiniteSetTheorems, SequenceTheorems, TLAPS

-----------------------------------------------------------------------------
(***************************************************************************)
(* The auto-save engine: its types, that nothing comes between a read and  *)
(* its write, that acknowledged deltas are kept, and that it implements    *)
(* ChartRegister.                                                          *)
(***************************************************************************)
\* A task between its read and its answer holds the lock of its chart.
Locking == \A t \in Tasks : pc[t] \in {"getting", "saving"} => HoldsLock(t)

\* A chart's version counts the deltas merged into it.
VersionCounts ==
  \A c \in Charts : store[c] # NoChart => store[c].version = Len(store[c].data) + 1

IInv ==
  /\ TypeOK
  /\ Locking
  /\ VersionCounts
  /\ ReadIsCurrent
  /\ AcknowledgedIsKept
  /\ RefusedHasNoEffect

\* A chart that exists is not the answer for one that does not.
LEMMA NoChartIsNoState == NoChart \notin ChartStates
  BY AutoSaveAssumption DEF ChartStates

\* The invariant holds before any call.
LEMMA InitInv == Init => IInv
<1>. SUFFICES ASSUME Init PROVE IInv
  OBVIOUS
<1>1. TypeOK
  <2>1. [version |-> 1, data |-> <<>>] \in ChartStates
    BY DEF ChartStates
  <2>. QED
    BY <2>1, AutoSaveAssumption DEF Init, TypeOK
<1>2. VersionCounts
  BY DEF Init, VersionCounts
<1>3. Locking /\ ReadIsCurrent /\ AcknowledgedIsKept
  BY DEF Init, Locking, ReadIsCurrent, AcknowledgedIsKept
<1>4. RefusedHasNoEffect
  BY DEF Init, RefusedHasNoEffect
<1>. QED
  BY <1>1, <1>2, <1>3, <1>4 DEF IInv

\* Leaving with an exception keeps the invariant: the store is untouched.
LEMMA LeaveInv ==
  ASSUME IInv, NEW t \in Tasks, pc[t] \in Waiting,
         NEW outcome \in {"conflict", "not_found", "failed"},
         Leave(t, outcome), NEW r \in ChartStates \cup {NoChart},
         read' = read \/ read' = [read EXCEPT ![t] = r]
  PROVE  IInv'
<1>. USE DEF IInv, Leave
<1>1. TypeOK'
  BY DEF TypeOK, Released, Waiting, Done
<1>2. \A u \in Tasks \ {t} : HoldsLock(u) => HoldsLock(u)'
  BY AutoSaveAssumption DEF HoldsLock, Released, TypeOK
<1>3. \A u \in Tasks \ {t} : pc'[u] = pc[u] /\ read'[u] = read[u]
  BY DEF TypeOK
<1>4. pc'[t] = outcome
  BY DEF TypeOK
<1>5. Locking'
  BY <1>2, <1>3, <1>4 DEF Locking
<1>6. ReadIsCurrent'
  BY <1>2, <1>3, <1>4 DEF ReadIsCurrent
<1>7. AcknowledgedIsKept' /\ VersionCounts'
  BY <1>3, <1>4 DEF AcknowledgedIsKept, VersionCounts
<1>8. RefusedHasNoEffect'
  BY <1>3, <1>4 DEF RefusedHasNoEffect, Waiting
<1>. QED
  BY <1>1, <1>5, <1>6, <1>7, <1>8

\* What a save does to its chart: the delta is appended and nothing else moves.
LEMMA SaveEffect ==
  ASSUME IInv, NEW t \in Tasks, Save(t)
  PROVE  LET c == delta[t].chart
         IN  /\ store[c] \in ChartStates
             /\ store[c].version = delta[t].expected
             /\ store' = [store EXCEPT ![c] =
                  [version |-> store[c].version + 1, data |-> Append(store[c].data, t)]]
<1>1. pc[t] = "saving" /\ read[t] = store[delta[t].chart] /\ read[t] # NoChart
      /\ read[t].version = delta[t].expected
  BY DEF IInv, Save, ReadIsCurrent
<1>2. store[delta[t].chart] \in ChartStates
  BY <1>1 DEF IInv, TypeOK
<1>. QED
  BY <1>1, <1>2 DEF Save, Updated

\* Every step keeps the invariant.
LEMMA NextInv == IInv /\ [Next]_vars => IInv'
<1>. SUFFICES ASSUME IInv, [Next]_vars PROVE IInv'
  OBVIOUS
<1>1. CASE UNCHANGED vars
  BY <1>1 DEF vars, IInv, TypeOK, Locking, VersionCounts, ReadIsCurrent,
     AcknowledgedIsKept, RefusedHasNoEffect, HoldsLock
<1>2. ASSUME NEW t \in Tasks, Call(t) PROVE IInv'
  <2>1. TypeOK'
    BY <1>2 DEF IInv, Call, TypeOK, Waiting
  <2>2. \A u \in Tasks \ {t} : pc'[u] = pc[u]
    BY <1>2 DEF IInv, Call, TypeOK
  <2>3. pc[t] = "idle" /\ pc'[t] = "queued"
    BY <1>2 DEF IInv, Call, TypeOK
  <2>. QED
    BY <1>2, <2>1, <2>2, <2>3 DEF IInv, Call, Locking, VersionCounts, ReadIsCurrent,
       AcknowledgedIsKept, RefusedHasNoEffect, HoldsLock
<1>3. ASSUME NEW t \in Tasks, Lock(t) PROVE IInv'
  <2>1. TypeOK'
    BY <1>3 DEF IInv, Lock, TypeOK, Waiting
  <2>2. \A u \in Tasks \ {t} : pc'[u] = pc[u]
    BY <1>3 DEF IInv, Lock, TypeOK
  <2>3. pc[t] = "queued" /\ pc'[t] = "getting"
    BY <1>3 DEF IInv, Lock, TypeOK
  <2>4. HoldsLock(t)' /\ \A u \in Tasks \ {t} : HoldsLock(u) => HoldsLock(u)'
    BY <1>3, AutoSaveAssumption DEF IInv, Lock, TypeOK, HoldsLock, LockFree
  <2>. QED
    BY <1>3, <2>1, <2>2, <2>3, <2>4 DEF IInv, Lock, Locking, VersionCounts, ReadIsCurrent,
       AcknowledgedIsKept, RefusedHasNoEffect
<1>4. ASSUME NEW t \in Tasks, Got(t) PROVE IInv'
  <2>. DEFINE chart == store[delta[t].chart]
  <2>1. pc[t] = "getting" /\ HoldsLock(t) /\ read' = [read EXCEPT ![t] = chart]
    BY <1>4 DEF IInv, Got, Locking
  <2>2. chart \in ChartStates \cup {NoChart}
    BY DEF IInv, TypeOK
  <2>3. CASE Leave(t, "not_found") \/ Leave(t, "conflict")
    BY <2>1, <2>2, <2>3, LeaveInv DEF Waiting
  <2>4. CASE /\ chart # NoChart
             /\ chart.version = delta[t].expected
             /\ pc' = [pc EXCEPT ![t] = "saving"]
             /\ UNCHANGED <<store, lock, delta>>
    <3>1. TypeOK'
      BY <2>1, <2>2, <2>4 DEF IInv, TypeOK, Waiting
    <3>2. \A u \in Tasks \ {t} : pc'[u] = pc[u] /\ read'[u] = read[u]
      BY <2>1, <2>4 DEF IInv, TypeOK
    <3>3. pc'[t] = "saving" /\ read'[t] = chart
      BY <2>1, <2>4 DEF IInv, TypeOK
    <3>. QED
      BY <2>1, <2>4, <3>1, <3>2, <3>3 DEF IInv, Locking, VersionCounts, ReadIsCurrent,
         AcknowledgedIsKept, RefusedHasNoEffect, HoldsLock
  <2>. QED
    BY <1>4, <2>3, <2>4 DEF Got, Matches
<1>5. ASSUME NEW t \in Tasks, Save(t) PROVE IInv'
  <2>. DEFINE c == delta[t].chart
              old == store[c].data
              new == Append(old, t)
  <2>1. /\ store[c] \in ChartStates
        /\ store[c].version = delta[t].expected
        /\ store' = [store EXCEPT ![c] = [version |-> store[c].version + 1, data |-> new]]
    BY <1>5, SaveEffect
  <2>2. c \in Charts /\ old \in Seq(Tasks) /\ store[c].version \in Nat
    BY <2>1 DEF IInv, TypeOK, ChartStates
  <2>3. /\ new \in Seq(Tasks) /\ Len(new) = Len(old) + 1 /\ new[Len(old) + 1] = t
        /\ \A i \in DOMAIN old : i \in DOMAIN new /\ new[i] = old[i]
        /\ \A i \in DOMAIN new : i \in DOMAIN old \/ i = Len(old) + 1
    <3>1. Len(old) \in Nat /\ DOMAIN old = 1 .. Len(old)
      BY <2>2, LenProperties
    <3>2. /\ new \in Seq(Tasks) /\ Len(new) = Len(old) + 1 /\ new[Len(old) + 1] = t
          /\ \A i \in 1 .. Len(old) : new[i] = old[i]
      BY <2>2, AppendProperties
    <3>3. DOMAIN new = 1 .. Len(new)
      BY <3>2, LenProperties
    <3>. QED
      BY <3>1, <3>2, <3>3
  <2>4. store'[c] = [version |-> store[c].version + 1, data |-> new]
        /\ \A d \in Charts \ {c} : store'[d] = store[d]
    BY <2>1, <2>2 DEF IInv, TypeOK
  <2>5. PICK outcome \in {"saved", "failed"} : pc' = [pc EXCEPT ![t] = outcome]
    BY <1>5 DEF Save
  <2>6. pc'[t] = outcome /\ \A u \in Tasks \ {t} : pc'[u] = pc[u]
    BY <2>5 DEF IInv, TypeOK
  <2>7. delta' = delta /\ read' = read /\ lock' = Released(t) /\ pc[t] = "saving"
        /\ HoldsLock(t)
    BY <1>5 DEF Save, IInv, Locking
  <2>8. \A u \in Tasks \ {t} : HoldsLock(u) => HoldsLock(u)' /\ delta[u].chart # c
    BY <2>2, <2>7, AutoSaveAssumption DEF IInv, TypeOK, HoldsLock, Released
  <2>9. TypeOK'
    <3>1. store'[c] \in ChartStates
      BY <2>2, <2>3, <2>4, SMTT(30) DEF ChartStates
    <3>2. store' \in [Charts -> ChartStates \cup {NoChart}]
      BY <2>1, <2>4, <3>1 DEF IInv, TypeOK
    <3>. QED
      BY <2>5, <2>7, <3>2 DEF IInv, TypeOK, Released, Waiting, Done
  <2>10. Locking'
    BY <2>5, <2>6, <2>8 DEF IInv, Locking
  <2>11. VersionCounts'
    <3>0. store[c] # NoChart
      BY <2>1, NoChartIsNoState, Zenon
    <3>1. store[c].version = Len(old) + 1
      BY <2>2, <3>0 DEF IInv, VersionCounts
    <3>2. store'[c].version = Len(store'[c].data) + 1
      BY <2>3, <2>4, <3>1
    <3>. QED
      BY <2>4, <3>2 DEF IInv, VersionCounts
  <2>12. ReadIsCurrent'
    BY <2>4, <2>5, <2>6, <2>7, <2>8 DEF IInv, ReadIsCurrent, TypeOK
  <2>13. AcknowledgedIsKept'
    <3>. SUFFICES ASSUME NEW u \in Tasks, pc'[u] = "saved"
                  PROVE  /\ store'[delta[u].chart] # NoChart
                         /\ delta[u].expected \in DOMAIN store'[delta[u].chart].data
                         /\ store'[delta[u].chart].data[delta[u].expected] = u
      BY <2>7 DEF AcknowledgedIsKept
    <3>1. store'[c] # NoChart
      <4>1. store'[c] \in ChartStates
        BY <2>2, <2>3, <2>4, SMTT(30) DEF ChartStates
      <4>. QED
        BY <4>1, NoChartIsNoState, Zenon
    <3>2. CASE u = t
      <4>1. delta[t].expected = Len(old) + 1
        BY <2>1, <2>2, NoChartIsNoState DEF IInv, VersionCounts
      <4>2. Len(old) + 1 \in DOMAIN new /\ new[Len(old) + 1] = t
        <5>1. Len(new) \in Nat /\ DOMAIN new = 1 .. Len(new) /\ Len(old) \in Nat
          BY <2>2, <2>3, LenProperties
        <5>. QED
          BY <2>3, <5>1
      <4>. HIDE DEF new
      <4>3. store'[c].data = new
        BY <2>4
      <4>4. delta[u].chart = c /\ delta[u].expected = Len(old) + 1
        BY <3>2, <4>1
      <4>. QED
        BY <3>1, <3>2, <4>2, <4>3, <4>4
    <3>3. CASE u # t /\ delta[u].chart = c
      <4>1. delta[u].expected \in DOMAIN old /\ old[delta[u].expected] = u
        BY <2>6, <3>3 DEF IInv, AcknowledgedIsKept
      <4>2. delta[u].expected \in DOMAIN new /\ new[delta[u].expected] = u
        BY <2>3, <4>1
      <4>. HIDE DEF new
      <4>3. store'[c].data = new
        BY <2>4
      <4>. QED
        BY <3>1, <3>3, <4>2, <4>3
    <3>4. CASE u # t /\ delta[u].chart # c
      BY <2>4, <2>6, <3>4 DEF IInv, AcknowledgedIsKept, TypeOK
    <3>. QED
      BY <3>2, <3>3, <3>4
  <2>14. RefusedHasNoEffect'
    <3>1. \A u \in Tasks : pc'[u] \notin {"saved", "failed"} => u # t /\ pc'[u] = pc[u]
      BY <2>5, <2>6
    <3>2. \A u \in Tasks : pc'[u] \notin {"saved", "failed"} =>
            \A i \in DOMAIN new : new[i] # u
      <4>1. store[c] # NoChart
        BY <2>1, NoChartIsNoState
      <4>. QED
        BY <2>2, <2>3, <3>1, <4>1, SMTT(30) DEF IInv, RefusedHasNoEffect
    <3>3. store'[c].data = new
      BY <2>4, SMTT(30)
    <3>4. ASSUME NEW u \in Tasks, NEW d \in Charts, store'[d] # NoChart,
                 pc'[u] \notin {"saved", "failed"}
          PROVE  \A i \in DOMAIN store'[d].data : store'[d].data[i] # u
      <4>1. CASE d = c
        BY <3>2, <3>3, <3>4, <4>1
      <4>2. CASE d # c
        BY <2>4, <3>1, <3>4, <4>2 DEF IInv, RefusedHasNoEffect
      <4>. QED
        BY <4>1, <4>2
    <3>. QED
      BY <3>4 DEF RefusedHasNoEffect
  <2>. QED
    BY <2>9, <2>10, <2>11, <2>12, <2>13, <2>14 DEF IInv
<1>6. ASSUME NEW t \in Tasks, Fail(t) PROVE IInv'
  BY <1>6, LeaveInv DEF Fail
<1>. QED
  BY <1>1, <1>2, <1>3, <1>4, <1>5, <1>6 DEF Next

\* In every reachable state the variables have their types.
THEOREM TypeCorrect == Spec => []TypeOK
<1>1. IInv => TypeOK
  BY DEF IInv
<1>. QED
  BY <1>1, InitInv, NextInv, PTL DEF Spec

\* No save ever runs against a chart that changed since it was read.
THEOREM NoStaleWrite == Spec => []ReadIsCurrent
<1>1. IInv => ReadIsCurrent
  BY DEF IInv
<1>. QED
  BY <1>1, InitInv, NextInv, PTL DEF Spec

\* However many tasks save, an acknowledged delta stays where it was put.
THEOREM NoLostUpdate == Spec => []AcknowledgedIsKept
<1>1. IInv => AcknowledgedIsKept
  BY DEF IInv
<1>. QED
  BY <1>1, InitInv, NextInv, PTL DEF Spec

\* A refused delta never reaches the store.
THEOREM NoTraceOfRefused == Spec => []RefusedHasNoEffect
<1>1. IInv => RefusedHasNoEffect
  BY DEF IInv
<1>. QED
  BY <1>1, InitInv, NextInv, PTL DEF Spec

\* Each step of the engine is one Accept of the register or changes nothing.
LEMMA StepRefines ==
  IInv /\ [Next]_vars =>
    [Register!Next]_<<[c \in Charts |-> IF store[c] = NoChart THEN 0 ELSE store[c].version],
                      [c \in Charts |-> IF store[c] = NoChart THEN <<>> ELSE store[c].data]>>
<1>. DEFINE V(s) == [c \in Charts |-> IF s[c] = NoChart THEN 0 ELSE s[c].version]
            A(s) == [c \in Charts |-> IF s[c] = NoChart THEN <<>> ELSE s[c].data]
<1>. SUFFICES ASSUME IInv, [Next]_vars
              PROVE  Register!Next \/ (V(store') = V(store) /\ A(store') = A(store))
  OBVIOUS
<1>1. CASE store' = store
  BY <1>1
<1>2. ASSUME NEW t \in Tasks, Save(t) PROVE Register!Next
  <2>. DEFINE c == delta[t].chart
  <2>1. /\ store[c] \in ChartStates
        /\ store[c].version = delta[t].expected
        /\ store' = [store EXCEPT ![c] =
             [version |-> store[c].version + 1, data |-> Append(store[c].data, t)]]
    BY <1>2, SaveEffect
  <2>2. c \in Charts /\ delta[t].expected \in Versions /\ store[c].version \in Nat
        /\ store[c].data \in Seq(Tasks)
    BY <2>1 DEF IInv, TypeOK, ChartStates
  <2>3. store[c] # NoChart /\ store'[c] # NoChart /\ store[c].version > 0
    <3>1. store'[c] \in ChartStates
      BY <2>1, <2>2, AppendProperties DEF IInv, TypeOK, ChartStates
    <3>2. store[c] # NoChart /\ store'[c] # NoChart
      BY <2>1, <3>1, NoChartIsNoState, Zenon
    <3>3. store[c].version \in Nat \ {0}
      BY <2>1, <2>2, AutoSaveAssumption
    <3>. QED
      BY <3>2, <3>3
  <2>4. V(store)[c] = store[c].version /\ A(store)[c] = store[c].data
    BY <2>2, <2>3
  <2>5. V(store') = [V(store) EXCEPT ![c] = @ + 1]
    BY <2>1, <2>2, <2>3 DEF IInv, TypeOK
  <2>6. A(store') = [A(store) EXCEPT ![c] = Append(@, t)]
    BY <2>1, <2>2, <2>3 DEF IInv, TypeOK
  <2>7. Register!Accept(c, t, delta[t].expected)
    BY <2>1, <2>2, <2>3, <2>4, <2>5, <2>6 DEF Register!Accept
  <2>. QED
    BY <2>2, <2>7 DEF Register!Next, Register!Accept
<1>3. store' = store \/ \E t \in Tasks : Save(t)
  BY DEF Next, vars, Call, Lock, Got, Fail, Leave
<1>. QED
  BY <1>1, <1>2, <1>3

\* The engine implements the versioned register its docstring describes.
THEOREM RefinesRegister == Spec => ImplementsRegister
<1>1. Init => Register!Init
  <2>. SUFFICES ASSUME Init PROVE Register!Init
    OBVIOUS
  <2>1. \A c \in Charts : store[c] # NoChart => store[c].version = 1 /\ store[c].data = <<>>
    BY DEF Init
  <2>. QED
    BY <2>1 DEF Register!Init
<1>2. IInv /\ [Next]_vars =>
        [Register!Next]_<<[c \in Charts |-> IF store[c] = NoChart THEN 0 ELSE store[c].version],
                          [c \in Charts |-> IF store[c] = NoChart THEN <<>> ELSE store[c].data]>>
  BY StepRefines
<1>. QED
  BY <1>1, <1>2, InitInv, NextInv, PTL DEF Spec, ImplementsRegister, Register!Spec

-----------------------------------------------------------------------------
(***************************************************************************)
(* The script workers.                                                     *)
(***************************************************************************)
BusyCalls == {d \in Scripts : Sandbox!Busy(d)}

\* How far the worker of a call is, and what it has sent.
WorkerTells(c) ==
  /\ worker[c] \in {"none", "running"} => exitcode[c] = "none" /\ pipe[c] = "empty"
  /\ worker[c] = "sending" => exitcode[c] = "none" /\ pipe[c] \in {"header", "partial"}
  /\ worker[c] = "sent" => exitcode[c] = "none" /\ pipe[c] \in Sandbox!Outcomes

\* What a call knows of its worker, by where it is.
CallKnows(c) ==
  /\ scriptPc[c] \in {"idle", "verify", "pipe", "fork"} => worker[c] = "none"
  /\ scriptPc[c] \in {"close", "join", "terminate", "kill", "read"} => worker[c] # "none"
  /\ scriptPc[c] \notin {"cleanup", "done"} => answer[c] = "none"
  /\ scriptPc[c] \in {"close", "join", "read"} /\ worker[c] = "exited" =>
       /\ exitcode[c] \in {"zero", "killed", "error"}
       /\ exitcode[c] = "zero" => pipe[c] \in Sandbox!Outcomes
  /\ scriptPc[c] = "read" => worker[c] = "exited"
  /\ scriptPc[c] \in {"cleanup", "done"} => ~Sandbox!Alive(c)
  /\ scriptPc[c] = "done" => ~childEnd[c]
  /\ answer[c] \in Sandbox!Outcomes \cup {"MEMORY_EXCEEDED", "CRASHED", "OS_ERROR"} => worker[c] = "exited"

RunsInvariant ==
  /\ Sandbox!TypeOK /\ active = Cardinality(BusyCalls)
  /\ \A c \in Scripts : WorkerTells(c) /\ CallKnows(c)
  /\ Sandbox!AnswersAreTrue

\* The instance counts as this module does.
LEMMA SandboxCounts ==
  /\ IsFiniteSet(Scripts)
  /\ \A S : Sandbox!Cardinality(S) = Cardinality(S)
<1>1. Sandbox!IsFiniteSet(Scripts) <=> IsFiniteSet(Scripts)
  BY DEF Sandbox!IsFiniteSet, IsFiniteSet
<1>2. ASSUME NEW S PROVE Sandbox!Cardinality(S) = Cardinality(S)
  BY DEF Sandbox!Cardinality, Cardinality
<1>. QED BY <1>1, <1>2, ProgressAssumption DEF Sandbox!WorkerAssumption

LEMMA ScriptsStart == Sandbox!Init => RunsInvariant
<1>. SUFFICES ASSUME Sandbox!Init PROVE RunsInvariant
  OBVIOUS
<1>. USE DEF Sandbox!Init, Sandbox!Steps, Sandbox!Outcomes, Sandbox!Answers
<1>1. BusyCalls = {} /\ active = Cardinality(BusyCalls)
  BY FS_EmptySet DEF BusyCalls, Sandbox!Busy
<1>2. Cardinality(Scripts) \in Nat
  BY SandboxCounts, FS_CardinalityType
<1>3. Sandbox!TypeOK BY <1>2, SandboxCounts DEF Sandbox!TypeOK
<1>4. \A c \in Scripts : WorkerTells(c) /\ CallKnows(c)
  BY DEF WorkerTells, CallKnows, Sandbox!Alive
<1>5. Sandbox!AnswersAreTrue BY DEF Sandbox!AnswersAreTrue
<1>. QED BY <1>1, <1>3, <1>4, <1>5 DEF RunsInvariant

\* The counter follows the calls: it is moved by the first and the last step of
\* a call only.
LEMMA CounterFollows ==
  ASSUME RunsInvariant, NEW c \in Scripts,
         \A d \in Scripts \ {c} : scriptPc'[d] = scriptPc[d],
         \/ Sandbox!Busy(c) /\ Sandbox!Busy(c)' /\ active' = active
         \/ ~Sandbox!Busy(c) /\ Sandbox!Busy(c)' /\ active' = active + 1
         \/ Sandbox!Busy(c) /\ ~Sandbox!Busy(c)' /\ active' = active - 1
  PROVE  active' = Cardinality(BusyCalls') /\ active' \in 0 .. Cardinality(Scripts)
<1>. USE DEF RunsInvariant, BusyCalls, Sandbox!Busy
<1>1. IsFiniteSet(BusyCalls) /\ IsFiniteSet(BusyCalls') /\ IsFiniteSet(Scripts)
  BY SandboxCounts, FS_Subset
<1>2. /\ Cardinality(BusyCalls) \in Nat /\ Cardinality(BusyCalls') \in Nat
      /\ Cardinality(Scripts) \in Nat /\ Cardinality(BusyCalls') =< Cardinality(Scripts)
  BY <1>1, FS_CardinalityType, FS_Subset
<1>3. CASE Sandbox!Busy(c) /\ Sandbox!Busy(c)' /\ active' = active
  <2>1. BusyCalls' = BusyCalls BY <1>3
  <2>. QED BY <1>2, <1>3, <2>1
<1>4. CASE ~Sandbox!Busy(c) /\ Sandbox!Busy(c)' /\ active' = active + 1
  <2>1. BusyCalls' = BusyCalls \cup {c} /\ c \notin BusyCalls BY <1>4
  <2>2. Cardinality(BusyCalls \cup {c}) = Cardinality(BusyCalls) + 1
    BY <1>1, <2>1, FS_AddElement
  <2>3. Cardinality(BusyCalls') = active + 1
    BY <2>1, <2>2
  <2>. QED BY <1>2, <1>4, <2>3
<1>5. CASE Sandbox!Busy(c) /\ ~Sandbox!Busy(c)' /\ active' = active - 1
  <2>1. BusyCalls' = BusyCalls \ {c} /\ c \in BusyCalls BY <1>5
  <2>2. Cardinality(BusyCalls \ {c}) = Cardinality(BusyCalls) - 1
    BY <1>1, <2>1, FS_RemoveElement
  <2>. QED BY <1>2, <1>5, <2>1, <2>2, SMTT(30)
<1>. QED BY <1>3, <1>4, <1>5

\* A step of a call or of its worker.
LEMMA RunStep ==
  ASSUME RunsInvariant, NEW c \in Scripts, Sandbox!Parent(c) \/ Sandbox!Worker(c)
  PROVE  RunsInvariant'
<1>. USE DEF RunsInvariant, Sandbox!TypeOK, Sandbox!Steps, Sandbox!Outcomes, Sandbox!Answers,
       Sandbox!Goto, Sandbox!workerVars, Sandbox!Alive
<1>1. CASE Sandbox!Begin(c)
  <2>. USE <1>1 DEF Sandbox!Begin
  <2>1. active' = Cardinality(BusyCalls') /\ active' \in 0 .. Cardinality(Scripts)
    <3>1. \A d \in Scripts \ {c} : scriptPc'[d] = scriptPc[d]
      OBVIOUS
    <3>. QED BY <3>1, CounterFollows DEF Sandbox!Busy
  <2>2. Sandbox!TypeOK' BY <2>1, SandboxCounts
  <2>3. WorkerTells(c)' /\ CallKnows(c)'
    BY DEF WorkerTells, CallKnows, Sandbox!AnswersAreTrue
  <2>4. \A d \in Scripts \ {c} : WorkerTells(d)' /\ CallKnows(d)'
    BY DEF WorkerTells, CallKnows
  <2>5. Sandbox!AnswersAreTrue'
    BY DEF Sandbox!AnswersAreTrue, WorkerTells, CallKnows
  <2>. QED BY <2>1, <2>2, <2>3, <2>4, <2>5
<1>2. CASE Sandbox!Verify(c)
  <2>. USE <1>2 DEF Sandbox!Verify, Sandbox!Answer
  <2>1. active' = Cardinality(BusyCalls') /\ active' \in 0 .. Cardinality(Scripts)
    <3>1. \A d \in Scripts \ {c} : scriptPc'[d] = scriptPc[d]
      OBVIOUS
    <3>. QED BY <3>1, CounterFollows DEF Sandbox!Busy
  <2>2. Sandbox!TypeOK' BY <2>1, SandboxCounts
  <2>3. WorkerTells(c)' /\ CallKnows(c)'
    BY DEF WorkerTells, CallKnows, Sandbox!AnswersAreTrue
  <2>4. \A d \in Scripts \ {c} : WorkerTells(d)' /\ CallKnows(d)'
    BY DEF WorkerTells, CallKnows
  <2>5. Sandbox!AnswersAreTrue'
    BY DEF Sandbox!AnswersAreTrue, WorkerTells, CallKnows
  <2>. QED BY <2>1, <2>2, <2>3, <2>4, <2>5
<1>3. CASE Sandbox!OpenPipe(c)
  <2>. USE <1>3 DEF Sandbox!OpenPipe, Sandbox!Answer
  <2>1. active' = Cardinality(BusyCalls') /\ active' \in 0 .. Cardinality(Scripts)
    <3>1. \A d \in Scripts \ {c} : scriptPc'[d] = scriptPc[d]
      OBVIOUS
    <3>2. Sandbox!Busy(c) /\ Sandbox!Busy(c)' /\ active' = active
      BY DEF Sandbox!Busy
    <3>. QED BY <3>1, <3>2, CounterFollows
  <2>2. Sandbox!TypeOK'
    <3>1. scriptPc' \in [Scripts -> Sandbox!Steps] /\ answer' \in [Scripts -> Sandbox!Answers]
      OBVIOUS
    <3>2. childEnd' \in [Scripts -> BOOLEAN]
      OBVIOUS
    <3>. QED BY <2>1, <3>1, <3>2, SandboxCounts
  <2>3. WorkerTells(c)' /\ CallKnows(c)'
    BY DEF WorkerTells, CallKnows, Sandbox!AnswersAreTrue
  <2>4. \A d \in Scripts \ {c} : WorkerTells(d)' /\ CallKnows(d)'
    BY DEF WorkerTells, CallKnows
  <2>5. Sandbox!AnswersAreTrue'
    BY DEF Sandbox!AnswersAreTrue, WorkerTells, CallKnows
  <2>. QED BY <2>1, <2>2, <2>3, <2>4, <2>5
<1>4. CASE Sandbox!Fork(c)
  <2>. USE <1>4 DEF Sandbox!Fork, Sandbox!Answer
  <2>1. active' = Cardinality(BusyCalls') /\ active' \in 0 .. Cardinality(Scripts)
    <3>1. \A d \in Scripts \ {c} : scriptPc'[d] = scriptPc[d]
      OBVIOUS
    <3>2. Sandbox!Busy(c) /\ Sandbox!Busy(c)' /\ active' = active
      BY DEF Sandbox!Busy
    <3>. QED BY <3>1, <3>2, CounterFollows
  <2>2. Sandbox!TypeOK' BY <2>1, SandboxCounts
  <2>3. WorkerTells(c)' /\ CallKnows(c)'
    BY DEF WorkerTells, CallKnows, Sandbox!AnswersAreTrue
  <2>4. \A d \in Scripts \ {c} : WorkerTells(d)' /\ CallKnows(d)'
    BY DEF WorkerTells, CallKnows
  <2>5. Sandbox!AnswersAreTrue'
    BY DEF Sandbox!AnswersAreTrue, WorkerTells, CallKnows
  <2>. QED BY <2>1, <2>2, <2>3, <2>4, <2>5
<1>5. CASE Sandbox!CloseEnd(c)
  <2>. USE <1>5 DEF Sandbox!CloseEnd
  <2>1. active' = Cardinality(BusyCalls') /\ active' \in 0 .. Cardinality(Scripts)
    <3>1. \A d \in Scripts \ {c} : scriptPc'[d] = scriptPc[d]
      OBVIOUS
    <3>. QED BY <3>1, CounterFollows DEF Sandbox!Busy
  <2>2. Sandbox!TypeOK' BY <2>1, SandboxCounts
  <2>3. WorkerTells(c)' /\ CallKnows(c)'
    BY DEF WorkerTells, CallKnows, Sandbox!AnswersAreTrue
  <2>4. \A d \in Scripts \ {c} : WorkerTells(d)' /\ CallKnows(d)'
    BY DEF WorkerTells, CallKnows
  <2>5. Sandbox!AnswersAreTrue'
    BY DEF Sandbox!AnswersAreTrue, WorkerTells, CallKnows
  <2>. QED BY <2>1, <2>2, <2>3, <2>4, <2>5
<1>6. CASE Sandbox!Join(c)
  <2>. USE <1>6 DEF Sandbox!Join
  <2>1. active' = Cardinality(BusyCalls') /\ active' \in 0 .. Cardinality(Scripts)
    <3>1. \A d \in Scripts \ {c} : scriptPc'[d] = scriptPc[d]
      OBVIOUS
    <3>. QED BY <3>1, CounterFollows DEF Sandbox!Busy
  <2>2. Sandbox!TypeOK' BY <2>1, SandboxCounts
  <2>3. WorkerTells(c)' /\ CallKnows(c)'
    BY DEF WorkerTells, CallKnows, Sandbox!AnswersAreTrue
  <2>4. \A d \in Scripts \ {c} : WorkerTells(d)' /\ CallKnows(d)'
    BY DEF WorkerTells, CallKnows
  <2>5. Sandbox!AnswersAreTrue'
    BY DEF Sandbox!AnswersAreTrue, WorkerTells, CallKnows
  <2>. QED BY <2>1, <2>2, <2>3, <2>4, <2>5
<1>7. CASE Sandbox!Terminate(c)
  <2>. USE <1>7 DEF Sandbox!Terminate, Sandbox!Answer, Sandbox!Exits
  <2>1. active' = Cardinality(BusyCalls') /\ active' \in 0 .. Cardinality(Scripts)
    <3>1. \A d \in Scripts \ {c} : scriptPc'[d] = scriptPc[d]
      OBVIOUS
    <3>. QED BY <3>1, CounterFollows DEF Sandbox!Busy
  <2>2. Sandbox!TypeOK' BY <2>1, SandboxCounts
  <2>3. WorkerTells(c)' /\ CallKnows(c)'
    BY DEF WorkerTells, CallKnows, Sandbox!AnswersAreTrue
  <2>4. \A d \in Scripts \ {c} : WorkerTells(d)' /\ CallKnows(d)'
    BY DEF WorkerTells, CallKnows
  <2>5. Sandbox!AnswersAreTrue'
    BY DEF Sandbox!AnswersAreTrue, WorkerTells, CallKnows
  <2>. QED BY <2>1, <2>2, <2>3, <2>4, <2>5
<1>8. CASE Sandbox!Kill(c)
  <2>. USE <1>8 DEF Sandbox!Kill, Sandbox!Answer, Sandbox!Exits
  <2>1. active' = Cardinality(BusyCalls') /\ active' \in 0 .. Cardinality(Scripts)
    <3>1. \A d \in Scripts \ {c} : scriptPc'[d] = scriptPc[d]
      OBVIOUS
    <3>. QED BY <3>1, CounterFollows DEF Sandbox!Busy
  <2>2. Sandbox!TypeOK' BY <2>1, SandboxCounts
  <2>3. WorkerTells(c)' /\ CallKnows(c)'
    BY DEF WorkerTells, CallKnows, Sandbox!AnswersAreTrue
  <2>4. \A d \in Scripts \ {c} : WorkerTells(d)' /\ CallKnows(d)'
    BY DEF WorkerTells, CallKnows
  <2>5. Sandbox!AnswersAreTrue'
    BY DEF Sandbox!AnswersAreTrue, WorkerTells, CallKnows
  <2>. QED BY <2>1, <2>2, <2>3, <2>4, <2>5
<1>9. CASE Sandbox!Read(c)
  <2>. USE <1>9 DEF Sandbox!Read, Sandbox!Answer, Sandbox!Verdict
  <2>1. active' = Cardinality(BusyCalls') /\ active' \in 0 .. Cardinality(Scripts)
    <3>1. \A d \in Scripts \ {c} : scriptPc'[d] = scriptPc[d]
      OBVIOUS
    <3>. QED BY <3>1, CounterFollows DEF Sandbox!Busy
  <2>2. Sandbox!TypeOK' BY <2>1, SandboxCounts
  <2>3. WorkerTells(c)' /\ CallKnows(c)'
    BY DEF WorkerTells, CallKnows, Sandbox!AnswersAreTrue
  <2>4. \A d \in Scripts \ {c} : WorkerTells(d)' /\ CallKnows(d)'
    BY DEF WorkerTells, CallKnows
  <2>5. Sandbox!AnswersAreTrue'
    BY DEF Sandbox!AnswersAreTrue, WorkerTells, CallKnows
  <2>. QED BY <2>1, <2>2, <2>3, <2>4, <2>5
<1>10. CASE Sandbox!Cleanup(c)
  <2>. USE <1>10 DEF Sandbox!Cleanup, Sandbox!Exits
  <2>1. active' = Cardinality(BusyCalls') /\ active' \in 0 .. Cardinality(Scripts)
    <3>1. \A d \in Scripts \ {c} : scriptPc'[d] = scriptPc[d]
      OBVIOUS
    <3>. QED BY <3>1, CounterFollows DEF Sandbox!Busy
  <2>2. Sandbox!TypeOK' BY <2>1, SandboxCounts
  <2>3. WorkerTells(c)' /\ CallKnows(c)'
    BY DEF WorkerTells, CallKnows, Sandbox!AnswersAreTrue
  <2>4. \A d \in Scripts \ {c} : WorkerTells(d)' /\ CallKnows(d)'
    BY DEF WorkerTells, CallKnows
  <2>5. Sandbox!AnswersAreTrue'
    BY DEF Sandbox!AnswersAreTrue, WorkerTells, CallKnows
  <2>. QED BY <2>1, <2>2, <2>3, <2>4, <2>5
<1>11. CASE Sandbox!ScriptEnds(c)
  <2>. USE <1>11 DEF Sandbox!ScriptEnds
  <2>1. active' = Cardinality(BusyCalls') /\ active' \in 0 .. Cardinality(Scripts)
    <3>1. BusyCalls' = BusyCalls /\ active' = active
      BY DEF BusyCalls, Sandbox!Busy
    <3>. QED BY <3>1, SandboxCounts
  <2>2. Sandbox!TypeOK' BY <2>1, SandboxCounts
  <2>3. WorkerTells(c)' /\ CallKnows(c)'
    BY DEF WorkerTells, CallKnows, Sandbox!AnswersAreTrue
  <2>4. \A d \in Scripts \ {c} : WorkerTells(d)' /\ CallKnows(d)'
    BY DEF WorkerTells, CallKnows
  <2>5. Sandbox!AnswersAreTrue'
    BY DEF Sandbox!AnswersAreTrue, WorkerTells, CallKnows
  <2>. QED BY <2>1, <2>2, <2>3, <2>4, <2>5
<1>12. CASE Sandbox!WorkerExits(c)
  <2>. USE <1>12 DEF Sandbox!WorkerExits, Sandbox!Exits
  <2>1. active' = Cardinality(BusyCalls') /\ active' \in 0 .. Cardinality(Scripts)
    <3>1. BusyCalls' = BusyCalls /\ active' = active
      BY DEF BusyCalls, Sandbox!Busy
    <3>. QED BY <3>1, SandboxCounts
  <2>2. Sandbox!TypeOK' BY <2>1, SandboxCounts
  <2>3. WorkerTells(c)' /\ CallKnows(c)'
    BY DEF WorkerTells, CallKnows, Sandbox!AnswersAreTrue
  <2>4. \A d \in Scripts \ {c} : WorkerTells(d)' /\ CallKnows(d)'
    BY DEF WorkerTells, CallKnows
  <2>5. Sandbox!AnswersAreTrue'
    BY DEF Sandbox!AnswersAreTrue, WorkerTells, CallKnows
  <2>. QED BY <2>1, <2>2, <2>3, <2>4, <2>5
<1>13. CASE Sandbox!WorkerDies(c)
  <2>. USE <1>13 DEF Sandbox!WorkerDies, Sandbox!Exits
  <2>1. active' = Cardinality(BusyCalls') /\ active' \in 0 .. Cardinality(Scripts)
    <3>1. BusyCalls' = BusyCalls /\ active' = active
      BY DEF BusyCalls, Sandbox!Busy
    <3>. QED BY <3>1, SandboxCounts
  <2>2. Sandbox!TypeOK' BY <2>1, SandboxCounts
  <2>3. WorkerTells(c)' /\ CallKnows(c)'
    BY DEF WorkerTells, CallKnows, Sandbox!AnswersAreTrue
  <2>4. \A d \in Scripts \ {c} : WorkerTells(d)' /\ CallKnows(d)'
    BY DEF WorkerTells, CallKnows
  <2>5. Sandbox!AnswersAreTrue'
    BY DEF Sandbox!AnswersAreTrue, WorkerTells, CallKnows
  <2>. QED BY <2>1, <2>2, <2>3, <2>4, <2>5
<1>. QED BY <1>1, <1>2, <1>3, <1>4, <1>5, <1>6, <1>7, <1>8, <1>9, <1>10, <1>11, <1>12, <1>13 DEF Sandbox!Parent, Sandbox!Worker

LEMMA RunsInvariantHolds == PartsSpec => []RunsInvariant
<1>1. PartsInit => RunsInvariant
  BY ScriptsStart DEF PartsInit
<1>2. RunsInvariant /\ [PartsNext]_allVars => RunsInvariant'
  <2>. SUFFICES ASSUME RunsInvariant, [PartsNext]_allVars PROVE RunsInvariant'
    OBVIOUS
  <2>1. CASE Sandbox!Next
    BY <2>1, RunStep DEF Sandbox!Next
  <2>2. CASE UNCHANGED scriptVars
    BY <2>2 DEF scriptVars, RunsInvariant, Sandbox!TypeOK, BusyCalls, Sandbox!Busy, WorkerTells,
      CallKnows, Sandbox!Alive, Sandbox!AnswersAreTrue
  <2>. QED BY <2>1, <2>2 DEF PartsNext, Frozen, allVars
<1>. QED BY <1>1, <1>2, PTL DEF PartsSpec

\* Whichever step of a call fails, the counter comes back and no worker and no
\* end of the pipe is left; and a call answers only what happened to its worker.
\* For any finite set of calls.
THEOREM RunsAreAlwaysClean == PartsSpec => []RunsAreClean
<1>1. RunsInvariant => RunsAreClean
  BY SandboxCounts DEF RunsInvariant, RunsAreClean, Sandbox!NothingLeft, BusyCalls, CallKnows
<1>. QED BY <1>1, RunsInvariantHolds, PTL

=============================================================================

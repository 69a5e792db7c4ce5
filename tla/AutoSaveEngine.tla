--------------------------- MODULE AutoSaveEngine ---------------------------
(***************************************************************************)
(* AutoSaveEngine.process_delta, src/src/services/autosave_engine.py:      *)
(* optimistic concurrency over a storage with asynchronous calls, under    *)
(* one asyncio.Lock per chart.                                             *)
(*                                                                         *)
(* A task runs process_delta for one delta.  It gives up control where the *)
(* code awaits: for the lock, for storage.get_chart and for                *)
(* storage.save_chart; between two awaits its step is atomic.  The storage *)
(* is external: a call may raise, a save may raise after it took effect,   *)
(* and a task may be cancelled while it waits.                             *)
(*                                                                         *)
(* The content of a chart is the sequence of deltas merged into it, which  *)
(* determines the merged dict and tells lost updates apart.                *)
(***************************************************************************)
EXTENDS Naturals, Sequences

CONSTANTS
  Charts,   \* chart ids
  Tasks,    \* calls of process_delta, one delta each
  Versions, \* versions a delta may expect
  NoChart,  \* what get_chart answers for a chart that does not exist
  Nobody    \* the holder of a free lock

ASSUME AutoSaveAssumption ==
  /\ Versions \subseteq Nat \ {0}
  /\ Nobody \notin Tasks
  /\ NoChart \notin [version : Nat, data : Seq(Tasks)]

VARIABLES
  store, \* the persisted ChartState of each chart, or NoChart
  lock,  \* _locks: the task that holds the lock of each chart
  pc,    \* where each task is
  delta, \* the delta of each task: its chart and expected version
  read   \* the chart each task got from get_chart

vars == <<store, lock, pc, delta, read>>

Waiting == {"queued", "getting", "saving"}
Done == {"saved", "conflict", "not_found", "failed"}

Init ==
  /\ store \in [Charts -> {NoChart, [version |-> 1, data |-> <<>>]}]
  /\ lock = [c \in Charts |-> Nobody]
  /\ pc = [t \in Tasks |-> "idle"]
  /\ delta \in [Tasks -> [chart : Charts, expected : Versions]]
  /\ read = [t \in Tasks |-> NoChart]

HoldsLock(t) == lock[delta[t].chart] = t

\* The task leaves the lock of its chart, if it holds it.
MutKeepsLock(t) == lock
Released(t) == IF HoldsLock(t) THEN [lock EXCEPT ![delta[t].chart] = Nobody] ELSE lock

\* process_delta is called and waits for the lock of the chart.
Call(t) ==
  /\ pc[t] = "idle"
  /\ pc' = [pc EXCEPT ![t] = "queued"]
  /\ UNCHANGED <<store, lock, delta, read>>

MutNoLock(t) == TRUE
LockFree(t) == lock[delta[t].chart] = Nobody

\* It takes the lock; storage.get_chart is called and awaited.
Lock(t) ==
  /\ pc[t] = "queued"
  /\ LockFree(t)
  /\ lock' = [lock EXCEPT ![delta[t].chart] = t]
  /\ pc' = [pc EXCEPT ![t] = "getting"]
  /\ UNCHANGED <<store, delta, read>>

\* Leaving the lock with an exception.
Leave(t, outcome) ==
  /\ pc' = [pc EXCEPT ![t] = outcome]
  /\ lock' = Released(t)
  /\ UNCHANGED <<store, delta>>

MutMatches(chart, expected) == TRUE
Matches(chart, expected) == chart.version = expected

\* get_chart answers: not found, in conflict, or the merged state is handed to
\* storage.save_chart and awaited.
Got(t) ==
  /\ pc[t] = "getting"
  /\ LET chart == store[delta[t].chart]
     IN  /\ read' = [read EXCEPT ![t] = chart]
         /\ \/ chart = NoChart /\ Leave(t, "not_found")
            \/ /\ chart # NoChart
               /\ ~Matches(chart, delta[t].expected)
               /\ Leave(t, "conflict")
            \/ /\ chart # NoChart
               /\ Matches(chart, delta[t].expected)
               /\ pc' = [pc EXCEPT ![t] = "saving"]
               /\ UNCHANGED <<store, lock, delta>>

MutSavesDelta(chart, t) == t
Updated(chart, t) == [version |-> chart.version + 1, data |-> Append(chart.data, t)]

\* save_chart takes effect; the answer returns, or is lost in an exception.
Save(t) ==
  /\ pc[t] = "saving"
  /\ store' = [store EXCEPT ![delta[t].chart] = Updated(read[t], t)]
  /\ \E outcome \in {"saved", "failed"} : pc' = [pc EXCEPT ![t] = outcome]
  /\ lock' = Released(t)
  /\ UNCHANGED <<delta, read>>

\* A storage call raises with no effect, or the task is cancelled at an await.
Fail(t) ==
  /\ pc[t] \in Waiting
  /\ Leave(t, "failed")
  /\ UNCHANGED read

Next == \E t \in Tasks : Call(t) \/ Lock(t) \/ Got(t) \/ Save(t) \/ Fail(t)

Spec == Init /\ [][Next]_vars

\* The event loop runs every ready task, the storage answers every call, and
\* asyncio.Lock serves its waiters in order, so none is passed over for ever.
Fairness ==
  \A t \in Tasks : SF_vars(Lock(t)) /\ WF_vars(Got(t)) /\ WF_vars(Save(t))

FairSpec == Spec /\ Fairness

-----------------------------------------------------------------------------
(***************************************************************************)
(* Properties.                                                             *)
(***************************************************************************)
ChartStates == [version : Nat, data : Seq(Tasks)]

\* Every variable has the shape of the field it stands for.
TypeOK ==
  /\ store \in [Charts -> ChartStates \cup {NoChart}]
  /\ lock \in [Charts -> Tasks \cup {Nobody}]
  /\ pc \in [Tasks -> {"idle"} \cup Waiting \cup Done]
  /\ delta \in [Tasks -> [chart : Charts, expected : Versions]]
  /\ read \in [Tasks -> ChartStates \cup {NoChart}]

\* What a task is about to save was read from the chart as it still is: no
\* other task's save can come between its read and its write.
ReadIsCurrent ==
  \A t \in Tasks : pc[t] = "saving" =>
    /\ HoldsLock(t)
    /\ store[delta[t].chart] = read[t]
    /\ read[t] # NoChart
    /\ read[t].version = delta[t].expected

\* No acknowledged delta is ever lost: one saved against version v stays the
\* v-th delta of its chart, so no two tasks are told they made the same version.
AcknowledgedIsKept ==
  \A t \in Tasks : pc[t] = "saved" =>
    LET chart == store[delta[t].chart]
        v == delta[t].expected
    IN  chart # NoChart /\ v \in DOMAIN chart.data /\ chart.data[v] = t

\* A delta that was refused, or is still on its way, has left no trace.
RefusedHasNoEffect ==
  \A t \in Tasks, c \in Charts :
    store[c] # NoChart /\ pc[t] \notin {"saved", "failed"}
      => \A i \in DOMAIN store[c].data : store[c].data[i] # t

\* Every call of process_delta comes to an end, however long the queue.
EveryCallEnds == \A t \in Tasks : pc[t] = "queued" ~> pc[t] \in Done

Register == INSTANCE ChartRegister WITH
  Deltas <- Tasks,
  version <- [c \in Charts |-> IF store[c] = NoChart THEN 0 ELSE store[c].version],
  applied <- [c \in Charts |-> IF store[c] = NoChart THEN <<>> ELSE store[c].data]

\* The engine implements the one-step register: each save is one Accept of the
\* delta against the version it expects, everything else changes nothing.
ImplementsRegister == Register!Spec
=============================================================================

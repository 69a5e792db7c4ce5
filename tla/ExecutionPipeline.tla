------------------------- MODULE ExecutionPipeline -------------------------
(***************************************************************************)
(* The execution pipeline and its scope, src/src/engine/pipeline.py and    *)
(* scope.py.                                                               *)
(*                                                                         *)
(* process_tick is split where the script runs: Begin (snapshot, bar       *)
(* transition), one step for each set or declare of the script, then       *)
(* Finish (end of tick, end of bar) or Fail (the script raises and the     *)
(* snapshot is restored).  process_bar and process_historical are          *)
(* sequences of process_tick.                                              *)
(*                                                                         *)
(* Values are immutable, so a deep copy is the value, and an initializer   *)
(* returns the declared initial value.                                     *)
(***************************************************************************)
EXTENDS Naturals

CONSTANTS
  Names,    \* variable names
  Values,   \* their values
  Modifier, \* the modifier each is declared with
  Initial,  \* the value each is declared with
  Bars      \* bar indices, 0 for none yet

ASSUME PipelineAssumption ==
  /\ Modifier \in [Names -> {"standard", "var", "varip"}]
  /\ Initial \in [Names -> Values]
  /\ Bars \subseteq Nat \ {0}

VARIABLES
  declared,  \* the keys of Scope._variables
  value,     \* Variable.value, the initial value where not declared
  barStart,  \* Variable.bar_start_value
  committed, \* Variable.committed_value
  barIndex,  \* ExecutionPipeline._current_bar_index
  closed,    \* ExecutionPipeline._current_bar_closed
  saved,     \* all of the above when the tick began
  running,   \* whether a tick is being processed
  confirmed  \* whether that tick is confirmed

state == <<declared, value, barStart, committed, barIndex, closed>>
vars == <<state, saved, running, confirmed>>

Snapshot ==
  [declared |-> declared, value |-> value, barStart |-> barStart,
   committed |-> committed, barIndex |-> barIndex, closed |-> closed]

Init ==
  /\ declared = {}
  /\ value = Initial /\ barStart = Initial /\ committed = Initial
  /\ barIndex = 0
  /\ closed = FALSE
  /\ saved = Snapshot
  /\ running = FALSE
  /\ confirmed = FALSE

\* on_bar_close commits what the variables hold, if the old bar is still open.
CommittedBefore(bar) ==
  IF barIndex # 0 /\ barIndex # bar /\ ~closed THEN value ELSE committed

\* on_bar_start: a standard variable is reset, a var variable starts from the
\* committed value, a varip variable goes on.
Opened(commit) ==
  [n \in Names |->
     CASE Modifier[n] = "standard" -> Initial[n]
       [] Modifier[n] = "var"      -> commit[n]
       [] OTHER                    -> value[n]]

Begin(bar) ==
  /\ ~running
  /\ running' = TRUE
  /\ \E c \in BOOLEAN : confirmed' = c
  /\ saved' = Snapshot
  /\ committed' = CommittedBefore(bar)
  /\ IF barIndex # bar \/ closed
     THEN /\ value' = Opened(committed')
          /\ barStart' = value'
          /\ barIndex' = bar
          /\ closed' = FALSE
     ELSE UNCHANGED <<value, barStart, barIndex, closed>>
  /\ UNCHANGED declared

\* By the script, or by its host between ticks.
Declare(n) ==
  /\ n \notin declared
  /\ declared' = declared \cup {n}
  /\ value' = [value EXCEPT ![n] = Initial[n]]
  /\ barStart' = [barStart EXCEPT ![n] = Initial[n]]
  /\ committed' = [committed EXCEPT ![n] = Initial[n]]
  /\ UNCHANGED <<barIndex, closed, saved, running, confirmed>>

Set(n, v) ==
  /\ running
  /\ n \in declared
  /\ value' = [value EXCEPT ![n] = v]
  /\ UNCHANGED <<declared, barStart, committed, barIndex, closed, saved, running, confirmed>>

MutRolledBack == value

\* on_tick_end of an unconfirmed tick: all but varip go back to the bar's start.
RolledBack == [n \in Names |-> IF Modifier[n] = "varip" THEN value[n] ELSE barStart[n]]

Finish ==
  /\ running
  /\ running' = FALSE
  /\ IF confirmed
     THEN barStart' = value /\ committed' = value /\ closed' = TRUE /\ UNCHANGED value
     ELSE value' = RolledBack /\ UNCHANGED <<barStart, committed, closed>>
  /\ UNCHANGED <<declared, barIndex, saved, confirmed>>

MutFail ==
  /\ running
  /\ running' = FALSE
  /\ declared' = saved.declared
  /\ value' = saved.value
  /\ barStart' = saved.barStart
  /\ committed' = saved.committed
  /\ UNCHANGED <<barIndex, closed, saved, confirmed>>

\* The script raises: restore_snapshot, and the pipeline's own fields.
Fail ==
  /\ running
  /\ running' = FALSE
  /\ declared' = saved.declared
  /\ value' = saved.value
  /\ barStart' = saved.barStart
  /\ committed' = saved.committed
  /\ barIndex' = saved.barIndex
  /\ closed' = saved.closed
  /\ UNCHANGED <<saved, confirmed>>

Next ==
  \/ \E bar \in Bars : Begin(bar)
  \/ \E n \in Names : Declare(n) \/ \E v \in Values : Set(n, v)
  \/ Finish
  \/ Fail

Spec == Init /\ [][Next]_vars

-----------------------------------------------------------------------------
(***************************************************************************)
(* Properties.                                                             *)
(***************************************************************************)
States ==
  [declared : SUBSET Names, value : [Names -> Values], barStart : [Names -> Values],
   committed : [Names -> Values], barIndex : Bars \cup {0}, closed : BOOLEAN]

\* Every variable has the shape of the field it stands for.
TypeOK ==
  /\ Snapshot \in States
  /\ saved \in States
  /\ running \in BOOLEAN /\ confirmed \in BOOLEAN

\* Between ticks (in the state s): a var variable holds the same value in its
\* three fields, and a standard one is at its initial value while the bar is
\* open.
Settled(s) ==
  \A n \in Names :
    /\ Modifier[n] = "var" => s.value[n] = s.barStart[n] /\ s.barStart[n] = s.committed[n]
    /\ Modifier[n] = "standard" /\ ~s.closed =>
         s.value[n] = Initial[n] /\ s.barStart[n] = Initial[n]
    /\ n \notin s.declared => s.value[n] = Initial[n]

\* What the next tick will start from, in the state s between ticks.
KeptIn(s) ==
  [n \in Names |-> IF Modifier[n] = "standard" THEN Initial[n] ELSE s.value[n]]

Kept == KeptIn(IF running THEN saved ELSE Snapshot)

\* While a tick runs, what it may have to go back to is untouched by it: the
\* snapshot is of a settled state, and the bar's start holds the kept values.
RollbackIsSafe ==
  /\ Settled(IF running THEN saved ELSE Snapshot)
  /\ running =>
       /\ ~closed /\ saved.declared \subseteq declared
       /\ \A n \in Names :
            /\ Modifier[n] # "varip" => barStart[n] = Kept[n]
            /\ Modifier[n] = "var" => committed[n] = Kept[n]
            /\ n \notin declared => value[n] = Initial[n] /\ Kept[n] = Initial[n]

Pine == INSTANCE PineVariables
  WITH kept <- Kept, view <- IF running THEN value ELSE Initial

\* The pipeline and the scope together keep the promise of PineVariables: every
\* tick starts from the kept values, over any order of bars, confirmed and
\* unconfirmed ticks, late declarations and scripts that raise.
ImplementsPineVariables == Pine!Spec
=============================================================================

--------------------------- MODULE PineVariables ---------------------------
(***************************************************************************)
(* What a script may rely on for its standard, var and varip variables,    *)
(* whatever ticks, bars and failures come: the promise that the scope and  *)
(* the execution pipeline (src/src/engine) keep together.                  *)
(*                                                                         *)
(* Each tick starts from the kept values.  When it ends, a standard        *)
(* variable is forgotten, a varip variable keeps what the script left in   *)
(* it, and a var variable keeps it if the tick was confirmed.  A tick that *)
(* raises leaves nothing behind.                                           *)
(***************************************************************************)
CONSTANTS
  Names,    \* variable names
  Values,   \* their values
  Modifier, \* the modifier each is declared with
  Initial   \* the value each is declared with

VARIABLES
  kept,   \* what the next tick starts from
  view,   \* what the running script sees
  running \* whether a tick is being processed

vars == <<kept, view, running>>

Init == kept = Initial /\ view = Initial /\ running = FALSE

Begin ==
  /\ ~running
  /\ running' = TRUE
  /\ view' = kept
  /\ UNCHANGED kept

Set(n, v) ==
  /\ running
  /\ view' = [view EXCEPT ![n] = v]
  /\ UNCHANGED <<kept, running>>

KeptAfter(confirmed) ==
  [n \in Names |->
     IF Modifier[n] = "standard" THEN Initial[n]
     ELSE IF Modifier[n] = "varip" \/ confirmed THEN view[n]
     ELSE kept[n]]

Finish(confirmed) ==
  /\ running
  /\ running' = FALSE
  /\ kept' = KeptAfter(confirmed)
  /\ view' = Initial

Fail ==
  /\ running
  /\ running' = FALSE
  /\ view' = Initial
  /\ UNCHANGED kept

Next ==
  \/ Begin
  \/ \E n \in Names, v \in Values : Set(n, v)
  \/ \E confirmed \in BOOLEAN : Finish(confirmed)
  \/ Fail

Spec == Init /\ [][Next]_vars
=============================================================================

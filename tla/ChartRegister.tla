---------------------------- MODULE ChartRegister ----------------------------
(***************************************************************************)
(* What the auto-save engine promises, in one step per delta: a chart is a *)
(* register with a version, a delta is accepted only against the version   *)
(* it expects, and accepting it appends it and adds one to the version.    *)
(* From the contract in the docstring of AutoSaveEngine.process_delta,     *)
(* src/src/services/autosave_engine.py.                                    *)
(***************************************************************************)
EXTENDS Naturals, Sequences

CONSTANTS Charts, Deltas, Versions

VARIABLES
  version, \* chart -> its version, 0 for a chart that does not exist
  applied  \* chart -> the deltas merged into it, in order

Init ==
  /\ version \in [Charts -> {0, 1}]
  /\ applied = [c \in Charts |-> <<>>]

Accept(c, d, expected) ==
  /\ version[c] > 0
  /\ version[c] = expected
  /\ version' = [version EXCEPT ![c] = @ + 1]
  /\ applied' = [applied EXCEPT ![c] = Append(@, d)]

Next == \E c \in Charts, d \in Deltas, v \in Versions : Accept(c, d, v)

Spec == Init /\ [][Next]_<<version, applied>>
=============================================================================

---------------------------- MODULE ScriptRuntime ----------------------------
(***************************************************************************)
(* A script at work in the sandbox: it plots, enters orders, runs          *)
(* conditionals bar by bar and loops, while its output and its time are    *)
(* limited.  The script is arbitrary: any statement may come next.         *)
(***************************************************************************)
EXTENDS Naturals, Sequences, SequencesExt, FiniteSetsExt, Functions

CONSTANTS
  Plots,         \* names of plots
  Widths,        \* sizes of the values of a plot
  Bars,          \* number of bars
  Period,        \* the time is looked at in every Period-th check
  OutputLimit,   \* max_output_size_bytes
  MaxSignals, MaxDepthOfIf,   \* bounds
  None

VARIABLES
  outputs,    \* plot -> size of its output, 0 when there is none
  signals,    \* bars of the signals
  total,      \* total_output_size_bytes
  bar,        \* current_bar_index
  loops,      \* conditionals under way, each with the bar before it and the bars to come
  checks,     \* check_step, modulo Period
  timeUp,     \* is the time limit past?
  unnoticed,  \* checks made since then (history)
  over        \* how the script ended, or "no"

vars == <<outputs, signals, total, bar, loops, checks, timeUp, unnoticed, over>>

SignalSize == 1

TypeOK ==
  /\ outputs \in [Plots -> {0} \cup Widths] /\ total \in Nat
  /\ signals \in Seq(1..Bars) /\ bar \in {None} \cup 1..Bars
  /\ checks \in 0..(Period - 1) /\ timeUp \in BOOLEAN
  /\ over \in {"no", "done", "output", "timeout", "memory", "thrown"}

Init ==
  /\ outputs = [p \in Plots |-> 0] /\ signals = <<>> /\ total = 0
  /\ bar = None /\ loops = <<>>
  /\ checks = 0 /\ timeUp = FALSE /\ unnoticed = 0 /\ over = "no"

\* An exception unwinds the conditionals, each of which puts its bar back.
Unwound == loops' = <<>> /\ bar' = IF loops = <<>> THEN bar ELSE loops[1].before

\* Statements run outside of conditionals and in the body of the innermost one.
Running == over = "no" /\ (loops # <<>> => Last(loops).inBody)

Limited(size) ==
  IF size > OutputLimit THEN over' = "output" /\ Unwound
  ELSE UNCHANGED <<over, loops, bar>>

MutPlotTotal(p, width) == total + width
PlotTotal(p, width) == total - outputs[p] + width

\* A plot of a name that was plotted before takes its place.
plot(p, width) ==
  /\ Running
  /\ total' = PlotTotal(p, width)
  /\ outputs' = [outputs EXCEPT ![p] = width]
  /\ Limited(total')
  /\ UNCHANGED <<signals, checks, timeUp, unnoticed>>

\* A signal is for the bar of the innermost conditional, or the last bar.
entry ==
  /\ Running /\ Len(signals) < MaxSignals
  /\ signals' = Append(signals, IF bar = None THEN Bars ELSE bar)
  /\ total' = total + SignalSize
  /\ Limited(total')
  /\ UNCHANGED <<outputs, checks, timeUp, unnoticed>>

\* A statement of a block or a turn of a loop: checked in passing.  How much
\* memory a script has taken is arbitrary; the time is looked at first.
check_limits ==
  /\ Running
  /\ checks' = (checks + 1) % Period
  /\ \/ checks' = 0 /\ timeUp /\ over' = "timeout" /\ Unwound
     \/ checks' = 0 /\ ~timeUp /\ over' = "memory" /\ Unwound
     \/ ~(checks' = 0 /\ timeUp) /\ UNCHANGED <<over, loops, bar>>
  /\ unnoticed' = IF timeUp THEN unnoticed + 1 ELSE unnoticed
  /\ UNCHANGED <<outputs, signals, total, timeUp>>

TimePasses ==
  /\ over = "no" /\ ~timeUp /\ timeUp' = TRUE
  /\ UNCHANGED <<outputs, signals, total, bar, loops, checks, unnoticed, over>>

\* A conditional on a series: its body, or its alternative, runs for each of
\* the bars whose value asks for it.
BeginIf(chosen) ==
  /\ Running /\ Len(loops) < MaxDepthOfIf
  /\ loops' = Append(loops, [before |-> bar, bars |-> chosen, inBody |-> FALSE])
  /\ UNCHANGED <<outputs, signals, total, bar, checks, timeUp, unnoticed, over>>

NextBar ==
  /\ over = "no" /\ loops # <<>> /\ Last(loops).bars # {}
  /\ bar' = Min(Last(loops).bars)
  /\ loops' = [loops EXCEPT ![Len(loops)].bars = @ \ {bar'},
                            ![Len(loops)].inBody = TRUE]
  /\ UNCHANGED <<outputs, signals, total, checks, timeUp, unnoticed, over>>

EndIf ==
  /\ over = "no" /\ loops # <<>> /\ Last(loops).bars = {}
  /\ bar' = Last(loops).before
  /\ loops' = Front(loops)
  /\ UNCHANGED <<outputs, signals, total, checks, timeUp, unnoticed, over>>

throw ==
  /\ Running /\ over' = "thrown" /\ Unwound
  /\ UNCHANGED <<outputs, signals, total, checks, timeUp, unnoticed>>

ProgramEnds ==
  /\ over = "no" /\ loops = <<>> /\ over' = "done"
  /\ UNCHANGED <<outputs, signals, total, bar, loops, checks, timeUp, unnoticed>>

Next ==
  \/ \E p \in Plots, w \in Widths : plot(p, w)
  \/ \E chosen \in SUBSET (1..Bars) : BeginIf(chosen)
  \/ entry \/ check_limits \/ TimePasses \/ NextBar \/ EndIf \/ throw \/ ProgramEnds

Spec == Init /\ [][Next]_vars

-----------------------------------------------------------------------------
\* The counted size is the size of what is there, however often a plot was
\* replaced, and a script that goes on is within its limit.
OutputAddsUp ==
  /\ total = SumFunction(outputs) + SignalSize * Len(signals)
  /\ over \in {"no", "done"} => total <= OutputLimit

\* Outside of conditionals there is no current bar, also when one was left by
\* an exception; and a script whose time is up is stopped by its next Period checks.
LimitsHold ==
  /\ loops = <<>> => bar = None
  /\ unnoticed <= Period /\ (unnoticed = Period => over = "timeout")
=============================================================================

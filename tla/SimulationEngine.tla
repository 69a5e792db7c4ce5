-------------------------- MODULE SimulationEngine --------------------------
(***************************************************************************)
(* The event simulation: events leave a heap by time, sequence number and  *)
(* order of loading, and each is handed to every handler of its type.  A   *)
(* handler may load events, register a handler, raise, or run the engine   *)
(* again from inside.                                                      *)
(***************************************************************************)
EXTENDS Integers, Sequences, SequencesExt, FiniteSetsExt

CONSTANTS
  EventTimes, SequenceIds,
  MaxEvents, MaxHandlers, MaxDispatches   \* bounds; the last: dispatches inside each other

EventAssumption ==
  EventTimes \cup SequenceIds \subseteq Int /\ {MaxEvents, MaxHandlers, MaxDispatches} \subseteq Nat

VARIABLES
  queue,      \* set of loaded events <<timestamp, sequence, counter>>
  counter,    \* _insertion_counter
  handlers,   \* number of tick handlers
  frames,     \* unfinished dispatches, the innermost last
  active,     \* number of unfinished calls of run
  handed,     \* handler -> events the outermost run gave it, in order (history)
  disturbed   \* in that run, has a handler raised, run the engine, or loaded an
              \* event earlier than its own? (history)

vars == <<queue, counter, handlers, frames, active, handed, disturbed>>

\* The order of tuples; the counter decides between equals.
Earlier(e, f) ==
  \/ e[1] < f[1]
  \/ e[1] = f[1] /\ e[2] < f[2]
  \/ e[1] = f[1] /\ e[2] = f[2] /\ e[3] < f[3]

TypeOK ==
  /\ counter \in 0..MaxEvents /\ handlers \in 0..MaxHandlers
  /\ Len(frames) <= MaxDispatches
  /\ \A e \in queue : e[3] \in 1..counter

Init ==
  /\ queue = {} /\ counter = 0 /\ handlers = 0 /\ frames = <<>> /\ active = 0
  /\ handed = [h \in 1..MaxHandlers |-> <<>>] /\ disturbed = FALSE

\* A handler is at work on the event on top, or nothing runs.
InHandler == frames # <<>> => Last(frames).inside

current == Last(frames).event

MutLoaded(time, seq) == <<time, seq, MaxEvents - counter>>
Loaded(time, seq) == <<time, seq, counter + 1>>

load_event(time, seq) ==
  /\ InHandler /\ active = Len(frames) /\ counter < MaxEvents
  /\ counter' = counter + 1
  /\ queue' = queue \cup {Loaded(time, seq)}
  /\ disturbed' = (disturbed \/ (frames # <<>> /\ Earlier(Loaded(time, seq), current)))
  /\ UNCHANGED <<handlers, frames, active, handed>>

\* The loop over the handlers sees one that is added while it runs.
register_tick_handler ==
  /\ InHandler /\ active = Len(frames) /\ handlers < MaxHandlers
  /\ handlers' = handlers + 1
  /\ UNCHANGED <<queue, counter, frames, active, handed, disturbed>>

\* run from inside a handler takes events the run around it would have taken.
run ==
  /\ InHandler /\ active = Len(frames) /\ Len(frames) < MaxDispatches
  /\ active' = active + 1
  /\ disturbed' = (frames # <<>>)
  /\ handed' = IF frames = <<>> THEN [h \in 1..MaxHandlers |-> <<>>] ELSE handed
  /\ UNCHANGED <<queue, counter, handlers, frames>>

Pop ==
  /\ InHandler /\ active > Len(frames)
  /\ \E e \in queue :
       /\ \A f \in queue \ {e} : Earlier(e, f)
       /\ queue' = queue \ {e}
       /\ frames' = Append(frames, [event |-> e, next |-> 1, inside |-> FALSE])
  /\ UNCHANGED <<counter, handlers, active, handed, disturbed>>

CallHandler ==
  /\ ~InHandler /\ Last(frames).next <= handlers
  /\ handed' = [handed EXCEPT ![Last(frames).next] = Append(@, current)]
  /\ frames' = [frames EXCEPT ![Len(frames)].inside = TRUE]
  /\ UNCHANGED <<queue, counter, handlers, active, disturbed>>

HandlerReturns ==
  /\ InHandler /\ frames # <<>> /\ active = Len(frames)
  /\ frames' = [frames EXCEPT ![Len(frames)] =
                  [event |-> current, next |-> @.next + 1, inside |-> FALSE]]
  /\ UNCHANGED <<queue, counter, handlers, active, handed, disturbed>>

\* The exception passes through run; its event is gone.
HandlerRaises ==
  /\ InHandler /\ frames # <<>> /\ active = Len(frames)
  /\ frames' = Front(frames) /\ active' = active - 1 /\ disturbed' = TRUE
  /\ UNCHANGED <<queue, counter, handlers, handed>>

Dispatched ==
  /\ ~InHandler /\ Last(frames).next > handlers
  /\ frames' = Front(frames)
  /\ UNCHANGED <<queue, counter, handlers, active, handed, disturbed>>

RunReturns ==
  /\ InHandler /\ active > Len(frames) /\ queue = {}
  /\ active' = active - 1
  /\ UNCHANGED <<queue, counter, handlers, frames, handed, disturbed>>

Next ==
  \/ \E t \in EventTimes, s \in SequenceIds : load_event(t, s)
  \/ register_tick_handler \/ run \/ Pop \/ CallHandler
  \/ HandlerReturns \/ HandlerRaises \/ Dispatched \/ RunReturns

Spec == Init /\ [][Next]_vars

-----------------------------------------------------------------------------
InOrder(events) ==
  \A i, j \in DOMAIN events : i < j => Earlier(events[i], events[j])

\* While every handler returns, leaves running the engine to its caller and
\* loads no event earlier than the one it handles, a run hands out its events
\* in order, equal ones as they were loaded, none twice; and all handlers have
\* seen the same events since they were registered.
EventsInOrder ==
  ~disturbed =>
    /\ \A h \in 1..MaxHandlers : InOrder(handed[h])
    /\ frames = <<>> => \A h \in 1..handlers, g \in 1..handlers :
         h < g => IsSuffix(handed[g], handed[h])
=============================================================================

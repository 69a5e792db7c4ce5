---------------------------- MODULE TrailingStops ----------------------------
(***************************************************************************)
(* The trailing stop processor.  A tick walks over a snapshot of the       *)
(* orders; an order that triggers calls the callback in the middle of the  *)
(* walk, and the callback may register and cancel orders, feed another     *)
(* tick, or raise.  Calls nest: frames is the stack of unfinished ticks.   *)
(***************************************************************************)
EXTENDS Integers, Sequences, SequencesExt, FiniteSetsExt

CONSTANTS
  StopIds,      \* order ids
  Stops,        \* the orders as they are created
  Symbols, StopPrices,
  MaxFed,       \* bound: ticks of a behaviour
  MaxNesting,   \* bound: ticks inside each other
  None

OrderRecords ==
  [side : {"BUY", "SELL"}, deltaType : {"AMOUNT", "PERCENTAGE"}, delta : Int,
   stopPrice : Int, activation : Int \cup {None},
   status : {"ACTIVE", "PENDING", "TRIGGERED", "CANCELLED"},
   symbol : {o.symbol : o \in Stops},
   best : Int \cup {None}, triggerPrice : Int \cup {None}]

\* Orders come as they are created.  TrailingStopOrder checks that deltas are
\* positive, and percentages at most a hundred.
StopsAssumption ==
  /\ StopPrices \subseteq Int /\ None \notin Int
  /\ Stops \subseteq OrderRecords
  /\ \A o \in Stops :
       /\ o.status \in {"ACTIVE", "PENDING"} /\ o.best = None /\ o.triggerPrice = None
       /\ o.delta > 0 /\ (o.deltaType = "PERCENTAGE" => o.delta =< 100)
  /\ {MaxFed, MaxNesting} \subseteq Nat

VARIABLES
  registered,   \* ids in the order of the dictionary
  stop,         \* id -> order
  listening,    \* is there a callback?
  frames,       \* unfinished calls of process_tick, the innermost last
  fed,          \* number of ticks
  log,          \* id -> prices it was evaluated at (history)
  made          \* id -> the order as it was registered (history)

vars == <<registered, stop, listening, frames, fed, log, made>>

TypeOK ==
  /\ registered \in Seq(StopIds) /\ IsInjective(registered)
  /\ \A i \in ToSet(registered) :
       stop[i].status \in {"ACTIVE", "PENDING", "TRIGGERED", "CANCELLED"}
  /\ listening \in BOOLEAN
  /\ fed \in 0..MaxFed /\ Len(frames) <= MaxNesting

Init ==
  /\ registered = <<>> /\ stop = [i \in StopIds |-> None]
  /\ listening = FALSE /\ frames = <<>> /\ fed = 0
  /\ log = [i \in StopIds |-> <<>>] /\ made = stop

\* SELL orders follow rising prices and BUY orders falling ones: the two arms
\* of the code are each other's mirror image.
Sign(o) == IF o.side = "SELL" THEN 1 ELSE -1
Beyond(o, p, q) == Sign(o) * p > Sign(o) * q

Open(o) == o.status \in {"ACTIVE", "PENDING"}

Activates(o, p) ==
  o.status = "ACTIVE" \/ o.activation = None \/ ~Beyond(o, o.activation, p)

Breached(o, p) == ~Beyond(o, p, o.stopPrice)

\* Percentages in hundredths.
Candidate(o, best) ==
  IF o.deltaType = "AMOUNT" THEN best - Sign(o) * o.delta
  ELSE (best * (100 - Sign(o) * o.delta)) \div 100

\* The stop follows the best price of this tick only.
MutRatcheted(o, p) ==
  LET stopAt == Candidate(o, p)
  IN [o EXCEPT !.best = p, !.stopPrice = stopAt]

Ratcheted(o, p) ==
  LET best == IF o.best = None \/ Beyond(o, p, o.best) THEN p ELSE o.best
      stopAt == Candidate(o, best)
  IN [o EXCEPT !.best = best,
               !.stopPrice = IF Beyond(o, stopAt, @) THEN stopAt ELSE @]

\* What a tick at p makes of an order of its symbol.
Evaluated(o, p) ==
  IF ~Open(o) \/ ~Activates(o, p) THEN o
  ELSE LET active == [o EXCEPT !.status = "ACTIVE"]
       IN IF Breached(active, p)
          THEN [active EXCEPT !.status = "TRIGGERED", !.triggerPrice = p]
          ELSE Ratcheted(active, p)

-----------------------------------------------------------------------------
top == Last(frames)

\* The user's code runs between ticks and inside the callback.
InUserCode == frames # <<>> => top.calling

register_order(i, o) ==
  /\ InUserCode /\ i \notin ToSet(registered)
  /\ registered' = Append(registered, i)
  /\ stop' = [stop EXCEPT ![i] = o] /\ made' = [made EXCEPT ![i] = o]
  /\ UNCHANGED <<listening, frames, fed, log>>

cancel_order(i) ==
  /\ InUserCode /\ i \in ToSet(registered)
  /\ stop' = [stop EXCEPT ![i].status = "CANCELLED"]
  /\ UNCHANGED <<registered, listening, frames, fed, log, made>>

set_trigger_callback ==
  /\ InUserCode /\ listening' = TRUE
  /\ UNCHANGED <<registered, stop, frames, fed, log, made>>

process_tick(s, p) ==
  /\ InUserCode /\ fed < MaxFed /\ Len(frames) < MaxNesting
  /\ fed' = fed + 1
  /\ frames' = Append(frames, [symbol |-> s, price |-> p, calling |-> FALSE,
                               orders |-> registered, todo |-> registered])
  /\ UNCHANGED <<registered, stop, listening, log, made>>

\* One turn of the loop; an order that triggers leaves the loop in the callback.
EvaluateNext ==
  /\ ~InUserCode /\ top.todo # <<>>
  /\ LET i == Head(top.todo)
         o == stop[i]
         seen == o.symbol = top.symbol
         new == IF seen THEN Evaluated(o, top.price) ELSE o
         triggers == Open(o) /\ new.status = "TRIGGERED"
     IN /\ stop' = [stop EXCEPT ![i] = new]
        /\ log' = IF seen /\ Open(o) THEN [log EXCEPT ![i] = Append(@, top.price)] ELSE log
        /\ frames' = [frames EXCEPT ![Len(frames)].todo = Tail(@),
                                    ![Len(frames)].calling = triggers /\ listening]
  /\ UNCHANGED <<registered, listening, fed, made>>

CallbackReturns ==
  /\ InUserCode /\ frames # <<>>
  /\ frames' = [frames EXCEPT ![Len(frames)].calling = FALSE]
  /\ UNCHANGED <<registered, stop, listening, fed, log, made>>

\* The exception ends the tick; the enclosing callback may catch it.
CallbackRaises ==
  /\ InUserCode /\ frames # <<>>
  /\ frames' = Front(frames)
  /\ UNCHANGED <<registered, stop, listening, fed, log, made>>

TickReturns ==
  /\ ~InUserCode /\ top.todo = <<>>
  /\ frames' = Front(frames)
  /\ UNCHANGED <<registered, stop, listening, fed, log, made>>

Next ==
  \/ \E i \in StopIds, o \in Stops : register_order(i, o)
  \/ \E i \in StopIds : cancel_order(i)
  \/ set_trigger_callback
  \/ \E s \in Symbols, p \in StopPrices : process_tick(s, p)
  \/ EvaluateNext \/ CallbackReturns \/ CallbackRaises \/ TickReturns

Spec == Init /\ [][Next]_vars

-----------------------------------------------------------------------------
\* The stop of an order after prices L: the tightest candidate so far.
StopAfter(o, L) ==
  LET stops == {o.stopPrice} \cup {Candidate(o, L[k]) : k \in DOMAIN L}
  IN IF o.side = "SELL" THEN Max(stops) ELSE Min(stops)

\* The first price that opens the gate, or the length if none does.
GateAt(o, L) ==
  Min({k \in DOMAIN L : Activates(o, L[k])} \cup {Len(L) + 1})

\* Whatever the callbacks did in between, an order stands where the prices it
\* was evaluated at put it: a stop never loosens, a gate that was passed stays
\* open, and an order triggers at the first price that breaches its stop, once.
StopsHold ==
  \A i \in ToSet(registered) :
    LET o == made[i]
        L == log[i]
        g == GateAt(o, L)
        hits == {k \in g..Len(L) : ~Beyond(o, L[k], StopAfter(o, SubSeq(L, g, k - 1)))}
        kept == SubSeq(L, g, IF hits = {} THEN Len(L) ELSE Len(L) - 1)
    IN /\ hits \subseteq {Len(L)}
       /\ stop[i].triggerPrice # None <=> hits # {}
       /\ stop[i].stopPrice = StopAfter(o, kept)
       /\ stop[i].status # "CANCELLED" =>
            stop[i].status = IF hits # {} THEN "TRIGGERED"
                             ELSE IF g > Len(L) THEN o.status ELSE "ACTIVE"

\* A tick that returns has reached every order it started with: each of its
\* symbol that is still active has a stop no looser than the tick's price allows.
TickReachesAll ==
  [][TickReturns =>
       \A i \in ToSet(top.orders) :
         stop[i].symbol = top.symbol /\ stop[i].status = "ACTIVE" =>
           /\ ~Beyond(stop[i], Candidate(stop[i], top.price), stop[i].stopPrice)
           /\ top.price \in ToSet(log[i])]_vars
=============================================================================

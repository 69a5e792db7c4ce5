------------------------- MODULE SimulatedExecution -------------------------
(***************************************************************************)
(* Simulated execution: the pipeline that offers a tick to every pending   *)
(* order of its symbol, and the lots of a pyramided position, left first   *)
(* in, first out.  The two share no state: Next is the pipeline's, LotNext *)
(* that of the lots.                                                       *)
(*                                                                         *)
(* Market, limit, stop and trailing stop orders each have their own        *)
(* condition; a trailing stop moves its watermark when it does not fill.   *)
(***************************************************************************)
EXTENDS Integers, Sequences, SequencesExt, FiniteSetsExt

CONSTANTS
  SimIds, SimOrders,     \* order ids; the orders as they are created
  SimSymbols, SimPrices,
  MaxSimTicks,           \* bound: ticks of a behaviour
  None,
  MaxLevel,              \* max_pyramiding_level
  LotSizes, MaxExit,     \* sizes of lots; the largest exit asked for
  MaxLots                \* bound: lots of a behaviour

OrderRecords ==
  [type : {"MARKET", "LIMIT", "STOP", "TRAILING_STOP"}, side : {"BUY", "SELL"},
   level : Int \cup {None}, delta : Int \cup {None}, symbol : {o.symbol : o \in SimOrders},
   status : {"PENDING", "FILLED", "CANCELLED"},
   watermark : Int \cup {None}, filledPrice : Int \cup {None}]

\* An order comes as the constructor leaves it: pending, without a watermark,
\* with the level its type needs and a positive delta.
SimulationAssumption ==
  /\ SimPrices \subseteq Int /\ None \notin Int \cup OrderRecords
  /\ SimOrders \subseteq OrderRecords
  /\ \A o \in SimOrders :
       /\ o.status = "PENDING" /\ o.watermark = None
       /\ o.type \in {"LIMIT", "STOP"} => o.level \in Int
       /\ o.type = "TRAILING_STOP" => o.delta \in Int /\ o.delta > 0
  /\ {MaxSimTicks, MaxLevel, MaxLots} \subseteq Nat

VARIABLES
  orders,   \* id -> order, None before it is submitted
  ticks,    \* number of ticks
  seen,     \* id -> prices of its symbol while it was pending (history)
  lots,     \* sequence of [id, quantity]
  entered,  \* sizes of all lots, in the order they came (history)
  exited    \* what has left (history)

vars == <<orders, ticks, seen>>
lotVars == <<lots, entered, exited>>

TypeOK ==
  /\ \A i \in SimIds : orders[i] # None =>
       orders[i].status \in {"PENDING", "FILLED", "CANCELLED"}
  /\ ticks \in 0..MaxSimTicks
  /\ Len(lots) <= MaxLevel /\ Len(entered) <= MaxLots
  /\ \A k \in DOMAIN lots : lots[k].quantity > 0

Init ==
  /\ orders = [i \in SimIds |-> None] /\ ticks = 0
  /\ seen = [i \in SimIds |-> <<>>]

Pending(i) == orders[i] # None /\ orders[i].status = "PENDING"

\* BUY is the mirror image of SELL: a limit is crossed, a stop breached.
evaluate_limit(o, p) == IF o.side = "BUY" THEN p <= o.level ELSE p >= o.level
evaluate_stop(o, p) == IF o.side = "BUY" THEN p >= o.level ELSE p <= o.level

\* A favourable price moves the watermark and never fills.
Favourable(o, p) ==
  \/ o.watermark = None
  \/ o.side = "SELL" /\ p > o.watermark
  \/ o.side = "BUY" /\ p < o.watermark

evaluate_trailing_stop(o, p) ==
  /\ ~Favourable(o, p)
  /\ IF o.side = "SELL" THEN p <= o.watermark - o.delta ELSE p >= o.watermark + o.delta

should_execute(o, p) ==
  CASE o.type = "MARKET" -> TRUE
    [] o.type = "LIMIT" -> evaluate_limit(o, p)
    [] o.type = "STOP" -> evaluate_stop(o, p)
    [] o.type = "TRAILING_STOP" -> evaluate_trailing_stop(o, p)

execute_order(o, p) == [o EXCEPT !.status = "FILLED", !.filledPrice = p]

MutOffered(o, p) ==
  IF should_execute(o, p) THEN execute_order(o, p)
  ELSE IF o.type = "TRAILING_STOP" THEN [o EXCEPT !.watermark = p]
  ELSE o

Offered(o, p) ==
  IF should_execute(o, p) THEN execute_order(o, p)
  ELSE IF o.type = "TRAILING_STOP" /\ Favourable(o, p) THEN [o EXCEPT !.watermark = p]
  ELSE o

submit_order(i, o) ==
  /\ orders[i] = None
  /\ orders' = [orders EXCEPT ![i] = o]
  /\ UNCHANGED <<ticks, seen>>

cancel_order(i) ==
  /\ Pending(i)
  /\ orders' = [orders EXCEPT ![i].status = "CANCELLED"]
  /\ UNCHANGED <<ticks, seen>>

process_tick(s, p) ==
  /\ ticks < MaxSimTicks /\ ticks' = ticks + 1
  /\ LET offered == {i \in SimIds : Pending(i) /\ orders[i].symbol = s}
     IN /\ orders' = [i \in SimIds |-> IF i \in offered THEN Offered(orders[i], p) ELSE orders[i]]
        /\ seen' = [i \in SimIds |-> IF i \in offered THEN Append(seen[i], p) ELSE seen[i]]

Next ==
  \/ \E i \in SimIds, o \in SimOrders : submit_order(i, o)
  \/ \E i \in SimIds : cancel_order(i)
  \/ \E s \in SimSymbols, p \in SimPrices : process_tick(s, p)

Spec == Init /\ [][Next]_vars

-----------------------------------------------------------------------------
(* The lots. *)
LotInit == lots = <<>> /\ entered = <<>> /\ exited = 0

Total(s) == FoldLeft(LAMBDA sum, q : sum + q, 0, s)
aggregate_size == Total([k \in DOMAIN lots |-> lots[k].quantity])

\* A lot beyond the pyramiding level is refused.
add_lot(q) ==
  /\ Len(lots) < MaxLevel /\ Len(entered) < MaxLots
  /\ entered' = Append(entered, q)
  /\ lots' = Append(lots, [id |-> Len(entered) + 1, quantity |-> q])
  /\ UNCHANGED exited

\* One turn of the loop: acc holds the lots that stay and what is left to exit.
MutExitLot(acc, lot) ==
  IF lot.quantity <= acc.left THEN [acc EXCEPT !.left = @ - lot.quantity]
  ELSE [kept |-> Append(acc.kept, [lot EXCEPT !.quantity = @ - acc.left]), left |-> acc.left]

ExitLot(acc, lot) ==
  IF lot.quantity <= acc.left THEN [acc EXCEPT !.left = @ - lot.quantity]
  ELSE [kept |-> Append(acc.kept, [lot EXCEPT !.quantity = @ - acc.left]), left |-> 0]

\* An exit of nothing, or of more than there is, is refused.
execute_exit(q) ==
  /\ q > 0 /\ q <= aggregate_size
  /\ lots' = FoldLeft(ExitLot, [kept |-> <<>>, left |-> q], lots).kept
  /\ exited' = exited + q
  /\ UNCHANGED entered

LotNext ==
  \/ \E q \in LotSizes : add_lot(q)
  \/ \E q \in 1..MaxExit : execute_exit(q)

LotSpec == LotInit /\ [][LotNext]_lotVars

-----------------------------------------------------------------------------
\* The k-th price an order saw is one it was due to fill at.  A trailing stop
\* is due when the price has retreated by its delta from the best one so far.
Due(o, L, k) ==
  LET before == {L[j] : j \in 1..(k - 1)}
  IN CASE o.type = "MARKET" -> TRUE
       [] o.type = "LIMIT" -> IF o.side = "BUY" THEN L[k] <= o.level ELSE L[k] >= o.level
       [] o.type = "STOP" -> IF o.side = "BUY" THEN L[k] >= o.level ELSE L[k] <= o.level
       [] o.type = "TRAILING_STOP" ->
            /\ before # {}
            /\ IF o.side = "SELL" THEN Max(before) - L[k] >= o.delta
               ELSE L[k] - Min(before) >= o.delta

\* An order fills at the first price it is due at, at that price, and at no other.
FillsAreDue ==
  \A i \in SimIds : orders[i] # None =>
    LET o == orders[i]
        L == seen[i]
        due == {k \in DOMAIN L : Due(o, L, k)}
    IN IF o.status = "FILLED" THEN due = {Len(L)} /\ o.filledPrice = L[Len(L)]
       ELSE due = {}

\* The units of all lots in line, oldest first: which lot each belongs to.
Line(sizes) == FlattenSeq([k \in DOMAIN sizes |-> [u \in 1..sizes[k] |-> k]])

\* What is held is the whole line but the units that left, and they left from
\* its front: no exit skips a lot, splits one twice over or loses a unit.
FirstInFirstOut ==
  FlattenSeq([k \in DOMAIN lots |-> [u \in 1..lots[k].quantity |-> lots[k].id]])
    = SubSeq(Line(entered), exited + 1, Total(entered))
=============================================================================

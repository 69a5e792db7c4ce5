--------------------------- MODULE MatchingEngine ---------------------------
(***************************************************************************)
(* The simulated order matching engine, src/src/execution/                 *)
(* matching_engine.py: one book per symbol, price-time priority.           *)
(*                                                                         *)
(* submit_order is one synchronous call.  It is split here at the test of  *)
(* its while loop: Submit (checks, registration), one Match per iteration, *)
(* then Rest (append and sort) or Finish (nothing left to rest).  Raise is *)
(* the exit by the ValueError of Trade.__post_init__.  While taker is not  *)
(* NoOrder no other call can run.                                          *)
(*                                                                         *)
(* A price of None is 0, the value that both sort keys and match_price     *)
(* give it; real prices are positive (checked on construction).            *)
(***************************************************************************)
EXTENDS Naturals, Sequences, FiniteSets, SequencesExt

CONSTANTS
  OrderIds,   \* the ids clients may use
  Prices,     \* limit prices, 0 for a market order
  Quantities, \* order quantities
  Stamps,     \* order timestamps (None sorts as 0)
  NoOrder     \* no order

Sides == {"BUY", "SELL"}

OrderRecords ==
  [side : Sides, price : Prices, qty : Quantities, rem : Nat,
   stamp : Stamps, seq : Nat, status : {"PENDING", "PARTIALLY_FILLED", "FILLED"}]

EngineAssumption ==
  /\ Prices \subseteq Nat /\ Stamps \subseteq Nat
  /\ Quantities \subseteq Nat \ {0}
  /\ NoOrder \notin OrderIds \cup OrderRecords

VARIABLES
  order,    \* id -> the Order object handed to the engine, or NoOrder
  book,     \* side -> ids resting on that side, best first (_bids, _asks)
  sequence, \* _sequence
  taker,    \* the order whose submit_order is running
  trades    \* every Trade made so far (history)

vars == <<order, book, sequence, taker, trades>>

Other(side) == IF side = "BUY" THEN "SELL" ELSE "BUY"
Known == {o \in OrderIds : order[o] # NoOrder}
Smaller(m, n) == IF m < n THEN m ELSE n

Init ==
  /\ order = [o \in OrderIds |-> NoOrder]
  /\ book = [s \in Sides |-> <<>>]
  /\ sequence = 0
  /\ taker = NoOrder
  /\ trades = {}

(***************************************************************************)
(* The sort keys: by price (bids negated), then timestamp, then arrival.   *)
(***************************************************************************)
MutNoStamp(p, q) ==
  \/ IF p.side = "BUY" THEN p.price > q.price ELSE p.price < q.price
  \/ p.price = q.price /\ p.seq < q.seq

Before(p, q) ==
  \/ IF p.side = "BUY" THEN p.price > q.price ELSE p.price < q.price
  \/ p.price = q.price /\ p.stamp < q.stamp
  \/ p.price = q.price /\ p.stamp = q.stamp /\ p.seq < q.seq

(***************************************************************************)
(* The order passes every check and is given its place in the arrival      *)
(* sequence.  A rejected call (duplicate id, bad symbol) changes nothing.  *)
(***************************************************************************)
Submit(o, side, price, qty, stamp) ==
  /\ taker = NoOrder
  /\ order[o] = NoOrder
  /\ sequence' = sequence + 1
  /\ order' = [order EXCEPT ![o] =
       [side |-> side, price |-> price, qty |-> qty, rem |-> qty,
        stamp |-> stamp, seq |-> sequence', status |-> "PENDING"]]
  /\ taker' = o
  /\ UNCHANGED <<book, trades>>

Opposite == book[Other(order[taker].side)]
Best == Head(Opposite)

MutCrossesEqualExcluded(t, m) ==
  \/ t.price = 0
  \/ m.price = 0
  \/ IF t.side = "BUY" THEN t.price > m.price ELSE t.price < m.price

Crosses(t, m) ==
  \/ t.price = 0
  \/ m.price = 0
  \/ IF t.side = "BUY" THEN t.price >= m.price ELSE t.price =< m.price

\* The condition under which the loop body runs once more.
CanMatch ==
  /\ taker # NoOrder
  /\ order[taker].rem > 0
  /\ Opposite # <<>>
  /\ Crosses(order[taker], order[Best])

MutFilledKeepsRest(o, q) ==
  [o EXCEPT !.rem = @ - q, !.status = "FILLED"]

Fill(o, q) ==
  [o EXCEPT !.rem = @ - q,
            !.status = IF o.rem = q THEN "FILLED" ELSE "PARTIALLY_FILLED"]

TradeOf(m, t, q) == [maker |-> m, taker |-> t, price |-> order[m].price, qty |-> q]

\* The trade leaves nothing of the maker, which is popped.
MakerFilled(m, q) == order[m].rem = q

\* One iteration: trade with the best opposite order at its price.
Match ==
  /\ CanMatch
  /\ order[Best].price > 0
  /\ LET m == Best
         q == Smaller(order[taker].rem, order[m].rem)
     IN  /\ trades' = trades \cup {TradeOf(m, taker, q)}
         /\ order' = [order EXCEPT ![m] = Fill(@, q), ![taker] = Fill(@, q)]
         /\ book' = IF MakerFilled(m, q)
                    THEN [book EXCEPT ![Other(order[taker].side)] = Tail(@)]
                    ELSE book
  /\ UNCHANGED <<sequence, taker>>

\* The best opposite order has no price: Trade(price=0) raises ValueError and
\* submit_order ends there, whatever it has already done staying done.
Raise ==
  /\ CanMatch
  /\ order[Best].price = 0
  /\ taker' = NoOrder
  /\ UNCHANGED <<order, book, sequence, trades>>

\* Sorting the appended side: the new order goes behind all that precede it.
Placed(side, o) ==
  InsertAt(book[side],
           1 + Cardinality({i \in DOMAIN book[side] :
                              Before(order[book[side][i]], order[o])}), o)

MutDropRemainder ==
  /\ taker # NoOrder
  /\ ~CanMatch
  /\ order[taker].rem > 0
  /\ taker' = NoOrder
  /\ UNCHANGED <<order, book, sequence, trades>>

Rest ==
  /\ taker # NoOrder
  /\ ~CanMatch
  /\ order[taker].rem > 0
  /\ LET side == order[taker].side
     IN  book' = [book EXCEPT ![side] = Placed(side, taker)]
  /\ taker' = NoOrder
  /\ UNCHANGED <<order, sequence, trades>>

Finish ==
  /\ taker # NoOrder
  /\ order[taker].rem = 0
  /\ taker' = NoOrder
  /\ UNCHANGED <<order, book, sequence, trades>>

Next ==
  \/ \E o \in OrderIds, side \in Sides, p \in Prices, q \in Quantities, t \in Stamps :
       Submit(o, side, p, q, t)
  \/ Match
  \/ Raise
  \/ Rest
  \/ Finish

Spec == Init /\ [][Next]_vars

-----------------------------------------------------------------------------
(***************************************************************************)
(* Properties.                                                             *)
(***************************************************************************)
\* Every variable has the shape of the field it stands for.
TypeOK ==
  /\ order \in [OrderIds -> OrderRecords \cup {NoOrder}]
  /\ book \in [Sides -> Seq(OrderIds)]
  /\ sequence \in Nat
  /\ taker \in OrderIds \cup {NoOrder}
  /\ trades \subseteq [maker : OrderIds, taker : OrderIds, price : Nat, qty : Nat]

TradesOf(o) == {tr \in trades : o \in {tr.maker, tr.taker}}

\* Quantity is conserved: what an order has lost from its quantity is what its
\* trades, as maker and as taker, add up to; the status says the same.
Conservation ==
  \A o \in Known :
    LET done == MapThenSumSet(LAMBDA tr : tr.qty, TradesOf(o))
    IN  /\ order[o].rem + done = order[o].qty
        /\ order[o].status = IF done = 0 THEN "PENDING"
                             ELSE IF order[o].rem = 0 THEN "FILLED"
                             ELSE "PARTIALLY_FILLED"

\* On each side are orders of that side with quantity left, none of them twice,
\* the better price before the worse, and of one price the earlier stamp and the
\* earlier arrival first, also while a call is trading with them; and between
\* calls the book is never crossed: every limit bid is below every limit ask.
BookInOrder ==
  /\ \A s \in Sides :
       /\ IsInjective(book[s])
       /\ \A o \in ToSet(book[s]) : order[o].side = s /\ order[o].rem > 0
       /\ \A i, j \in DOMAIN book[s] :
            LET a == order[book[s][i]]
                b == order[book[s][j]]
            IN  i < j => /\ IF s = "BUY" THEN a.price >= b.price ELSE a.price =< b.price
                         /\ a.price = b.price => a.stamp =< b.stamp
                         /\ a.price = b.price /\ a.stamp = b.stamp => a.seq < b.seq
  /\ taker = NoOrder =>
       \A b \in ToSet(book["BUY"]), a \in ToSet(book["SELL"]) :
         order[b].price > 0 /\ order[a].price > 0 => order[b].price < order[a].price

\* A trade is with the order that price-time priority puts first among all
\* those resting on that side, at the maker's price, never worse for the taker
\* than its own limit.
PriceTimePriority ==
  [][\A tr \in trades' \ trades :
       LET m == order[tr.maker]
           t == order[tr.taker]
       IN  /\ tr.price = m.price
           /\ t.price > 0 => IF t.side = "BUY" THEN tr.price =< t.price
                                               ELSE tr.price >= t.price
           /\ \A o \in ToSet(book[m.side]) \ {tr.maker} :
                LET r == order[o]
                IN  \/ IF m.side = "BUY" THEN r.price < m.price ELSE r.price > m.price
                    \/ r.price = m.price
                       /\ (r.stamp > m.stamp \/ (r.stamp = m.stamp /\ r.seq > m.seq))]_vars

Lost ==
  {o \in Known : /\ order[o].rem > 0
                 /\ o # taker
                 /\ \A s \in Sides : o \notin ToSet(book[s])}

\* An accepted order with quantity left is on the book, unless its submission
\* was cut short by an unpriced order at the head of the other side.  Such an
\* order keeps its id (a retry is a duplicate) and its earlier fills.
LostOnlyAtUnpriced ==
  [][\A o \in Lost' \ Lost : Opposite # <<>> /\ order[Best].price = 0]_vars
=============================================================================

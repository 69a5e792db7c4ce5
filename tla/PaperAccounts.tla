--------------------------- MODULE PaperAccounts ---------------------------
(***************************************************************************)
(* Paper trading and risk, in exact fractions.                             *)
(*                                                                         *)
(* The portfolio: cash, one position per symbol at its average entry       *)
(* price, and the profit of what was closed.                               *)
(*                                                                         *)
(* The margin account: one whose equity is below the margin its positions  *)
(* require is liquidated position by position until the shortfall is       *)
(* covered.  The events are executed at the mark price, which is outside   *)
(* the code.                                                               *)
(*                                                                         *)
(* The two share no state: Next is the portfolio's, MarginNext that of the *)
(* margin account.                                                         *)
(***************************************************************************)
EXTENDS Fractions, Sequences, SequencesExt

CONSTANTS
  Assets, TradeSizes, AssetPrices,
  InitialCash,
  MaxFills,      \* bound: trades of a behaviour
  None,
  Accounts,      \* the margin accounts: [balance, positions], a position is
                 \* [size, entry, rate]
  MarkPrices,
  MaxMoves       \* bound: price moves of a behaviour

VARIABLES
  cash, realized,
  position,   \* asset -> [side, quantity, entry, current], None when flat
  fills,      \* asset -> its trades as [quantity (signed), price] (history)
  account, mark, moves,
  before      \* the account before it was liquidated at this mark (history)

vars == <<cash, realized, position, fills>>
marginVars == <<account, mark, moves, before>>

-----------------------------------------------------------------------------
(* The portfolio. *)
Fills == UNION {{<<a, k>> : k \in DOMAIN fills[a]} : a \in Assets}

Init ==
  /\ cash = Whole(InitialCash) /\ realized = Whole(0)
  /\ position = [a \in Assets |-> None] /\ fills = [a \in Assets |-> <<>>]

Opened(side, q, p) == [side |-> side, quantity |-> q, entry |-> Whole(p), current |-> p]

SideOf(trade) == IF trade = "BUY" THEN "LONG" ELSE "SHORT"

unrealized_pnl(pos) ==
  LET move == Minus(Whole(pos.current), pos.entry)
  IN Product(Whole(IF pos.side = "LONG" THEN pos.quantity ELSE -pos.quantity), move)

calculate_realized_pnl(pos, closed, p) ==
  unrealized_pnl([pos EXCEPT !.quantity = closed, !.current = p])

total_unrealized_pnl ==
  SumOver(LAMBDA a : unrealized_pnl(position[a]), {a \in Assets : position[a] # None})

total_equity == Plus(cash, total_unrealized_pnl)

update_price(a, p) ==
  /\ position[a] # None
  /\ position' = [position EXCEPT ![a].current = p]
  /\ UNCHANGED <<cash, realized, fills>>

\* What happens to the position: opened, increased at the average price,
\* reduced, closed, or closed and opened again on the other side.
Traded(pos, trade, q, p) ==
  IF pos = None THEN Opened(SideOf(trade), q, p)
  ELSE IF pos.side = SideOf(trade)
  THEN LET n == pos.quantity + q
           cost == Plus(Product(Whole(pos.quantity), pos.entry), Whole(q * p))
       IN [pos EXCEPT !.quantity = n, !.entry = Over(cost, Whole(n)), !.current = p]
  ELSE IF q < pos.quantity THEN [pos EXCEPT !.quantity = @ - q, !.current = p]
  ELSE IF q = pos.quantity THEN None
  ELSE Opened(SideOf(trade), q - pos.quantity, p)

MutClosedQuantity(pos, trade, q) ==
  IF pos = None \/ pos.side = SideOf(trade) THEN 0 ELSE q

\* How much of the position the trade closes.
ClosedQuantity(pos, trade, q) ==
  IF pos = None \/ pos.side = SideOf(trade) THEN 0
  ELSE IF q < pos.quantity THEN q ELSE pos.quantity

execute_trade(a, trade, q, p) ==
  /\ Cardinality(Fills) < MaxFills
  /\ LET pos == position[a]
         closed == ClosedQuantity(pos, trade, q)
         profit == IF closed = 0 THEN Whole(0) ELSE calculate_realized_pnl(pos, closed, p)
     IN /\ position' = [position EXCEPT ![a] = Traded(pos, trade, q, p)]
        /\ realized' = Plus(realized, profit)
        /\ cash' = Plus(cash, profit)
  /\ fills' = [fills EXCEPT ![a] =
                 Append(@, [quantity |-> IF trade = "BUY" THEN q ELSE -q, price |-> p])]

Next ==
  \E a \in Assets, p \in AssetPrices :
    \/ update_price(a, p)
    \/ \E trade \in {"BUY", "SELL"}, q \in TradeSizes : execute_trade(a, trade, q, p)

Spec == Init /\ [][Next]_vars

-----------------------------------------------------------------------------
(* The margin account. *)
Absolute(x) == IF Lesser(x, Whole(0)) THEN Minus(Whole(0), x) ELSE x

MarginInit ==
  /\ account \in Accounts /\ moves = 0
  /\ mark \in [DOMAIN account.positions -> MarkPrices]
  /\ before = account

UnitMargin(acc, k) == Product(Whole(mark[k]), acc.positions[k].rate)

equity(acc) ==
  LET unrealized(k) ==
        Product(Minus(Whole(mark[k]), acc.positions[k].entry), acc.positions[k].size)
  IN Plus(acc.balance, SumOver(unrealized, DOMAIN acc.positions))

maintenance_margin(acc) ==
  SumOver(LAMBDA k : Product(Absolute(acc.positions[k].size), UnitMargin(acc, k)),
          DOMAIN acc.positions)

is_solvent(acc) == AtMost(maintenance_margin(acc), equity(acc))

\* The volume the loop takes of position k, and what it relieves.  The mutant
\* forgets to divide by the margin of a unit.
MutRequired(shortfall, unit) == shortfall
Required(shortfall, unit) == Over(shortfall, unit)

Volume(acc, shortfall, k) ==
  IF AtMost(shortfall, Whole(0)) \/ AtMost(UnitMargin(acc, k), Whole(0)) THEN Whole(0)
  ELSE Least(Absolute(acc.positions[k].size), Required(shortfall, UnitMargin(acc, k)))

\* The volume to liquidate of every position, in their order.
generate_liquidation_events(acc) ==
  LET turn(done, pos) ==
        LET k == Len(done.volume) + 1
            volume == Volume(acc, done.shortfall, k)
        IN [shortfall |-> Minus(done.shortfall, Product(volume, UnitMargin(acc, k))),
            volume |-> Append(done.volume, volume)]
  IN FoldLeft(turn,
              [shortfall |-> Minus(maintenance_margin(acc), equity(acc)), volume |-> <<>>],
              acc.positions).volume

PriceMoves(m) ==
  /\ moves < MaxMoves /\ moves' = moves + 1
  /\ m # mark /\ mark' = m
  /\ before' = account
  /\ UNCHANGED account

\* A long position is sold, a short one bought back.
Signed(pos, volume) == IF Lesser(pos.size, Whole(0)) THEN Minus(Whole(0), volume) ELSE volume

Executed(acc, volume) ==
  LET closing(k) == Signed(acc.positions[k], volume[k])
      profit(k) == Product(Minus(Whole(mark[k]), acc.positions[k].entry), closing(k))
  IN [balance |-> Plus(acc.balance, SumOver(profit, DOMAIN volume)),
      positions |-> [k \in DOMAIN volume |->
                       [acc.positions[k] EXCEPT !.size = Minus(@, closing(k))]]]

process_account ==
  /\ ~is_solvent(account)
  /\ before' = account
  /\ account' = Executed(account, generate_liquidation_events(account))
  /\ UNCHANGED <<mark, moves>>

MarginNext == process_account \/ \E m \in [DOMAIN mark -> MarkPrices] : PriceMoves(m)

MarginSpec == MarginInit /\ [][MarginNext]_marginVars

-----------------------------------------------------------------------------
\* Every variable has the shape of what it stands for.
TypeOK ==
  /\ \A a \in Assets : position[a] # None =>
       /\ position[a].side \in {"LONG", "SHORT"}
       /\ position[a].quantity > 0 /\ Lesser(Whole(0), position[a].entry)
  /\ account.balance[2] > 0
  /\ \A k \in DOMAIN account.positions : account.positions[k].size[2] > 0
  /\ DOMAIN mark = DOMAIN account.positions /\ moves \in 0..MaxMoves

Held(a) == MapThenSumSet(LAMBDA k : fills[a][k].quantity, DOMAIN fills[a])

\* The value of all fills of an asset at a mark price.
Marked(a, price) ==
  MapThenSumSet(LAMBDA k : fills[a][k].quantity * (price - fills[a][k].price), DOMAIN fills[a])

\* However trades increase, reduce, close and reverse, a position is the sum of
\* its fills, and cash plus unrealized profit is what the fills are worth at
\* the mark: averaging and realizing never create or lose money.
PositionsAddUp ==
  /\ \A a \in Assets :
       Held(a) = IF position[a] = None THEN 0
                 ELSE IF position[a].side = "LONG" THEN position[a].quantity
                 ELSE -position[a].quantity
  /\ cash = Plus(Whole(InitialCash), realized)
  /\ total_equity =
       Whole(InitialCash + MapThenSumSet(
         LAMBDA a : Marked(a, IF position[a] = None THEN 0 ELSE position[a].current), Assets))

\* A liquidation keeps what the account is worth, never turns a position around
\* nor sells more than there is, and leaves no deficit: the margin that remains
\* is exactly the equity, or none at all when the equity is gone.
LiquidationRestores ==
  before # account =>
    /\ equity(account) = equity(before)
    /\ \A k \in DOMAIN account.positions :
         LET now == account.positions[k].size
             then == before.positions[k].size
         IN AtMost(Whole(0), Product(now, then)) /\ AtMost(Absolute(now), Absolute(then))
    /\ maintenance_margin(account) = IF AtMost(Whole(0), equity(before)) THEN equity(before)
                                     ELSE Whole(0)
=============================================================================

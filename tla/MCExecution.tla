---------------------------- MODULE MCExecution ----------------------------
(***************************************************************************)
(* Execution and risk for TLC: brackets, the matching engine, trailing     *)
(* stops, simulated orders and the three accounts.  The components share   *)
(* no state, so each behaviour explores one of them, and their state       *)
(* spaces add up instead of multiplying.                                   *)
(***************************************************************************)
EXTENDS OCOManager, Integers, Sequences, TLC

CONSTANTS
  OrderIds, Prices, Quantities, Stamps, NoOrder,
  StopIds, Stops, Symbols, StopPrices, MaxFed, MaxNesting,
  SimIds, SimOrders, SimSymbols, SimPrices, MaxSimTicks,
  MaxLevel, LotSizes, MaxExit, MaxLots,
  Assets, TradeSizes, AssetPrices, InitialCash, MaxFills,
  MarkPrices, MaxMoves

VARIABLES
  \* the matching engine
  order, book, sequence, taker, trades,
  \* trailing stops
  registered, stop, listening, frames, fed, log, made,
  \* simulated orders
  orders, ticks, seen,
  \* lots, the portfolio, the margin account
  lots, entered, exited, cash, realized, position, fills, account, mark, moves, before,
  \* the part that is explored
  part

Trailing(side, type, delta, at, gate, status) ==
  [side |-> side, deltaType |-> type, delta |-> delta, stopPrice |-> at,
   activation |-> gate, status |-> status, symbol |-> 1, best |-> None, triggerPrice |-> None]

StopOrders ==
  LET own == {Trailing("SELL", "AMOUNT", 2, 3, None, "ACTIVE"),
              Trailing("SELL", "PERCENTAGE", 50, 4, 8, "PENDING"),
              Trailing("BUY", "PERCENTAGE", 50, 10, 6, "PENDING")}
  IN own \cup {[Trailing("BUY", "AMOUNT", 2, 8, None, "PENDING") EXCEPT !.symbol = 2]}

Simulated(type, side, level, delta) ==
  [type |-> type, side |-> side, level |-> level, delta |-> delta, symbol |-> 1,
   status |-> "PENDING", watermark |-> None, filledPrice |-> None]

SimulatedOrders ==
  {Simulated("MARKET", "BUY", None, None),
   [Simulated("LIMIT", "BUY", 2, None) EXCEPT !.symbol = 2]}
    \cup {Simulated(t, s, 2, None) : t \in {"LIMIT", "STOP"}, s \in {"BUY", "SELL"}}
    \cup {Simulated("TRAILING_STOP", s, None, 2) : s \in {"BUY", "SELL"}}

\* Fractions are <<numerator, denominator>>.
Holding(size, entry, rate) == [size |-> <<size, 1>>, entry |-> <<entry, 1>>, rate |-> rate]

MarginAccounts ==
  {[balance |-> <<b, 1>>,
    positions |-> <<Holding(s1, e1, <<1, 2>>), Holding(s2, 4, <<1, 4>>)>>] :
     b \in {0, 2, 6}, s1 \in {-3, 0, 2}, s2 \in {-4, 1, 3}, e1 \in {2, 5}}

Matching == INSTANCE MatchingEngine
StopLoss == INSTANCE TrailingStops
Simulation == INSTANCE SimulatedExecution
Paper == INSTANCE PaperAccounts WITH Accounts <- MarginAccounts

ASSUME ExecutionAssumption == Matching!EngineAssumption
ASSUME SimulatedAssumption == Simulation!SimulationAssumption
ASSUME TrailingAssumption == StopLoss!StopsAssumption

matchingVars == <<order, book, sequence, taker, trades>>
stopVars == <<registered, stop, listening, frames, fed, log, made>>
simVars == <<orders, ticks, seen>>
lotVars == <<lots, entered, exited>>
portfolioVars == <<cash, realized, position, fills>>
marginVars == <<account, mark, moves, before>>
allVars == <<vars, matchingVars, stopVars, simVars, lotVars, portfolioVars, marginVars, part>>

Parts == {"brackets", "matching", "stops", "simulation", "lots", "portfolio", "margin"}

PartsInit ==
  /\ part \in Parts
  /\ part # "margin" =>
       account = (CHOOSE a \in MarginAccounts : TRUE) /\ mark = <<0, 0>>
  /\ Init /\ Matching!Init /\ StopLoss!Init /\ Simulation!Init /\ Simulation!LotInit
  /\ Paper!Init /\ Paper!MarginInit

\* The parts that are not explored stay as they are.
Frozen ==
  /\ UNCHANGED part
  /\ part # "brackets" => UNCHANGED vars
  /\ part # "matching" => UNCHANGED matchingVars
  /\ part # "stops" => UNCHANGED stopVars
  /\ part # "simulation" => UNCHANGED simVars
  /\ part # "lots" => UNCHANGED lotVars
  /\ part # "portfolio" => UNCHANGED portfolioVars
  /\ part # "margin" => UNCHANGED marginVars

PartsNext ==
  /\ \/ part = "brackets" /\ Next
     \/ part = "matching" /\ Matching!Next
     \/ part = "stops" /\ StopLoss!Next
     \/ part = "simulation" /\ Simulation!Next
     \/ part = "lots" /\ Simulation!LotNext
     \/ part = "portfolio" /\ Paper!Next
     \/ part = "margin" /\ Paper!MarginNext
  /\ Frozen

PartsSpec == PartsInit /\ [][PartsNext]_allVars

Symmetry == Permutations(Orders) \cup Permutations(Brackets)

\* No component looks at an id but to compare it: ids are taken in turn.
IdsInTurn ==
  /\ \A o, p \in OrderIds : o < p /\ order[p] # NoOrder => order[o] # NoOrder
  /\ \A i, j \in StopIds : i < j /\ stop[j] # None => stop[i] # None
  /\ \A i, j \in SimIds : i < j /\ orders[j] # None => orders[i] # None

\* The properties of the parts, whose modules state them.
BookIsSound == part = "matching" =>
  Matching!TypeOK /\ Matching!Conservation /\ Matching!BookInOrder
PriorityHolds == Matching!PriceTimePriority /\ Matching!LostOnlyAtUnpriced
StopsHold ==
  /\ [](part = "stops" => StopLoss!TypeOK /\ StopLoss!StopsHold)
  /\ StopLoss!TickReachesAll
FillsAreDue == part = "simulation" => Simulation!TypeOK /\ Simulation!FillsAreDue
AccountsAddUp ==
  /\ part = "lots" => Simulation!TypeOK /\ Simulation!FirstInFirstOut
  /\ part = "portfolio" => Paper!TypeOK /\ Paper!PositionsAddUp
  /\ part = "margin" => Paper!TypeOK /\ Paper!LiquidationRestores
=============================================================================

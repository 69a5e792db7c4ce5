---------------------------- MODULE MCMarketData ----------------------------
(***************************************************************************)
(* The market data and what is drawn from it, for TLC: bars from trades,   *)
(* corrections of finished bars, the ring buffer, the paginator, the       *)
(* client's store, the spatial index, the chart transforms, the structures *)
(* found in prices, and the variables of a script that is run on every     *)
(* tick of a bar, one of each modifier.                                    *)
(* They share no state; each behaviour explores one of them.               *)
(***************************************************************************)
EXTENDS ExecutionPipeline, Sequences, FiniteSetsExt

CONSTANTS
  Metrics, Times, Points, Retention, MaxRecords, MaxBatch,
  Interval, TradeTimes, TradePrices, Volumes, MaxTrades,
  Frame, Starts, TickTimes, TickPrices, TickVolumes, OriginalBar, MaxTicks,
  Capacities, MaxAppends,
  Records, Ranges, PageSizes,
  Items, EntryLimits, Nodes,
  CandlePrices, Bodies, BrickSize, ReversalPct, MaxInput,
  SwingPrices, SwingMarks, Coordinates, Sizes,
  None

VARIABLES
  \* the client's store
  records, latest,
  \* bars from trades
  bar, completed, taken,
  \* corrections
  watermark, order, bars, latestTick, applied, since, closing,
  \* the ring buffer
  capacity, buffer, start, size, log, next,
  \* the paginator
  range, page, boundary, archive, arrived, cursor, batch, yielded, pc,
  \* the spatial index
  limits, rtree, placed,
  \* the chart transforms
  renderer, prices, bricks, kagi, candles,
  \* structures in prices
  tool, input, structure, swings,
  \* the part that is explored
  part

ModifierDef == [n \in Names |-> n]
InitialDef == [n \in Names |-> 0]

OriginalDef == [high |-> 3, low |-> 2, close |-> 2, volume |-> 1]
RecordsDef == {1, 2, 3} \X {1, 2}
RangesDef == {<<1, 3>>, <<2, 4>>, <<2, 2>>}

\* A bar that moves, two that stay, and a point.
BarChoices == <<{<<0, 0, 1, 4>>, <<4, 3, 7, 4>>}, {<<5, 1, 6, 2>>}, {}, {<<0, 3, 2, 5>>}>>
PointChoices == <<{}, {}, {<<3, 3, 1>>}, {}>>
ProbeChoices == {<<0, 0, 0>>, <<3, 3, 1>>, <<2, 2, 0>>, <<6, 4, 2>>}

Store == INSTANCE TimeSeriesStore WITH Values <- Points
Trading == INSTANCE TradeBars
  WITH Trades <- [time : TradeTimes, price : TradePrices, volume : Volumes],
       NoBar <- None
Correction == INSTANCE BarCorrection
  WITH Ticks <- [time : TickTimes, price : TickPrices, volume : TickVolumes],
       Original <- OriginalBar, latest <- latestTick
Ring == INSTANCE RingBuffer WITH Empty <- None
Pages == INSTANCE Paginator
Index == INSTANCE SpatialIndex
  WITH Bars <- BarChoices, Points <- PointChoices, Probes <- ProbeChoices,
       Limits <- {<<l, l - 1>> : l \in EntryLimits}
CandleChoices == {[open |-> b[1], high |-> Max({b[1], b[2]}) + 1,
                   low |-> Min({b[1], b[2]}) - 1, close |-> b[2]] : b \in Bodies \X Bodies}
Chart == INSTANCE ChartTransforms
  WITH Candles <- CandleChoices, brick_size <- BrickSize, reversal_pct <- ReversalPct

\* Bars that break out, fall back and jump over each other; flat bars whose highs
\* make swings; and bars with long wicks, some of them heavily traded.
OneBar(o, c, wick, tail, v) ==
  [open |-> o, close |-> c, high |-> Max({o, c}) + wick, low |-> Min({o, c}) - tail, volume |-> v]
BarsOf(t) ==
  CASE t = "blocks" ->
         {OneBar(b[1], b[2], 0, 0, 1) : b \in {<<4, 3>>, <<4, 5>>, <<5, 6>>, <<3, 4>>,
                                              <<3, 2>>, <<2, 1>>, <<5, 2>>, <<2, 5>>}}
    [] t = "zones" -> {OneBar(p, p, 0, 0, 1) : p \in 4..7}
    [] OTHER -> {OneBar(b[1], b[2], w[1], w[2], v) :
                   b \in {<<1, 1>>, <<3, 3>>, <<1, 3>>, <<3, 1>>, <<2, 2>>},
                   w \in {<<4, 4>>, <<2, 0>>, <<0, 4>>}, v \in {1, 4}}
LengthOf == [blocks |-> 5, sweeps |-> 3, zones |-> 7, profile |-> 4, pitchfork |-> 3,
             structure |-> 4, divergence |-> 3]

Structures == INSTANCE PriceStructures
  WITH CandlesFor <- BarsOf, Prices <- SwingPrices, swing_lookback <- 2, wick_threshold <- 40,
       max_body <- 30, volume_period <- 2, volume_factor <- 2, zone_window <- 7,
       zone_tolerance <- 25, value_area_pct <- 70, MaxLength <- LengthOf

ASSUME MarketDataAssumption ==
  /\ Store!StoreAssumption /\ Trading!BarsAssumption
  /\ Correction!CorrectionAssumption /\ Ring!RingAssumption /\ Pages!PagesAssumption
  /\ Index!IndexAssumption /\ Chart!ChartAssumption

storeVars == <<records, latest>>
tradingVars == <<bar, completed, taken>>
correctionVars == <<watermark, order, bars, latestTick, applied, since, closing>>
ringVars == <<capacity, buffer, start, size, log, next>>
pageVars == <<range, page, boundary, archive, arrived, cursor, batch, yielded, pc>>
indexVars == <<limits, rtree, placed>>
chartVars == <<renderer, prices, bricks, kagi, candles>>
structureVars == <<tool, input, structure, swings>>
allVars == <<vars, storeVars, tradingVars, correctionVars, ringVars, pageVars, indexVars,
             chartVars, structureVars, part>>

Parts == {"pipeline", "store", "trading", "correction", "ring", "pages", "index", "chart",
          "structures"}

\* The choices of a part that is not explored are fixed.
Fixed ==
  /\ part # "ring" => capacity = CHOOSE c \in Capacities : TRUE
  /\ part # "pages" =>
       /\ range = CHOOSE r \in Ranges : TRUE
       /\ page = CHOOSE p \in PageSizes : TRUE
       /\ boundary = "before" /\ archive = {}
  /\ part # "index" => limits = CHOOSE l \in {<<l, l - 1>> : l \in EntryLimits} : TRUE
  /\ part # "chart" => renderer = "renko"
  /\ part # "structures" => tool = "zones"

PartsInit ==
  /\ part \in Parts /\ Fixed
  /\ Init /\ Store!Init /\ Trading!Init /\ Correction!Init /\ Ring!Init /\ Pages!Init
  /\ Index!Init /\ Chart!Init /\ Structures!Init

\* The parts that are not explored stay as they are.
Frozen ==
  /\ UNCHANGED part
  /\ part # "pipeline" => UNCHANGED vars
  /\ part # "store" => UNCHANGED storeVars
  /\ part # "trading" => UNCHANGED tradingVars
  /\ part # "correction" => UNCHANGED correctionVars
  /\ part # "ring" => UNCHANGED ringVars
  /\ part # "pages" => UNCHANGED pageVars
  /\ part # "index" => UNCHANGED indexVars
  /\ part # "chart" => UNCHANGED chartVars
  /\ part # "structures" => UNCHANGED structureVars

PartsNext ==
  /\ \/ part = "pipeline" /\ Next
     \/ part = "store" /\ Store!Next
     \/ part = "trading" /\ Trading!Next
     \/ part = "correction" /\ Correction!Next
     \/ part = "ring" /\ Ring!Next
     \/ part = "pages" /\ Pages!Next
     \/ part = "index" /\ Index!Next
     \/ part = "chart" /\ Chart!Next
     \/ part = "structures" /\ Structures!Next
  /\ Frozen

PartsSpec == PartsInit /\ [][PartsNext]_allVars

\* The properties of the parts, whose modules state them.
StoreIsNewest == [](part = "store" => Store!WithinLimits) /\ Store!EvictsOldest
BarsAreAggregates == part = "trading" => Trading!TypeOK /\ Trading!BarsAreAggregates
CorrectionsAddUp == part = "correction" => Correction!TypeOK /\ Correction!CorrectionsAddUp
ClosePreserved == part = "correction" => Correction!ClosePreserved
ReadsAgree == part = "ring" => Ring!TypeOK /\ Ring!ReadsAgree

\* A page ends what is missing, and every further fetch is for older records.
PagesComplete ==
  /\ [](part = "pages" => Pages!TypeOK /\ Pages!PagesComplete)
  /\ [][pc = "yielding" /\ pc' = "fetching" => cursor' < cursor]_allVars

IndexIsComplete == part = "index" => Index!TypeOK /\ Index!IndexIsComplete
TransformsHold == part = "chart" => Chart!TypeOK /\ Chart!TransformsHold
StructuresHold == part = "structures" => Structures!TypeOK /\ Structures!StructuresHold
=============================================================================

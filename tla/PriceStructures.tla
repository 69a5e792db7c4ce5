--------------------------- MODULE PriceStructures ---------------------------
(***************************************************************************)
(* What the analyses find in prices: order blocks with their mitigation,   *)
(* fair value gaps, liquidity sweeps, wick reversals, support and          *)
(* resistance zones, market structure, divergences, the volume profile and *)
(* Andrews' pitchfork.  An analysis is given its input one element at a    *)
(* time: those that run over a whole series are operators of the series so *)
(* far, the engines keep their state.                                      *)
(***************************************************************************)
EXTENDS Fractions, Sequences, SequencesExt

CONSTANTS
  CandlesFor(_),   \* tool |-> its candles, [open, high, low, close, volume]
  Prices,          \* whole and positive
  SwingMarks,      \* of a swing: prices, oscillator values and timestamps
  Coordinates,     \* of an anchor point
  Sizes,           \* traded volumes
  swing_lookback,
  wick_threshold, max_body,        \* in hundredths
  volume_period, volume_factor,
  zone_window, zone_tolerance,     \* the latter in hundredths
  value_area_pct,                  \* in hundredths
  MaxLength,       \* bound, by tool: length of the input
  None

VARIABLES
  tool,        \* the analysis that runs
  input,       \* candles, swings, trades or anchor points so far
  structure,   \* of MarketStructureEngine, with the events it returned
  swings       \* of DivergenceEngine, with its last answer

vars == <<tool, input, structure, swings>>

Tools == DOMAIN MaxLength
Before(n) == {k \in 1..n : k < n}

Up(b) == b.close > b.open
Down(b) == b.close < b.open

\* Prices seen in a mirror: what goes up goes down.
Mirror(b) == [open |-> -b.open, high |-> -b.low, low |-> -b.high, close |-> -b.close,
              volume |-> b.volume]
Mirrored(bars) == [k \in DOMAIN bars |-> Mirror(bars[k])]

TypeOK ==
  /\ tool \in Tools /\ Len(input) <= MaxLength[tool]
  /\ structure.high > structure.low

Init ==
  /\ tool \in Tools /\ input = <<>>
  /\ \E t \in {"BULLISH", "BEARISH"}, h \in Prices, l \in Prices :
       /\ h > l
       /\ tool # "structure" => t = "BULLISH" /\ h = Max(Prices) /\ l = Min(Prices)
       /\ structure = [trend |-> t, high |-> h, low |-> l, events |-> <<>>, first |-> t]
  /\ swings = [HIGH |-> None, LOW |-> None, last |-> None, answer |-> None]

-----------------------------------------------------------------------------
\* Order blocks.  A swing high stands above two bars before it and one after;
\* there may be fewer at the ends of the series.
IsSwingHigh(bars, s) ==
  /\ \A k \in {s - 2, s - 1} \cap DOMAIN bars : bars[s].high > bars[k].high
  /\ s + 1 \in DOMAIN bars => bars[s].high > bars[s + 1].high

\* The first bar of the run of bars that do not fall which ends at i.
RunStart(bars, i) ==
  Min({d \in 1..i : \A k \in d..(i - 1) : ~Down(bars[k])})

\* Bar i is the first to close above swing s, which was not reached before the run.
BreaksOut(bars, s, d, i) ==
  /\ IsSwingHigh(bars, s) /\ bars[i].close > bars[s].high
  /\ \A k \in (s + 1)..(d - 1) : bars[k].high < bars[s].high
  /\ \A k \in (s + 1)..(i - 1) : bars[k].close <= bars[s].high

\* The bullish block that bar i confirms: the last falling bar before its run.
BullishAt(bars, i, seen) ==
  LET d == RunStart(bars, i)
      o == d - 1
  IN IF /\ i > 2 /\ Up(bars[i]) /\ o >= 1 /\ o \notin seen /\ Down(bars[o])
        /\ \E s \in Before(o) : s >= o - Max({1, swing_lookback}) /\ BreaksOut(bars, s, d, i)
     THEN {[bar |-> o, type |-> "BULLISH", high |-> bars[o].high, low |-> bars[o].low,
            confirmed_at |-> i, mitigated_at |-> None]}
     ELSE {}

\* The bearish case is the same in the mirror.
BearishAt(bars, i, seen) ==
  {[b EXCEPT !.type = "BEARISH", !.high = -b.low, !.low = -b.high] :
     b \in BullishAt(Mirrored(bars), i, seen)}

Touched(b, bar) == bar.low <= b.high /\ bar.high >= b.low

\* The price jumped over the block.
GappedThrough(b, prev, bar) ==
  \/ prev.close > b.high /\ bar.high < b.low
  \/ prev.close < b.low /\ bar.low > b.high

\* OrderBlockTracker.update with bar i
MutUpdated(blocks, bars, i) ==
  {IF /\ b.mitigated_at = None /\ b.confirmed_at < i
      /\ Touched(b, bars[i])
   THEN [b EXCEPT !.mitigated_at = i] ELSE b : b \in blocks}

Updated(blocks, bars, i) ==
  {IF /\ b.mitigated_at = None /\ b.confirmed_at < i
      /\ Touched(b, bars[i]) \/ (i > 1 /\ GappedThrough(b, bars[i - 1], bars[i]))
   THEN [b EXCEPT !.mitigated_at = i] ELSE b : b \in blocks}

\* detect_order_blocks: every bar first updates the blocks, then may confirm one.
OrderBlocks(bars) ==
  IF Len(bars) < 3 THEN {}
  ELSE FoldLeft(LAMBDA blocks, i :
         LET seen == {b.bar : b \in blocks}
         IN Updated(blocks, bars, i) \cup BullishAt(bars, i, seen) \cup BearishAt(bars, i, seen),
       {}, [i \in DOMAIN bars |-> i])

-----------------------------------------------------------------------------
\* FVGDetector: evaluate_sequence over every three bars
Gap(c1, c3, i) ==
  IF c3.low > c1.high
  THEN {[type |-> "BULLISH", lower |-> c1.high, upper |-> c3.low, bar |-> i]}
  ELSE IF c3.high < c1.low
  THEN {[type |-> "BEARISH", lower |-> c3.high, upper |-> c1.low, bar |-> i]}
  ELSE {}

FairValueGaps(bars) == UNION {Gap(bars[i - 2], bars[i], i) : i \in 3..Len(bars)}

\* LiquiditySweepDetector: a bar with enough more volume than the bars before it
\* pierces a level and closes on the side it came from.  The kind of a level is
\* read from its name, which may say high, low, both or neither.
Heavy(bars, i) ==
  LET baseline == MapThenSumSet(LAMBDA k : bars[k].volume, (i - volume_period)..(i - 1))
  IN i > volume_period /\ baseline > 0 /\ bars[i].volume * volume_period >= volume_factor * baseline

SweptAt(bar, level) ==
  (IF /\ "low" \notin level.names /\ bar.high > level.price /\ bar.close < level.price
      /\ "high" \in level.names \/ bar.open <= level.price
   THEN {"bearish"} ELSE {})
  \cup
  (IF /\ "high" \notin level.names /\ bar.low < level.price /\ bar.close > level.price
      /\ "low" \in level.names \/ bar.open >= level.price
   THEN {"bullish"} ELSE {})

Levels == [price : Prices, names : SUBSET {"high", "low"}]

Sweeps(bars) ==
  UNION {{[bar |-> i, level |-> l, direction |-> d] : d \in SweptAt(bars[i], l)} :
         i \in {k \in DOMAIN bars : Heavy(bars, k)}, l \in Levels}

\* ReversalWickDetector: the signal and the zone of one bar
Reversal(bar) ==
  LET range == bar.high - bar.low
      bottom == Min({bar.open, bar.close})
      top == Max({bar.open, bar.close})
      small == 100 * (top - bottom) <= max_body * range
      bullish == small /\ 100 * (bottom - bar.low) >= wick_threshold * range
      bearish == small /\ 100 * (bar.high - top) >= wick_threshold * range
      lower == bottom - bar.low
      upper == bar.high - top
  IN IF bullish /\ (bearish => lower > upper)
     THEN [signal |-> "bullish", lower |-> bar.low, upper |-> bottom]
     ELSE IF bearish /\ (bullish => upper > lower)
     THEN [signal |-> "bearish", lower |-> top, upper |-> bar.high]
     ELSE [signal |-> "none", lower |-> None, upper |-> None]

-----------------------------------------------------------------------------
\* calculate_dynamic_sr_zones, with swing_order 1: the highs of the window that
\* stand above both neighbours
SwingHighs(bars) ==
  LET first == Len(bars) - zone_window + 1
  IN IF first < 1 THEN {}
     ELSE {bars[k].high : k \in {j \in (first + 1)..(Len(bars) - 1) :
             bars[j].high > bars[j - 1].high /\ bars[j].high > bars[j + 1].high}}

SwingLows(bars) == {-p : p \in SwingHighs(Mirrored(bars))}

\* _cluster_prices: upwards from its lowest price a zone takes what lies within
\* the tolerance of that price.
Near(least, p) == 100 * (p - least) <= zone_tolerance * least

Clusters(found) ==
  LET zones[prices \in SUBSET found] ==
        LET taken == {p \in prices : Near(Min(prices), p)}
        IN IF prices = {} THEN {}
           ELSE {[lower |-> Min(taken), upper |-> Max(taken)]} \cup zones[prices \ taken]
  IN zones[found]

\* VolumeProfiler.compute: the level with most volume, the lowest of equals, and
\* from there outwards to the side with more until the value area is reached
VolumeAt(trades, p) ==
  MapThenSumSet(LAMBDA k : trades[k].volume, {k \in DOMAIN trades : trades[k].price = p})

VolumeIn(level, lower, upper) ==
  MapThenSumSet(LAMBDA p : level[p], {p \in DOMAIN level : lower <= p /\ p <= upper})

Expanded(level, target, poc) ==
  LET area[lower \in DOMAIN level, upper \in DOMAIN level] ==
        LET volume == VolumeIn(level, lower, upper)
            above == {p \in DOMAIN level : p > upper}
            below == {p \in DOMAIN level : p < lower}
            more == IF above = {} THEN -1 ELSE level[Min(above)]
            less == IF below = {} THEN -1 ELSE level[Max(below)]
        IN IF 100 * volume >= target \/ (above = {} /\ below = {})
           THEN [lower |-> lower, upper |-> upper, volume |-> volume]
           ELSE area[IF less >= more THEN Max(below) ELSE lower,
                     IF more >= less THEN Min(above) ELSE upper]
  IN area[poc, poc]

Traded(trades) == [p \in {t.price : t \in ToSet(trades)} |-> VolumeAt(trades, p)]

Profile(trades) ==
  LET level == Traded(trades)
      total == VolumeIn(level, Min(DOMAIN level), Max(DOMAIN level))
      poc == Min({p \in DOMAIN level : \A q \in DOMAIN level : level[q] <= level[p]})
  IN [poc |-> poc, total |-> total, area |-> Expanded(level, value_area_pct * total, poc)]

\* Pitchfork: the line from the origin, which the variants place differently,
\* through the middle of the second and third point, and its parallels
Middle(p, q) == [x |-> Ratio(p.x + q.x, 2), y |-> Ratio(p.y + q.y, 2)]

Origin(variant, p1, p2) ==
  [x |-> IF variant = "modified_schiff" THEN Middle(p1, p2).x ELSE Whole(p1.x),
   y |-> IF variant = "standard" THEN Whole(p1.y) ELSE Middle(p1, p2).y]

Evaluate(line, x) == Plus(Product(line.slope, x), line.intercept)

Pitchfork(variant, p1, p2, p3) ==
  LET origin == Origin(variant, p1, p2)
      middle == Middle(p2, p3)
      slope == Over(Minus(middle.y, origin.y), Minus(middle.x, origin.x))
      Through(x, y) == [slope |-> slope, intercept |-> Minus(y, Product(slope, x))]
  IN [median |-> Through(origin.x, origin.y),
      upper |-> Through(Whole(p2.x), Whole(p2.y)), lower |-> Through(Whole(p3.x), Whole(p3.y))]

Vertical(variant, p1, p2, p3) == Origin(variant, p1, p2).x = Middle(p2, p3).x

-----------------------------------------------------------------------------
\* The engines that go from state to state.  process_candle: a close beyond a
\* swing goes on with the trend or turns it; the swings stay.
process_candle(close) ==
  /\ tool = "structure"
  /\ LET broken == IF close > structure.high THEN "BULLISH"
                   ELSE IF close < structure.low THEN "BEARISH" ELSE None
         event == [type |-> IF broken = structure.trend THEN "BOS" ELSE "CHOCH", trend |-> broken]
     IN structure' = IF broken = None THEN structure
                     ELSE [structure EXCEPT !.trend = broken, !.events = Append(@, event)]
  /\ UNCHANGED swings

\* The swings never meet; a setter that would make them raises.
set_swing(side, price) ==
  /\ tool = "structure"
  /\ side = "high" => price > structure.low
  /\ side = "low" => price < structure.high
  /\ structure' = [structure EXCEPT ![side] = price]
  /\ UNCHANGED swings

\* detect_divergence between two swings of one kind, low or high
Divergence(prev, curr) ==
  LET dp == curr.price - prev.price
      do == curr.oscillator - prev.oscillator
  IN IF curr.type = "LOW"
     THEN IF dp < 0 /\ do > 0 THEN "REGULAR_BULLISH"
          ELSE IF dp > 0 /\ do < 0 THEN "HIDDEN_BULLISH" ELSE None
     ELSE IF dp > 0 /\ do < 0 THEN "REGULAR_BEARISH"
          ELSE IF dp < 0 /\ do > 0 THEN "HIDDEN_BEARISH" ELSE None

\* Later in the series, and not earlier in time when both have a time.
Follows(point, prev) ==
  prev # None => /\ point.index > prev.index
                 /\ prev.time # None /\ point.time # None => point.time >= prev.time

\* process_swing; one that does not follow the last swing, or the last of its
\* kind, raises and changes nothing.
process_swing(point) ==
  /\ tool = "divergence"
  /\ Follows(point, swings.last) /\ Follows(point, swings[point.type])
  /\ swings' = [swings EXCEPT
       ![point.type] = point, !.last = point,
       !.answer = IF swings[point.type] = None THEN None
                  ELSE Divergence(swings[point.type], point)]
  /\ UNCHANGED structure

\* The other analyses are given the next element of their series.
TakeNext(e) ==
  /\ tool \notin {"structure", "divergence"}
  /\ UNCHANGED <<structure, swings>>

Elements ==
  CASE tool = "divergence" ->
         [index : 1..(MaxLength["divergence"] + 1), price : SwingMarks, oscillator : SwingMarks,
          type : {"HIGH", "LOW"}, time : SwingMarks \cup {None}]
    [] tool = "profile" -> [price : Prices, volume : Sizes]
    [] tool = "pitchfork" -> [x : Coordinates, y : Coordinates]
    [] tool = "structure" -> [side : {"high", "low", None}, price : Prices]
    [] OTHER -> CandlesFor(tool)

Next ==
  \E e \in Elements :
    /\ Len(input) < MaxLength[tool] /\ input' = Append(input, e) /\ UNCHANGED tool
    /\ \/ tool = "structure" /\ e.side = None /\ process_candle(e.price)
       \/ tool = "structure" /\ e.side # None /\ set_swing(e.side, e.price)
       \/ tool = "divergence" /\ process_swing(e)
       \/ TakeNext(e)

Spec == Init /\ [][Next]_vars

-----------------------------------------------------------------------------
\* What was found in a series stays found when it grows: a later bar may
\* mitigate an old block and confirm new ones, never change the past.  And a
\* block is mitigated as soon as the price is not wholly on the side it left to.
BlocksHold ==
  LET now == Len(input)
      blocks == OrderBlocks(input)
      past == {b \in blocks : b.confirmed_at < now}
      Hidden(b) == [b EXCEPT !.mitigated_at = IF @ = now THEN None ELSE @]
  IN /\ now > 1 => {Hidden(b) : b \in past} = OrderBlocks(Front(input))
     /\ \A b \in blocks : b.mitigated_at = None <=>
          \A k \in (b.confirmed_at + 1)..now :
            IF b.type = "BULLISH" THEN input[k].low > b.high ELSE input[k].high < b.low
     /\ \A b, c \in blocks : b.bar = c.bar => b = c

\* What goes up in the prices goes down in the mirror: gaps, sweeps and
\* reversals do not prefer a direction.
MirrorImage ==
  LET swap == [BULLISH |-> "BEARISH", BEARISH |-> "BULLISH", bullish |-> "bearish",
               bearish |-> "bullish", none |-> "none", high |-> "low", low |-> "high"]
      Flip(p) == IF p = None THEN None ELSE -p
  IN /\ FairValueGaps(Mirrored(input)) =
          {[g EXCEPT !.type = swap[@], !.lower = -g.upper, !.upper = -g.lower] :
             g \in FairValueGaps(input)}
     /\ \A k \in DOMAIN input, l \in Levels :
          SweptAt(Mirror(input[k]), [price |-> -l.price, names |-> {swap[n] : n \in l.names}])
            = {swap[d] : d \in SweptAt(input[k], l)}
     /\ \A k \in DOMAIN input :
          LET r == Reversal(input[k]) IN
          Reversal(Mirror(input[k])) =
            [signal |-> swap[r.signal], lower |-> Flip(r.upper), upper |-> Flip(r.lower)]

\* A sweep happens on a bar with more volume than one before it, whose range goes
\* beyond the level on both sides, and goes the way of the close.  A bar with
\* the factor times the volume of every bar of the period before it that goes
\* beyond a nameless level and closes on the side it opened on sweeps it.
SweepsHold ==
  /\ \A s \in Sweeps(input) :
       LET b == input[s.bar] IN
       /\ \E k \in 1..(s.bar - 1) : input[k].volume < b.volume
       /\ b.low < s.level.price /\ s.level.price < b.high /\ s.level.names # {"high", "low"}
       /\ s.direction = "bearish" <=> b.close < s.level.price
  /\ \A i \in (volume_period + 1)..Len(input), p \in Prices :
       LET b == input[i]
           period == {input[k].volume : k \in (i - volume_period)..(i - 1)}
           returns == \/ b.open <= p /\ p < b.high /\ b.close < p
                      \/ b.open >= p /\ p > b.low /\ b.close > p
       IN Max(period) > 0 /\ b.volume >= volume_factor * Max(period) /\ returns =>
            \E s \in Sweeps(input) : s.bar = i /\ s.level = [price |-> p, names |-> {}]

\* Zones cover the swings, do not overlap, are as wide as the tolerance allows
\* and no two of them could start as one.
ZonesHold ==
  \A found \in {SwingHighs(input), SwingLows(input)} :
    LET zones == Clusters(found) IN
    /\ \A p \in found : \E z \in zones : z.lower <= p /\ p <= z.upper
    /\ \A z \in zones : {z.lower, z.upper} \subseteq found /\ Near(z.lower, z.upper)
    /\ \A y, z \in zones : y # z => y.upper < z.lower \/ z.upper < y.lower
    /\ \A y, z \in zones : y.lower < z.lower => ~Near(y.lower, z.lower)

\* The value area is a range around the point of control that holds its share,
\* and its last step was needed: without one of its ends, or without both when
\* they trade alike, it would fall short.
ProfileHolds ==
  LET level == Traded(input)
      p == Profile(input)
      lower == p.area.lower
      upper == p.area.upper
      Short(v) == 100 * v < value_area_pct * p.total
  IN p.total > 0 =>
     /\ p.total = MapThenSumSet(LAMBDA k : input[k].volume, DOMAIN input)
     /\ lower <= p.poc /\ p.poc <= upper
     /\ p.area.volume = VolumeIn(level, lower, upper) /\ ~Short(p.area.volume)
     /\ \/ lower = upper
        \/ lower < p.poc /\ Short(VolumeIn(level, lower + 1, upper))
        \/ p.poc < upper /\ Short(VolumeIn(level, lower, upper - 1))
        \/ lower < p.poc /\ p.poc < upper /\ level[lower] = level[upper]
           /\ Short(VolumeIn(level, lower + 1, upper - 1))

\* The median line is half-way between its parallels and meets the middle.
ForkHolds ==
  Len(input) = 3 => \A variant \in {"standard", "schiff", "modified_schiff"} :
    LET p1 == input[1] p2 == input[2] p3 == input[3]
        fork == Pitchfork(variant, p1, p2, p3)
    IN ~Vertical(variant, p1, p2, p3) =>
       /\ Evaluate(fork.median, Middle(p2, p3).x) = Middle(p2, p3).y
       /\ \A m \in Coordinates :
            Plus(Evaluate(fork.upper, Whole(m)), Evaluate(fork.lower, Whole(m)))
              = Product(Whole(2), Evaluate(fork.median, Whole(m)))

\* The trend is that of the last break; a break that turns it is a change of
\* character, and only one of those can follow a trend the other way.
StructureHolds ==
  LET trends == <<structure.first>> \o [k \in DOMAIN structure.events |-> structure.events[k].trend]
  IN /\ structure.trend = Last(trends)
     /\ \A k \in DOMAIN structure.events :
          structure.events[k].type = "CHOCH" <=> trends[k] # trends[k + 1]

\* An answer compares the last two swings of one kind, whatever lies between
\* them; swings are in the order of the series.
DivergenceHolds ==
  LET now == Len(input)
      same == {k \in Before(now) : input[k].type = input[now].type}
  IN /\ \A k \in 2..now : input[k - 1].index < input[k].index
     /\ now > 0 => swings.answer = IF same = {} THEN None ELSE Divergence(input[Max(same)], input[now])

StructuresHold ==
  /\ tool \in {"blocks", "sweeps"} => BlocksHold /\ MirrorImage /\ SweepsHold
  /\ tool = "zones" => ZonesHold
  /\ tool = "profile" /\ input # <<>> => ProfileHolds
  /\ tool = "pitchfork" => ForkHolds
  /\ tool = "structure" => StructureHolds
  /\ tool = "divergence" => DivergenceHolds
=============================================================================

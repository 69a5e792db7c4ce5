--------------------------- MODULE ChartTransforms ---------------------------
(***************************************************************************)
(* The chart transforms: Renko bricks, Kagi lines and Heikin-Ashi bars.    *)
(* Each renderer goes once over its input, so the model feeds the input    *)
(* one by one and keeps what the renderer has made so far.                 *)
(***************************************************************************)
EXTENDS Fractions, Sequences, SequencesExt

CONSTANTS
  CandlePrices,   \* prices, whole and positive
  Candles,        \* bars: [open, high, low, close]
  brick_size,
  reversal_pct,   \* in hundredths
  MaxInput,       \* bound: length of the input
  None

\* The prices of a bar lie between its low and its high.
ChartAssumption ==
  /\ CandlePrices \subseteq Nat \ {0} /\ brick_size \in Nat \ {0} /\ reversal_pct \in Nat \ {0}
  /\ MaxInput \in Nat /\ None \notin {"UP", "DOWN"} /\ None \notin Int
  /\ \A c \in Candles : /\ c.open \in Int /\ c.high \in Int /\ c.low \in Int /\ c.close \in Int
                        /\ {c.open, c.close} \subseteq c.low .. c.high

VARIABLES
  renderer,   \* "renko", "kagi" or "heikin_ashi"
  prices,     \* the input of the first two
  bricks,     \* [from, to]
  kagi,       \* the variables of the Kagi loop, with the segments so far
  candles     \* bars taken and made

vars == <<renderer, prices, bricks, kagi, candles>>

NoTrend == [direction |-> None, extreme |-> None, start |-> None, state |-> None,
            swing |-> [UP |-> None, DOWN |-> None], segments |-> <<>>]

TypeOK ==
  /\ Len(prices) <= MaxInput /\ \A k \in DOMAIN bricks : bricks[k].from # bricks[k].to
  /\ kagi.direction \in {None, "UP", "DOWN"} /\ kagi.state \in {None, "YANG", "YIN"}

Init ==
  /\ renderer \in {"renko", "kagi", "heikin_ashi"}
  /\ prices = <<>> /\ bricks = <<>> /\ kagi = NoTrend /\ candles = <<>>

-----------------------------------------------------------------------------
\* As many bricks as fit between a level and the price, in the way of the sign.
Laid(level, sign, p) ==
  LET n == (sign * (p - level)) \div brick_size
  IN [k \in 1..n |-> [from |-> level + sign * (k - 1) * brick_size,
                      to |-> level + sign * k * brick_size]]

\* Onward from the last brick, or else back from its other end.
MutNewBricks(p) ==
  IF bricks = <<>>
  THEN IF p >= prices[1] THEN Laid(prices[1], 1, p) ELSE Laid(prices[1], -1, p)
  ELSE LET last == Last(bricks)
           sign == IF last.to > last.from THEN 1 ELSE -1
       IN IF sign * (p - last.to) >= brick_size THEN Laid(last.to, sign, p)
          ELSE IF sign * (last.to - p) >= brick_size THEN Laid(last.to, -sign, p) ELSE <<>>

NewBricks(p) ==
  IF bricks = <<>>
  THEN IF p >= prices[1] THEN Laid(prices[1], 1, p) ELSE Laid(prices[1], -1, p)
  ELSE LET last == Last(bricks)
           sign == IF last.to > last.from THEN 1 ELSE -1
       IN IF sign * (p - last.to) >= brick_size THEN Laid(last.to, sign, p)
          ELSE IF sign * (last.from - p) >= brick_size THEN Laid(last.from, -sign, p) ELSE <<>>

\* Up and down are each other's mirror image.
Sign(direction) == IF direction = "UP" THEN 1 ELSE -1
Opposite(direction) == IF direction = "UP" THEN "DOWN" ELSE "UP"
StateOf(direction) == IF direction = "UP" THEN "YANG" ELSE "YIN"

Moved(from, p, sign) == sign * (p - from) * 100 >= reversal_pct * from

Trend(p) ==
  IF Moved(prices[1], p, 1) THEN "UP" ELSE IF Moved(prices[1], p, -1) THEN "DOWN" ELSE None

\* An extreme beyond the last swing of its kind changes the state.
Restated(k) ==
  LET swing == k.swing[k.direction]
  IN IF swing # None /\ Sign(k.direction) * (k.extreme - swing) > 0
     THEN [k EXCEPT !.state = StateOf(k.direction)] ELSE k

Advanced(k, p) ==
  LET s == Sign(k.direction)
  IN IF s * (p - k.extreme) >= 0 THEN Restated([k EXCEPT !.extreme = p])
     ELSE IF ~Moved(k.extreme, p, -s) THEN k
     ELSE Restated([k EXCEPT
            !.swing[k.direction] = k.extreme,
            !.segments = Append(@, [from |-> k.start, to |-> k.extreme, state |-> k.state]),
            !.direction = Opposite(k.direction), !.start = k.extreme, !.extreme = p])

NextKagi(p) ==
  IF kagi.direction # None THEN Advanced(kagi, p)
  ELSE IF Trend(p) = None THEN kagi
  ELSE [kagi EXCEPT !.direction = Trend(p), !.start = prices[1], !.extreme = p,
                    !.state = StateOf(Trend(p))]

TakePrice(p) ==
  /\ renderer \in {"renko", "kagi"} /\ Len(prices) < MaxInput
  /\ prices' = Append(prices, p)
  /\ bricks' = IF renderer = "renko" /\ prices # <<>> THEN bricks \o NewBricks(p) ELSE bricks
  /\ kagi' = IF renderer = "kagi" /\ prices # <<>> THEN NextKagi(p) ELSE kagi
  /\ UNCHANGED <<renderer, candles>>

Half(x, y) == Over(Plus(x, y), Whole(2))
Greatest(x, y) == IF AtMost(x, y) THEN y ELSE x

TakeCandle(c) ==
  /\ renderer = "heikin_ashi" /\ Len(candles) < MaxInput
  /\ LET open == IF candles = <<>> THEN Half(Whole(c.open), Whole(c.close))
                 ELSE Half(Last(candles).open, Last(candles).close)
         close == Ratio(c.open + c.high + c.low + c.close, 4)
     IN candles' = Append(candles,
          [open |-> open, close |-> close, bar |-> c,
           high |-> Greatest(Whole(c.high), Greatest(open, close)),
           low |-> Least(Whole(c.low), Least(open, close))])
  /\ UNCHANGED <<renderer, prices, bricks, kagi>>

Next == (\E p \in CandlePrices : TakePrice(p)) \/ (\E c \in Candles : TakeCandle(c))

Spec == Init /\ [][Next]_vars

-----------------------------------------------------------------------------
\* Bricks lie on one grid and form one chain, each going on from the end of the
\* one before or back from its start, and no further brick fits the last price.
RenkoIsChain ==
  /\ \A k \in DOMAIN bricks :
       /\ bricks[k].to - bricks[k].from \in {brick_size, -brick_size}
       /\ IF k = 1 THEN bricks[1].from = prices[1]
          ELSE IF bricks[k].to - bricks[k].from = bricks[k - 1].to - bricks[k - 1].from
          THEN bricks[k].from = bricks[k - 1].to
          ELSE bricks[k].from = bricks[k - 1].from
  /\ renderer = "renko" /\ prices # <<>> =>
       LET p == Last(prices)
           ends == IF bricks = <<>> THEN {prices[1]} ELSE {Last(bricks).from, Last(bricks).to}
       IN p < Max(ends) + brick_size /\ p > Min(ends) - brick_size

\* The segments render returns: the finished ones and the one under way.
Lines ==
  IF kagi.direction = None THEN <<>>
  ELSE Append(kagi.segments, [from |-> kagi.start, to |-> kagi.extreme, state |-> kagi.state])

Upward(line) == line.to > line.from

\* Kagi lines alternate in one unbroken path of reversals of at least the
\* percentage, and a line is yang or yin by whether it went beyond the one
\* before the last.
KagiIsPath ==
  /\ \A k \in DOMAIN Lines :
       LET line == Lines[k]
           beyond == k > 2 /\ Sign(IF Upward(line) THEN "UP" ELSE "DOWN")
                                * (line.to - Lines[k - 2].to) > 0
       IN /\ Moved(line.from, line.to, IF Upward(line) THEN 1 ELSE -1)
          /\ k > 1 => line.from = Lines[k - 1].to /\ Upward(line) # Upward(Lines[k - 1])
          /\ line.state = IF k = 1 \/ beyond THEN IF Upward(line) THEN "YANG" ELSE "YIN"
                          ELSE Lines[k - 1].state
  /\ Lines # <<>> =>
       ~Moved(kagi.extreme, Last(prices), -Sign(kagi.direction))
         /\ Sign(kagi.direction) * (Last(prices) - kagi.extreme) <= 0

\* A Heikin-Ashi bar opens inside the body of the one before and encloses its source.
HeikinAshiEncloses ==
  \A k \in DOMAIN candles :
    LET c == candles[k]
    IN /\ \A x \in {c.open, c.close, Whole(c.bar.open), Whole(c.bar.close)} :
            AtMost(c.low, x) /\ AtMost(x, c.high)
       /\ k > 1 => /\ AtMost(Least(candles[k - 1].open, candles[k - 1].close), c.open)
                   /\ AtMost(c.open, Greatest(candles[k - 1].open, candles[k - 1].close))

TransformsHold == RenkoIsChain /\ KagiIsPath /\ HeikinAshiEncloses
=============================================================================

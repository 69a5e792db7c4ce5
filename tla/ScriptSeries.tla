---------------------------- MODULE ScriptSeries ----------------------------
(***************************************************************************)
(* The numerical series of the script sandbox, with arithmetic and         *)
(* comparison of missing values and its ta library, and the indicators     *)
(* computed outside of it: averages, momentum, volatility, the oscillator  *)
(* matrix, the adaptive filter with the signals it confirms, and the       *)
(* levels of a swing.  A series grows value by value, so that every short  *)
(* series is tried.                                                        *)
(***************************************************************************)
EXTENDS Fractions, Sequences, SequencesExt, FiniteSets

CONSTANTS
  SeriesValues,   \* whole numbers
  NA,             \* a missing value
  Windows,        \* lengths of averages
  MaxLength       \* bound: length of a series

VARIABLES left, right

vars == <<left, right>>

Init == left = <<>> /\ right = <<>>

Next ==
  /\ Len(left) < MaxLength
  /\ \E v, w \in SeriesValues \cup {NA} :
       left' = Append(left, v) /\ right' = Append(right, w)

Spec == Init /\ [][Next]_vars

-----------------------------------------------------------------------------
is_na(v) == v = NA

\* A missing value makes the result missing and a comparison false; two missing
\* values are equal.
Orders == {"<", "<=", ">", ">="}

InOrder(op, v, w) ==
  \/ op \in {"<", "<="} /\ v < w
  \/ op \in {">", ">="} /\ v > w
  \/ op \in {"<=", ">="} /\ v = w

Combined(op, v, w) ==
  CASE op = "+" -> v + w
    [] op = "-" -> v - w
    [] op = "*" -> v * w
    [] op = "/" -> IF w = 0 THEN NA ELSE Ratio(v, w)

Safe(op, v, w) ==
  CASE op = "==" -> v = w
    [] op = "!=" -> v # w
    [] op \in Orders -> ~is_na(v) /\ ~is_na(w) /\ InOrder(op, v, w)
    [] OTHER -> IF is_na(v) \/ is_na(w) THEN NA ELSE Combined(op, v, w)

\* Two series of one length, element by element
Vector(op, s, t) == [i \in DOMAIN s |-> Safe(op, s[i], t[i])]

\* A series and a number, which may stand on either side
WithNumber(op, s, v) == [i \in DOMAIN s |-> Safe(op, s[i], v)]
OfNumber(op, v, s) == [i \in DOMAIN s |-> Safe(op, v, s[i])]

Entering(acc, v) ==
  IF is_na(v) THEN [acc EXCEPT !.missing = @ + 1] ELSE [acc EXCEPT !.sum = @ + v]
MutLeaving(acc, v) == IF is_na(v) THEN acc ELSE [acc EXCEPT !.sum = @ - v]
Leaving(acc, v) ==
  IF is_na(v) THEN [acc EXCEPT !.missing = @ - 1] ELSE [acc EXCEPT !.sum = @ - v]

\* The average over a window that slides: a running sum and a count of missing
\* values, one value entering and one leaving at each place.
sma(s, n) ==
  LET slide(acc, v) ==
        LET i == Len(acc.out) + 1
            gone == IF i > n THEN Leaving(acc, s[i - n]) ELSE acc
            now == Entering(gone, v)
        IN [now EXCEPT !.out =
              Append(@, IF i >= n /\ now.missing = 0 THEN Ratio(now.sum, n) ELSE NA)]
  IN FoldLeft(slide, [sum |-> 0, missing |-> 0, out |-> <<>>], s).out

\* The exponential average keeps its last value over a gap.
ema(s, n) ==
  LET alpha == Ratio(2, n + 1)
      step(acc, v) ==
        LET now == IF is_na(v) THEN acc.last
                   ELSE IF is_na(acc.last) THEN Whole(v)
                   ELSE Plus(Product(alpha, Whole(v)), Product(Minus(Whole(1), alpha), acc.last))
        IN [last |-> now, out |-> Append(acc.out, IF is_na(v) THEN NA ELSE now)]
  IN FoldLeft(step, [last |-> NA, out |-> <<>>], s).out

Present(s, t, i) == ~is_na(s[i]) /\ ~is_na(t[i])

crossover(s, t) ==
  [i \in DOMAIN s |-> /\ i > 1 /\ Present(s, t, i) /\ Present(s, t, i - 1)
                      /\ s[i - 1] <= t[i - 1] /\ s[i] > t[i]]

crossunder(s, t) ==
  [i \in DOMAIN s |-> /\ i > 1 /\ Present(s, t, i) /\ Present(s, t, i - 1)
                      /\ s[i - 1] >= t[i - 1] /\ s[i] < t[i]]

-----------------------------------------------------------------------------
\* The indicator library, on complete series of fractions
Fractional(s) == [i \in DOMAIN s |-> Whole(s[i])]
Total(s) == FoldLeft(Plus, Whole(0), s)
Mean(s) == Over(Total(s), Whole(Len(s)))
Window(s, n, i) == SubSeq(s, i - n + 1, i)
Clip(x) == IF AtMost(x, Whole(-100)) THEN Whole(-100) ELSE Least(x, Whole(100))

ta_sma(s, n) == [i \in DOMAIN s |-> IF i < n THEN NA ELSE Mean(Window(s, n, i))]

ta_wma(s, n) ==
  [i \in DOMAIN s |->
     IF i < n THEN NA
     ELSE Over(Total([k \in 1..n |-> Product(Whole(k), Window(s, n, i)[k])]),
               Ratio(n * (n + 1), 2))]

Blend(alpha, new, old) == Plus(Product(alpha, new), Product(Minus(Whole(1), alpha), old))

\* Seeded with the mean of the first n values
exponential_ma(s, n, alpha) ==
  LET r[i \in DOMAIN s] == CASE i < n -> NA
                             [] i = n -> Mean(Window(s, n, n))
                             [] i > n -> Blend(alpha, s[i], r[i - 1])
  IN r

ta_ema(s, n) == exponential_ma(s, n, Ratio(2, n + 1))
ta_rma(s, n) == exponential_ma(s, n, Ratio(1, n))

Zero == Whole(0)
Positive(x) == IF AtMost(x, Zero) THEN Zero ELSE x
Gains(s) == [i \in 1..(Len(s) - 1) |-> Positive(Minus(s[i + 1], s[i]))]
Losses(s) == [i \in 1..(Len(s) - 1) |-> Positive(Minus(s[i], s[i + 1]))]

StrengthIndex(gain, loss) ==
  IF loss = Zero THEN (IF gain = Zero THEN Whole(50) ELSE Whole(100))
  ELSE Over(Product(Whole(100), gain), Plus(gain, loss))

\* Wilder's averages of what the series gained and lost
rsi(s, n) ==
  LET gain == ta_rma(Gains(s), n)
      loss == ta_rma(Losses(s), n)
  IN [i \in DOMAIN s |-> IF i <= n THEN NA ELSE StrengthIndex(gain[i - 1], loss[i - 1])]

\* Seeded with the first value
ewm(s, span) ==
  LET r[i \in DOMAIN s] == IF i = 1 THEN s[1] ELSE Blend(Ratio(2, span + 1), s[i], r[i - 1])
  IN r

\* The lines begin where the slow average does.
macd(s, fast, slow, signal) ==
  LET quick == ewm(s, fast)
      calm == ewm(s, slow)
      line == [i \in 1..(Len(s) - slow + 1) |-> Minus(quick[i + slow - 1], calm[i + slow - 1])]
      smooth == ewm(line, signal)
  IN [macd |-> line, signal |-> [i \in signal..Len(line) |-> smooth[i]],
      histogram |-> [i \in signal..Len(line) |-> Minus(line[i], smooth[i])]]

\* The bands are as far from the mean as a multiple of the root of this.
bb_variance(s, n) ==
  [i \in DOMAIN s |->
     IF i < n \/ n = 1 THEN NA
     ELSE LET window == Window(s, n, i)
              mean == Mean(window)
              Off(k) == Minus(window[k], mean)
          IN Over(Total([k \in 1..n |-> Product(Off(k), Off(k))]), Whole(n - 1))]

\* Bars made of the two series, the left one their closes
BarHigh(i) == Whole(Max({left[i], right[i]}))
BarLow(i) == Whole(Min({left[i], right[i]}))
Close(i) == Whole(left[i])
Volume(i) == Whole(1 + (i % 2))

Absolute(x) == Plus(Positive(x), Positive(Minus(Zero, x)))
Greatest(S) == CHOOSE x \in S : \A y \in S : AtMost(y, x)
Smallest(S) == CHOOSE x \in S : \A y \in S : AtMost(x, y)

TrueRange(i) ==
  IF i = 1 THEN Minus(BarHigh(1), BarLow(1))
  ELSE Greatest({Minus(BarHigh(i), BarLow(i)), Absolute(Minus(BarHigh(i), Close(i - 1))),
                 Absolute(Minus(BarLow(i), Close(i - 1)))})

atr(n) == ta_rma([i \in DOMAIN left |-> TrueRange(i)], n)

\* The oscillators between -100 and 100: what goes one way less what goes the other
Balance(up, down) ==
  IF Plus(up, down) = Zero THEN Zero
  ELSE Clip(Over(Product(Whole(100), Minus(up, down)), Plus(up, down)))

rsi_norm(s, n) ==
  [i \in DOMAIN s |-> IF i <= n THEN NA
     ELSE Balance(Mean(Window(Gains(s), n, i - 1)), Mean(Window(Losses(s), n, i - 1)))]

Recent(n, i) == (i - n + 1)..i

stochastic_norm(n) ==
  [i \in DOMAIN left |->
     IF i < n THEN NA
     ELSE LET top == Greatest({BarHigh(k) : k \in Recent(n, i)})
              bottom == Smallest({BarLow(k) : k \in Recent(n, i)})
          IN Balance(Minus(Close(i), bottom), Minus(top, Close(i)))]

Typical(i) == Over(Plus(BarHigh(i), Plus(BarLow(i), Close(i))), Whole(3))

cci_norm(n) ==
  [i \in DOMAIN left |->
     IF i < n THEN NA
     ELSE LET window == [k \in 1..n |-> Typical(i - n + k)]
              mean == Mean(window)
              spread == Mean([k \in 1..n |-> Absolute(Minus(window[k], mean))])
          IN IF spread = Zero THEN Zero
             ELSE Clip(Over(Minus(Typical(i), mean), Product(Ratio(3, 200), spread)))]

\* Money flows in while the typical price rises and out while it falls.
Flow(i, sign) ==
  IF i > 1 /\ Lesser(Zero, Product(Whole(sign), Minus(Typical(i), Typical(i - 1))))
  THEN Product(Typical(i), Volume(i)) ELSE Zero

mfi_norm(n) ==
  [i \in DOMAIN left |->
     IF i < n THEN NA
     ELSE Balance(Total([k \in 1..n |-> Flow(i - n + k, 1)]),
                  Total([k \in 1..n |-> Flow(i - n + k, -1)]))]

\* The weighted mean of components, and where it is
composite(parts, weights, i) ==
  IF \E c \in DOMAIN parts : is_na(parts[c][i]) THEN NA
  ELSE Over(Total([c \in DOMAIN parts |-> Product(Whole(weights[c]), Clip(parts[c][i]))]),
            Total(Fractional(weights)))

classify_boundary(x, overbought, oversold) ==
  IF is_na(x) THEN "NEUTRAL"
  ELSE IF Lesser(overbought, x) THEN "OVERBOUGHT"
  ELSE IF Lesser(x, oversold) THEN "OVERSOLD" ELSE "NEUTRAL"

\* The adaptive filter follows a price that goes straight fast, one that goes to
\* and fro slowly.
EfficiencyRatio(s, n, i) ==
  LET way == Total([k \in 1..n |-> Absolute(Minus(s[i - n + k], s[i - n - 1 + k]))])
  IN IF way = Zero THEN Zero ELSE Over(Absolute(Minus(s[i], s[i - n])), way)

Smoothing(er, fast, slow) ==
  LET sc == Plus(Product(er, Minus(Ratio(2, fast + 1), Ratio(2, slow + 1))), Ratio(2, slow + 1))
  IN Product(sc, sc)

kama(s, n, fast, slow) ==
  LET r[i \in DOMAIN s] ==
        CASE i < n -> NA
          [] i = n -> s[n]
          [] i > n -> Blend(Smoothing(EfficiencyRatio(s, n, i), fast, slow), s[i], r[i - 1])
  IN r

\* Which way the filter goes; a signal is approved that goes the same way.
trend_direction(filter, i) ==
  IF Lesser(filter[i - 1], filter[i]) THEN "UPWARD"
  ELSE IF Lesser(filter[i], filter[i - 1]) THEN "DOWNWARD" ELSE "FLAT"

MutConfirm(direction, trend) == IF direction = "LONG" THEN trend # "DOWNWARD" ELSE trend = "DOWNWARD"
confirm(direction, trend) == trend = IF direction = "LONG" THEN "UPWARD" ELSE "DOWNWARD"

\* The level of a ratio on the way back from the end of a swing, and the one
\* beyond its end, or beyond an anchor.
retracement_level(high, low, up, ratio) ==
  LET part == Product(Minus(high, low), ratio)
  IN IF up THEN Minus(high, part) ELSE Plus(low, part)

extension_level(high, low, anchor, up, ratio) ==
  LET part == Product(Minus(high, low), ratio)
      base == IF ~is_na(anchor) THEN anchor ELSE IF up THEN high ELSE low
  IN IF up THEN Plus(base, part) ELSE Minus(base, part)

-----------------------------------------------------------------------------
Known(s) == SelectSeq(s, LAMBDA v : ~is_na(v))

\* The sliding sum is the sum of its window at every place, also after missing
\* values have come and gone; a gap does not disturb an exponential average;
\* when nothing is missing, the left series is above the right one where it was
\* from the start, or since it crossed over, and between two crossings over it
\* is not above somewhere; the two never cross both ways at once; a difference
\* is undone by a sum, and two values are equal or in order, unless one is missing.
ScriptSeriesAgree ==
  /\ \A n \in Windows, i \in DOMAIN left :
       LET window == Window(left, n, i)
       IN sma(left, n)[i] = IF i < n \/ NA \in ToSet(window) THEN NA
                            ELSE Ratio(FoldLeft(LAMBDA a, v : a + v, 0, window), n)
  /\ \A n \in Windows : Known(ema(left, n)) = ema(Known(left), n)
  /\ LET over == crossover(left, right)
         under == crossunder(left, right)
         above == Vector(">", left, right)
         complete == NA \notin ToSet(left) \cup ToSet(right)
     IN /\ \A i \in DOMAIN left : ~(over[i] /\ under[i])
        /\ complete => \A i, j \in DOMAIN left :
             i < j /\ over[i] /\ over[j] => \E k \in i..j : ~above[k]
        /\ complete => \A i \in DOMAIN left :
             above[i] <=> \/ \A k \in 1..i : above[k]
                         \/ \E k \in 1..i : over[k] /\ \A m \in k..i : above[m]
  /\ \A i \in DOMAIN left :
       LET At(op) == Vector(op, left, right)[i] IN
       /\ Present(left, right, i) =>
            Cardinality({op \in {"<", "==", ">"} : At(op)}) = 1
            /\ Vector("+", Vector("-", left, right), right)[i] = left[i]
       /\ ~Present(left, right, i) => ~At("<=") /\ ~At(">=") /\ is_na(At("*"))
       /\ At("<=") /\ At(">=") => At("==") /\ ~At("!=")
  /\ \A v \in SeriesValues :
       WithNumber("<", left, v) = OfNumber(">", v, left)
       /\ OfNumber("-", 0, OfNumber("-", v, left)) = WithNumber("-", left, v)

\* The library agrees with the sandbox on plain averages; every average stays
\* between the least and the greatest price so far, and a flat price is its own;
\* what rises by as much as another series falls has the opposite strength, and
\* both strengths agree where Wilder's averages begin; the true range covers the
\* way from close to close; a trend filter goes towards its price and not beyond
\* it, and with the prices upside down the opposite signals are approved; what
\* retraces by a ratio and extends by it again is at the end of the swing.
IndicatorsAgree ==
  LET s == Fractional(left)
      down == [i \in DOMAIN left |-> Minus(Zero, s[i])]
      Between(x, i) ==
        LET prices == {s[k] : k \in 1..i}
        IN ~is_na(x) => AtMost(Smallest(prices), x) /\ AtMost(x, Greatest(prices))
      Towards(old, new, price) ==
        CASE Lesser(old, price) -> Lesser(old, new) /\ AtMost(new, price)
          [] Lesser(price, old) -> Lesser(new, old) /\ AtMost(price, new)
          [] OTHER -> new = old
      Opposite(x, y, sum) == IF is_na(x) THEN is_na(y) ELSE Plus(x, y) = sum
      Swing(high, low) ==
        \A up \in BOOLEAN, ratio \in {Ratio(1, 2), Ratio(3, 5), Whole(2)} :
          LET end == IF up THEN high ELSE low
              level == retracement_level(high, low, up, ratio)
              turned == retracement_level(Minus(Zero, low), Minus(Zero, high), ~up, ratio)
          IN /\ Plus(level, turned) = Zero
             /\ extension_level(high, low, level, up, ratio) = end
             /\ extension_level(high, low, NA, up, ratio) = Plus(end, Minus(end, level))
  IN left # <<>> => Swing(Greatest(ToSet(s)), Smallest(ToSet(s))) /\ \A n \in Windows \ {1} :
     LET trend == kama(s, n, 1, 3)
         averages == <<ta_sma(s, n), ta_wma(s, n), ta_ema(s, n), ta_rma(s, n), trend>>
         norm == rsi_norm(s, n)
         stochastic == stochastic_norm(n)
         strength == rsi(s, n)
         range == atr(n)
     IN /\ averages[1] = sma(left, n)
        /\ \A i \in DOMAIN s, a \in DOMAIN averages : Between(averages[a][i], i)
        /\ \A i \in DOMAIN s : Opposite(norm[i], rsi_norm(down, n)[i], Zero)
        /\ \A f \in {stochastic, cci_norm(n), mfi_norm(n)}, i \in DOMAIN s : is_na(f[i]) \/ Clip(f[i]) = f[i]
        /\ \A i \in 2..Len(s) : AtMost(Absolute(Minus(s[i], s[i - 1])), TrueRange(i))
        /\ \A i \in n..Len(s) : AtMost(Smallest({TrueRange(k) : k \in 1..i}), range[i])
        /\ \A i \in (n + 1)..Len(s) : Towards(trend[i - 1], trend[i], s[i])
        /\ \A i \in (n + 1)..Len(s) :
             /\ confirm("LONG", trend_direction(trend, i)) <=> Lesser(trend[i - 1], s[i])
             /\ confirm("LONG", trend_direction(trend, i))
                  <=> confirm("SHORT", trend_direction(kama(down, n, 1, 3), i))
        /\ \A i \in n..Len(s) :
             bb_variance(s, n)[i] = Zero <=> Cardinality(ToSet(Window(s, n, i))) = 1
        /\ \A i \in DOMAIN s :
             LET both == composite(<<norm, stochastic>>, <<2, 1>>, i)
             IN classify_boundary(both, Whole(60), Whole(-60)) = "OVERBOUGHT" => Lesser(Zero, norm[i])
        /\ Len(s) > n =>
             /\ \A i \in DOMAIN s : Opposite(strength[i], rsi(down, n)[i], Whole(100))
             /\ strength[n + 1] = Plus(Whole(50), Over(norm[n + 1], Whole(2)))
        /\ Len(s) >= n + 2 =>
             macd(s, n, n + 1, 2) = macd([i \in DOMAIN s |-> Plus(s[i], Whole(5))], n, n + 1, 2)

SeriesAgree ==
  /\ ScriptSeriesAgree
  /\ NA \notin ToSet(left) \cup ToSet(right) => IndicatorsAgree
=============================================================================

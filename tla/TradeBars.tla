----------------------------- MODULE TradeBars -----------------------------
(***************************************************************************)
(* DynamicBarConstructor, src/src/market_data/bar_constructor.py: trades   *)
(* arriving in time order become bars of one resolution, each completed by *)
(* the first trade of a later window.                                      *)
(*                                                                         *)
(* Times are microseconds in one time zone; prices and volumes are small   *)
(* integers.  A trade older than the last accepted one raises before       *)
(* anything is assigned: it is no step.                                    *)
(***************************************************************************)
EXTENDS Integers, Sequences, FiniteSetsExt, SequencesExt

CONSTANTS
  Interval,  \* the resolution
  Trades,    \* the trades that may arrive: records of time, price and volume
  MaxTrades, \* bound: trades accepted
  NoBar      \* nothing aggregated yet

Fields == {"open", "high", "low", "close", "volume", "end"}

BarsAssumption ==
  /\ Interval \in Nat \ {0} /\ MaxTrades \in Nat
  /\ Trades \subseteq [time : Int, price : Int, volume : Int]
  /\ NoBar \notin [Fields -> Int]

VARIABLES
  bar,       \* _open ... _volume and _current_window_end_us
  completed, \* the bars process_trade returned, in order (history)
  taken      \* the trades accepted, in order; the last is _last_trade_timestamp

vars == <<bar, completed, taken>>

Init == bar = NoBar /\ completed = <<>> /\ taken = <<>>

WindowEnd(time) == (time \div Interval) * Interval + Interval

Opened(t) ==
  [open |-> t.price, high |-> t.price, low |-> t.price, close |-> t.price,
   volume |-> t.volume, end |-> WindowEnd(t.time)]

Updated(b, t) ==
  [b EXCEPT !.high = Max({@, t.price}), !.low = Min({@, t.price}),
            !.close = t.price, !.volume = @ + t.volume]

MutCrosses(t) == bar # NoBar /\ t.time > bar.end

\* The trade is beyond the window of the bar in progress.
Crosses(t) == bar # NoBar /\ t.time >= bar.end

ProcessTrade(t) ==
  /\ Len(taken) < MaxTrades
  /\ taken # <<>> => t.time >= Last(taken).time
  /\ taken' = Append(taken, t)
  /\ completed' = IF Crosses(t) THEN Append(completed, bar) ELSE completed
  /\ bar' = IF bar = NoBar \/ Crosses(t) THEN Opened(t) ELSE Updated(bar, t)

Next == \E t \in Trades : ProcessTrade(t)
Spec == Init /\ [][Next]_vars

-----------------------------------------------------------------------------
AllBars == IF bar = NoBar THEN completed ELSE Append(completed, bar)

\* Every bar has the six fields of the code's Bar.
TypeOK ==
  /\ \A i \in DOMAIN AllBars : AllBars[i] \in [Fields -> Int]
  /\ taken \in Seq(Trades)

\* What those of the trades whose window ends at e add up to.
Aggregate(trades, e) ==
  LET in == {i \in DOMAIN trades : WindowEnd(trades[i].time) = e}
      prices == {trades[i].price : i \in in}
  IN  [open |-> trades[Min(in)].price, high |-> Max(prices), low |-> Min(prices),
       close |-> trades[Max(in)].price, end |-> e,
       volume |-> FoldLeft(LAMBDA v, t : v + (IF WindowEnd(t.time) = e THEN t.volume ELSE 0),
                           0, trades)]

\* The completed bars and the one in progress are, in order of time and once
\* each, exactly the windows in which something traded, and every one is the
\* aggregate of the trades of its own window: no trade is lost, counted in two
\* bars or seen by a bar that ends before it.
BarsAreAggregates ==
  /\ \A i \in DOMAIN AllBars : AllBars[i] = Aggregate(taken, AllBars[i].end)
  /\ {AllBars[i].end : i \in DOMAIN AllBars} =
       {WindowEnd(taken[i].time) : i \in DOMAIN taken}
  /\ \A i, j \in DOMAIN AllBars : i < j => AllBars[i].end < AllBars[j].end
=============================================================================

--------------------------- MODULE BarCorrection ---------------------------
(***************************************************************************)
(* BarCorrectionEngine, src/src/market_data/bar_corrector.py: ticks older  *)
(* than the watermark correct the finished bar that covers them.           *)
(*                                                                         *)
(* Bars of different symbols never meet: the model follows one symbol.     *)
(* A tick at or after the watermark is ignored and one that no bar covers  *)
(* raises: neither is a step.  Listeners are outside the model.            *)
(***************************************************************************)
EXTENDS Integers, Sequences, FiniteSetsExt, SequencesExt

CONSTANTS
  Frame,    \* the timeframe
  Starts,   \* starts of bars, aligned to the timeframe or not
  Ticks,    \* ticks that may arrive: records of time, price and volume
  Original, \* a bar as it is registered: high, low, close and volume
  MaxTicks, \* bound: late ticks applied
  None      \* no bar, no watermark, no tick yet

CorrectionAssumption ==
  /\ Frame \in Nat \ {0} /\ MaxTicks \in Nat
  /\ Starts \subseteq Int /\ Ticks \subseteq [time : Int, price : Int, volume : Int]
  /\ Original \in [high : Int, low : Int, close : Int, volume : Int]
  /\ None \notin Int /\ None \notin [high : Int, low : Int, close : Int, volume : Int]

VARIABLES
  watermark, \* _watermark
  order,     \* the keys of _bars in their order of insertion
  bars,      \* _bars
  latest,    \* _latest_tick_timestamps
  applied,   \* the late ticks applied to each bar (history)
  since,     \* how many of them came before its last add_bar (history)
  closing    \* the time of the tick the registered bar closed on (history)

vars == <<watermark, order, bars, latest, applied, since, closing>>

Init ==
  /\ watermark = None
  /\ order = <<>>
  /\ bars = [s \in Starts |-> None]
  /\ latest = [s \in Starts |-> None]
  /\ applied = [s \in Starts |-> <<>>]
  /\ since = [s \in Starts |-> 0]
  /\ closing = [s \in Starts |-> None]

SetWatermark(w) ==
  /\ watermark' = w
  /\ UNCHANGED <<order, bars, latest, applied, since, closing>>

\* add_bar replaces the bar and keeps what setdefault finds.
AddBar(s, closedAt) ==
  /\ bars' = [bars EXCEPT ![s] = Original]
  /\ order' = IF bars[s] = None THEN Append(order, s) ELSE order
  /\ since' = [since EXCEPT ![s] = Len(applied[s])]
  /\ closing' = [closing EXCEPT ![s] = closedAt]
  /\ UNCHANGED <<watermark, latest, applied>>

\* The aligned bar if it is registered, else the first that covers the time.
Covering(time) ==
  LET aligned == (time \div Frame) * Frame
      covering == {i \in DOMAIN order : order[i] <= time /\ time < order[i] + Frame}
  IN  IF aligned \in ToSet(order) THEN {aligned}
      ELSE IF covering = {} THEN {} ELSE {order[Min(covering)]}

MutIsLatest(s, t) == latest[s] = None \/ t.time > latest[s]
IsLatest(s, t) == latest[s] = None \/ t.time >= latest[s]

ProcessTick(t) ==
  /\ watermark # None => t.time < watermark
  /\ \E s \in Covering(t.time) :
       /\ Len(applied[s]) < MaxTicks
       /\ bars' = [bars EXCEPT
            ![s] = [high |-> Max({@.high, t.price}), low |-> Min({@.low, t.price}),
                    volume |-> @.volume + t.volume,
                    close |-> IF IsLatest(s, t) THEN t.price ELSE @.close]]
       /\ latest' = [latest EXCEPT ![s] = IF IsLatest(s, t) THEN t.time ELSE @]
       /\ applied' = [applied EXCEPT ![s] = Append(@, t)]
  /\ UNCHANGED <<watermark, order, since, closing>>

Next ==
  \/ \E w \in Starts : SetWatermark(w)
  \/ \E s \in Starts : \E c \in s .. s + Frame - 1 : AddBar(s, c)
  \/ \E t \in Ticks : ProcessTick(t)

Spec == Init /\ [][Next]_vars

-----------------------------------------------------------------------------
Registered == {s \in Starts : bars[s] # None}

\* Every field has the shape of the code's.
TypeOK ==
  /\ watermark \in Starts \cup {None}
  /\ ToSet(order) = Registered /\ Len(order) = Cardinality(Registered)
  /\ \A s \in Registered : DOMAIN bars[s] = DOMAIN Original

\* The late ticks that reached bar s since it was last registered.
Late(s) == SubSeq(applied[s], since[s] + 1, Len(applied[s]))

\* The registered bar with every one of the ticks after the first n counted
\* once; newest is the last of those with the greatest time, of all the ticks.
Corrected(ticks, n) ==
  LET late == SubSeq(ticks, n + 1, Len(ticks))
      prices == {late[i].price : i \in DOMAIN late}
      top == Max({ticks[i].time : i \in DOMAIN ticks})
      newest == Max({i \in DOMAIN ticks : ticks[i].time = top})
  IN  [high |-> Max({Original.high} \cup prices),
       low |-> Min({Original.low} \cup prices),
       volume |-> FoldLeft(LAMBDA v, t : v + t.volume, Original.volume, late),
       close |-> IF late # <<>> /\ newest > n THEN ticks[newest].price ELSE Original.close]

\* A bar is its registered form with every later late tick counted once, in
\* whatever order they came; its close moved only if the newest tick it ever
\* saw came after it was registered.
CorrectionsAddUp == \A s \in Registered : bars[s] = Corrected(applied[s], since[s])

\* tests/test_bar_corrector.py: a late tick before the tick a bar closed on
\* "should NOT overwrite the Close price."  The first late tick always does:
\* add_bar does not know when the bar closed.
ClosePreserved == \A s \in Registered :
  (\A i \in DOMAIN Late(s) : Late(s)[i].time < closing[s]) =>
    bars[s].close = Original.close
=============================================================================

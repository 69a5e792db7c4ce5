--------------------------- MODULE MarketDataProofs ---------------------------
(***************************************************************************)
(* Proofs about the script pipeline, the ring buffer, the client's store,  *)
(* the bars from trades, the corrections and the paginator, as             *)
(* MCMarketData puts them together: for any variables, values and bars,    *)
(* capacities, points, trades, ticks, records, ranges and page sizes.      *)
(***************************************************************************)
EXTENDS ChartProofs

-----------------------------------------------------------------------------
(***************************************************************************)
(* The script pipeline.  Inv is inductive; the refinement of PineVariables *)
(* rests on it, since only a settled snapshot makes the bar's start equal  *)
(* to what the abstract specification keeps.                               *)
(***************************************************************************)
Inv == TypeOK /\ RollbackIsSafe

\* The invariant holds before any tick.
LEMMA InitInv == Init => Inv
<1> SUFFICES ASSUME Init PROVE Inv
  OBVIOUS
<1>1. Snapshot \in States
  BY PipelineAssumption DEF Init, States, Snapshot
<1>2. TypeOK
  BY <1>1 DEF Init, TypeOK
<1>3. Settled(Snapshot)
  BY DEF Init, Settled, Snapshot
<1>4. RollbackIsSafe
  BY <1>3 DEF Init, RollbackIsSafe
<1> QED BY <1>2, <1>4 DEF Inv

\* A tick begins from a settled state, and what it saves is that state.
LEMMA BeginInv == ASSUME Inv, NEW b \in Bars, Begin(b) PROVE Inv'
<1> USE PipelineAssumption DEF Inv
<1>1. Snapshot \in States /\ Settled(Snapshot) /\ running = FALSE
  BY DEF TypeOK, RollbackIsSafe, Begin
<1>2. saved' = Snapshot /\ running' = TRUE /\ declared' = declared /\ confirmed' \in BOOLEAN
  BY DEF Begin
<1>3. committed' \in [Names -> Values]
  BY <1>1 DEF Begin, CommittedBefore, States, Snapshot
<1>4. /\ value' \in [Names -> Values] /\ barStart' \in [Names -> Values]
      /\ barIndex' \in Bars \cup {0} /\ closed' = FALSE
  BY <1>1, <1>3 DEF Begin, Opened, States, Snapshot
<1>5. TypeOK'
  BY <1>1, <1>2, <1>3, <1>4 DEF TypeOK, States, Snapshot
<1>6. Kept' = KeptIn(Snapshot)
  BY <1>2 DEF Kept
<1>7. \A n \in Names : Modifier[n] = "var" => committed'[n] = value[n]
  BY <1>1 DEF Begin, CommittedBefore, Settled, Snapshot
<1>8. ASSUME NEW n \in Names
      PROVE  /\ Modifier[n] # "varip" => barStart'[n] = Kept'[n]
             /\ Modifier[n] = "var" => committed'[n] = Kept'[n]
             /\ n \notin declared' => value'[n] = Initial[n] /\ Kept'[n] = Initial[n]
  <2>1. Kept'[n] = IF Modifier[n] = "standard" THEN Initial[n] ELSE value[n]
    BY <1>6 DEF KeptIn, Snapshot
  <2>2. n \notin declared => value[n] = Initial[n]
    BY <1>1 DEF Settled, Snapshot
  <2>3. Modifier[n] \in {"standard", "var", "varip"}
    OBVIOUS
  <2>4. CASE barIndex # b \/ closed
    <3>1. value' = Opened(committed') /\ barStart' = value'
      BY <2>4 DEF Begin
    <3>2. value'[n] = IF Modifier[n] = "standard" THEN Initial[n]
                      ELSE IF Modifier[n] = "var" THEN committed'[n] ELSE value[n]
      BY <3>1, <2>3 DEF Opened
    <3> QED BY <1>2, <1>7, <2>1, <2>2, <2>3, <3>1, <3>2
  <2>5. CASE ~(barIndex # b \/ closed)
    <3>1. value' = value /\ barStart' = barStart /\ closed = FALSE
      BY <2>5, <1>1 DEF Begin, States, Snapshot
    <3>2. Modifier[n] # "varip" => barStart[n] = Kept'[n]
      BY <3>1, <1>1, <2>1, <2>3 DEF Settled, Snapshot
    <3> QED BY <1>2, <1>7, <2>1, <2>2, <2>3, <3>1, <3>2
  <2> QED BY <2>4, <2>5
<1>9. RollbackIsSafe'
  <2>1. Settled(saved')
    BY <1>1, <1>2
  <2>2. saved'.declared = declared'
    BY <1>2 DEF Snapshot
  <2> QED BY <1>2, <1>4, <1>8, <2>1, <2>2 DEF RollbackIsSafe, Settled
<1> QED BY <1>5, <1>9

\* A variable declared late is at its initial value everywhere.
LEMMA DeclareInv == ASSUME Inv, NEW n \in Names, Declare(n) PROVE Inv'
<1> USE PipelineAssumption DEF Inv
<1>1. TypeOK'
  BY DEF Declare, TypeOK, States, Snapshot
<1>2. UNCHANGED <<saved, running, closed>> /\ declared' = declared \cup {n}
  BY DEF Declare
<1>3. /\ value' = [value EXCEPT ![n] = Initial[n]]
      /\ barStart' = [barStart EXCEPT ![n] = Initial[n]]
      /\ committed' = [committed EXCEPT ![n] = Initial[n]]
      /\ {value, barStart, committed} \subseteq [Names -> Values]
  BY DEF Declare, TypeOK, States, Snapshot
<1>4. n \notin declared
  BY DEF Declare
<1>5. CASE running
  <2>1. saved' = saved /\ Kept' = Kept
    BY <1>2, <1>5 DEF Kept
  <2>2. Settled(saved) /\ ~closed /\ saved.declared \subseteq declared
    BY <1>5 DEF RollbackIsSafe
  <2>3. ASSUME NEW m \in Names
        PROVE  /\ Modifier[m] # "varip" => barStart'[m] = Kept[m]
               /\ Modifier[m] = "var" => committed'[m] = Kept[m]
               /\ m \notin declared' => value'[m] = Initial[m] /\ Kept[m] = Initial[m]
    <3>1. /\ Modifier[m] # "varip" => barStart[m] = Kept[m]
          /\ Modifier[m] = "var" => committed[m] = Kept[m]
          /\ m \notin declared => value[m] = Initial[m] /\ Kept[m] = Initial[m]
      BY <1>5 DEF RollbackIsSafe
    <3>2. CASE m = n
      <4>1. Kept[n] = Initial[n]
        BY <1>4, <3>1, <3>2
      <4>2. barStart'[n] = Initial[n] /\ committed'[n] = Initial[n]
        BY <1>3
      <4> QED BY <1>2, <3>2, <4>1, <4>2
    <3>3. CASE m # n
      <4>1. value'[m] = value[m] /\ barStart'[m] = barStart[m] /\ committed'[m] = committed[m]
        BY <1>3, <3>3
      <4> QED BY <1>2, <3>1, <3>3, <4>1
    <3> QED BY <3>2, <3>3
  <2> QED BY <1>1, <1>2, <1>5, <2>1, <2>2, <2>3 DEF RollbackIsSafe
<1>6. CASE ~running
  <2>1. Settled(Snapshot)
    BY <1>6 DEF RollbackIsSafe
  <2>2. Settled(Snapshot')
    <3>1. ASSUME NEW m \in Names
          PROVE  IF m = n
                 THEN /\ value'[m] = Initial[m] /\ barStart'[m] = Initial[m]
                      /\ committed'[m] = Initial[m]
                 ELSE /\ value'[m] = value[m] /\ barStart'[m] = barStart[m]
                      /\ committed'[m] = committed[m]
      BY <1>3
    <3> QED BY <1>2, <2>1, <3>1 DEF Settled, Snapshot
  <2> QED BY <1>1, <1>2, <1>6, <2>2 DEF RollbackIsSafe, Snapshot
<1> QED BY <1>5, <1>6

\* The script changes current values only.
LEMMA SetInv == ASSUME Inv, NEW n \in Names, NEW v \in Values, Set(n, v) PROVE Inv'
<1> USE DEF Inv
<1>1. TypeOK'
  BY DEF Set, TypeOK, States, Snapshot
<1>2. /\ running /\ n \in declared
      /\ UNCHANGED <<declared, barStart, committed, closed, saved, running>>
  BY DEF Set
<1>3. \A m \in Names \ {n} : value'[m] = value[m]
  BY DEF Set, TypeOK, States, Snapshot
<1>4. Kept' = Kept
  BY <1>2 DEF Kept
<1> QED BY <1>1, <1>2, <1>3, <1>4 DEF RollbackIsSafe

\* The end of a tick settles the state again.
LEMMA FinishInv == ASSUME Inv, Finish PROVE Inv'
<1> USE PipelineAssumption DEF Inv
<1>1. TypeOK'
  <2>1. /\ value \in [Names -> Values] /\ barStart \in [Names -> Values]
        /\ committed \in [Names -> Values]
    BY DEF TypeOK, States, Snapshot
  <2>2. RolledBack \in [Names -> Values]
    BY <2>1 DEF RolledBack
  <2>3. /\ value' \in [Names -> Values] /\ barStart' \in [Names -> Values]
        /\ committed' \in [Names -> Values]
    BY <2>1, <2>2 DEF Finish
  <2>4. declared' = declared /\ barIndex' = barIndex /\ saved' = saved /\ confirmed' = confirmed
    BY DEF Finish
  <2>5. running' \in BOOLEAN /\ closed' \in BOOLEAN
    BY DEF Finish, TypeOK, States, Snapshot
  <2> QED BY <2>3, <2>4, <2>5 DEF TypeOK, States, Snapshot
<1>2. /\ \A n \in Names :
           /\ Modifier[n] # "varip" => barStart[n] = Kept[n]
           /\ Modifier[n] = "var" => committed[n] = Kept[n]
           /\ n \notin declared => value[n] = Initial[n] /\ Kept[n] = Initial[n]
      /\ ~closed
  BY DEF Finish, RollbackIsSafe
<1>3. \A n \in Names : Modifier[n] = "standard" => Kept[n] = Initial[n]
  BY DEF Kept, KeptIn
<1>4. running' = FALSE /\ declared' = declared
  BY DEF Finish
<1>5. \A n \in Names : Modifier[n] \in {"standard", "var", "varip"}
  OBVIOUS
<1>6. Settled(Snapshot')
  <2>1. CASE confirmed
    BY <1>2, <1>4, <2>1 DEF Finish, Settled, Snapshot
  <2>2. CASE ~confirmed
    <3>1. /\ UNCHANGED <<barStart, committed, closed>>
          /\ \A n \in Names :
               value'[n] = IF Modifier[n] = "varip" THEN value[n] ELSE barStart[n]
      BY <2>2 DEF Finish, RolledBack
    <3>2. \A n \in Names :
            /\ Modifier[n] = "var" =>
                 value'[n] = barStart'[n] /\ barStart'[n] = committed'[n]
            /\ Modifier[n] = "standard" =>
                 value'[n] = Initial[n] /\ barStart'[n] = Initial[n]
            /\ n \notin declared' => value'[n] = Initial[n]
      BY <1>2, <1>3, <1>4, <3>1
    <3> QED BY <3>2 DEF Settled, Snapshot
  <2> QED BY <2>1, <2>2
<1> QED BY <1>1, <1>4, <1>6 DEF RollbackIsSafe, Snapshot

\* A script that raises brings the saved state back, which was settled.
LEMMA FailInv == ASSUME Inv, Fail PROVE Inv'
<1>1. saved \in States /\ Settled(saved)
  BY DEF Inv, TypeOK, RollbackIsSafe, Fail
<1>2. Snapshot' = saved
  BY <1>1 DEF Fail, Snapshot, States
<1> QED BY <1>1, <1>2 DEF Inv, TypeOK, RollbackIsSafe, Fail, Snapshot

LEMMA StutterInv == ASSUME Inv, UNCHANGED vars PROVE Inv'
<1>1. UNCHANGED <<declared, value, barStart, committed, barIndex, closed, saved, running, confirmed>>
  BY DEF vars, state
<1>2. Snapshot' = Snapshot
  BY <1>1 DEF Snapshot
<1>3. TypeOK'
  BY <1>1, <1>2 DEF Inv, TypeOK
<1>4. Kept' = Kept
  BY <1>1, <1>2 DEF Kept
<1> QED BY <1>1, <1>2, <1>3, <1>4 DEF Inv, RollbackIsSafe

LEMMA NextInv == Inv /\ [Next]_vars => Inv'
BY BeginInv, DeclareInv, SetInv, FinishInv, FailInv, StutterInv DEF Next

LEMMA Inductive == Spec => []Inv
BY InitInv, NextInv, PTL DEF Spec

\* Every field keeps the shape the code gives it (Scope, ExecutionPipeline).
THEOREM TypeCorrect == Spec => []TypeOK
<1>1. Inv => TypeOK
  BY DEF Inv
<1> QED BY <1>1, Inductive, PTL

\* Whatever a tick does, what it may have to go back to stays as it was.
THEOREM RollbackSafe == Spec => []RollbackIsSafe
<1>1. Inv => RollbackIsSafe
  BY DEF Inv
<1> QED BY <1>1, Inductive, PTL

-----------------------------------------------------------------------------
(***************************************************************************)
(* The refinement.                                                         *)
(***************************************************************************)
\* Nothing is kept yet but the initial values.
LEMMA InitRefines == Init => Pine!Init
<1> SUFFICES ASSUME Init PROVE Pine!Init
  OBVIOUS
<1>1. Kept = Initial
  BY PipelineAssumption DEF Init, Kept, KeptIn, Snapshot
<1> QED BY <1>1 DEF Init, Pine!Init

\* A tick starts from the kept values.
LEMMA BeginRefines == ASSUME Inv, NEW b \in Bars, Begin(b) PROVE Pine!Begin
<1> USE PipelineAssumption DEF Inv
<1>1. Snapshot \in States /\ Settled(Snapshot) /\ running = FALSE
  BY DEF TypeOK, RollbackIsSafe, Begin
<1>2. saved' = Snapshot /\ running' = TRUE
  BY DEF Begin
<1>3. Kept' = KeptIn(Snapshot) /\ Kept = KeptIn(Snapshot)
  BY <1>1, <1>2 DEF Kept
<1>4. \A n \in Names : Modifier[n] = "var" => committed'[n] = value[n]
  BY <1>1 DEF Begin, CommittedBefore, Settled, Snapshot
<1>5. value' = KeptIn(Snapshot)
  <2>1. KeptIn(Snapshot) =
          [n \in Names |-> IF Modifier[n] = "standard" THEN Initial[n] ELSE value[n]]
    BY DEF KeptIn, Snapshot
  <2>2. CASE barIndex # b \/ closed
    <3>1. value' = Opened(committed')
      BY <2>2 DEF Begin
    <3>2. Opened(committed') =
            [n \in Names |-> IF Modifier[n] = "standard" THEN Initial[n] ELSE value[n]]
      BY <1>4 DEF Opened
    <3> QED BY <2>1, <3>1, <3>2
  <2>3. CASE ~(barIndex # b \/ closed)
    <3>1. value' = value /\ closed = FALSE /\ value \in [Names -> Values]
      BY <2>3, <1>1 DEF Begin, States, Snapshot
    <3>2. \A n \in Names : Modifier[n] = "standard" => value[n] = Initial[n]
      BY <1>1, <3>1 DEF Settled, Snapshot
    <3> QED BY <2>1, <3>1, <3>2
  <2> QED BY <2>2, <2>3
<1> QED BY <1>1, <1>2, <1>3, <1>5 DEF Pine!Begin

\* While the tick runs the script sees what it sets; declaring changes nothing.
LEMMA SetRefines ==
  ASSUME Inv, NEW n \in Names, NEW v \in Values, Set(n, v) PROVE Pine!Set(n, v)
<1>1. running /\ UNCHANGED <<saved, running>> /\ value' = [value EXCEPT ![n] = v]
  BY DEF Set
<1>2. Kept' = Kept
  BY <1>1 DEF Kept
<1> QED BY <1>1, <1>2 DEF Pine!Set

LEMMA DeclareRefines ==
  ASSUME Inv, NEW n \in Names, Declare(n) PROVE UNCHANGED Pine!vars
<1> USE PipelineAssumption DEF Inv
<1>1. UNCHANGED <<saved, running>> /\ n \notin declared
  BY DEF Declare
<1>2. value \in [Names -> Values] /\ value' = [value EXCEPT ![n] = Initial[n]]
  BY DEF Declare, TypeOK, States, Snapshot
<1>3. value[n] = Initial[n]
  BY <1>1 DEF RollbackIsSafe, Settled, Snapshot
<1>4. value' = value
  BY <1>2, <1>3
<1>5. KeptIn(Snapshot') = KeptIn(Snapshot)
  BY <1>4 DEF KeptIn, Snapshot
<1>6. Kept' = Kept
  BY <1>1, <1>5 DEF Kept, KeptIn, Snapshot
<1> QED BY <1>1, <1>4, <1>6 DEF Pine!vars

\* The end of a tick keeps what the abstract specification keeps.
LEMMA FinishRefines == ASSUME Inv, Finish PROVE Pine!Finish(confirmed)
<1> USE PipelineAssumption DEF Inv
<1>1. running = TRUE /\ running' = FALSE
  BY DEF Finish, TypeOK
<1>2. \A n \in Names : Modifier[n] = "var" => barStart[n] = Kept[n]
  BY <1>1 DEF RollbackIsSafe
<1>3. Kept' = KeptIn(Snapshot')
  BY <1>1 DEF Kept, KeptIn, Snapshot
<1>4. KeptIn(Snapshot') =
        [n \in Names |-> IF Modifier[n] = "standard" THEN Initial[n] ELSE value'[n]]
  BY DEF KeptIn, Snapshot
<1>5. \A n \in Names :
        value'[n] = IF confirmed \/ Modifier[n] = "varip" THEN value[n] ELSE barStart[n]
  BY DEF Finish, RolledBack
<1>6. \A n \in Names : Modifier[n] \in {"standard", "var", "varip"}
  OBVIOUS
<1>7. [n \in Names |-> IF Modifier[n] = "standard" THEN Initial[n] ELSE value'[n]]
        = [n \in Names |->
             IF Modifier[n] = "standard" THEN Initial[n]
             ELSE IF Modifier[n] = "varip" \/ confirmed THEN value[n] ELSE Kept[n]]
  BY <1>2, <1>5, <1>6
<1>8. Kept' = Pine!KeptAfter(confirmed)
  BY <1>3, <1>4, <1>7, <1>1 DEF Pine!KeptAfter
<1> QED BY <1>1, <1>8 DEF Pine!Finish

LEMMA FailRefines == ASSUME Inv, Fail PROVE Pine!Fail
<1>1. running = TRUE /\ running' = FALSE
  BY DEF Fail, Inv, TypeOK
<1>2. saved \in States
  BY DEF Inv, TypeOK
<1>3. Snapshot' = saved
  BY <1>2 DEF Fail, Snapshot, States
<1>4. Kept' = Kept
  BY <1>1, <1>3 DEF Kept, KeptIn, Snapshot
<1> QED BY <1>1, <1>4 DEF Pine!Fail

LEMMA StutterRefines == ASSUME UNCHANGED vars PROVE UNCHANGED Pine!vars
<1>1. UNCHANGED <<declared, value, barStart, committed, barIndex, closed, saved, running>>
  BY DEF vars, state
<1>2. Kept' = Kept
  BY <1>1 DEF Kept, KeptIn, Snapshot
<1> QED BY <1>1, <1>2 DEF Pine!vars

LEMMA NextRefines == Inv /\ [Next]_vars => [Pine!Next]_(Pine!vars)
<1> SUFFICES ASSUME Inv, [Next]_vars PROVE [Pine!Next]_(Pine!vars)
  OBVIOUS
<1>1. CASE \E b \in Bars : Begin(b)
  BY <1>1, BeginRefines DEF Pine!Next
<1>2. CASE \E n \in Names, v \in Values : Set(n, v)
  BY <1>2, SetRefines DEF Pine!Next
<1>3. CASE \E n \in Names : Declare(n)
  BY <1>3, DeclareRefines
<1>4. CASE Finish
  <2>1. confirmed \in BOOLEAN
    BY DEF Inv, TypeOK
  <2> QED BY <1>4, <2>1, FinishRefines DEF Pine!Next
<1>5. CASE Fail
  BY <1>5, FailRefines DEF Pine!Next
<1>6. CASE UNCHANGED vars
  BY <1>6, StutterRefines
<1> QED BY <1>1, <1>2, <1>3, <1>4, <1>5, <1>6 DEF Next

\* The pipeline and its scope implement PineVariables: every tick starts from
\* the values the modifiers promise, whatever bars, ticks and failures came.
THEOREM RefinesPine == Spec => ImplementsPineVariables
<1>1. Init => Pine!Init
  BY InitRefines
<1>2. Inv /\ [Next]_vars => [Pine!Next]_(Pine!vars)
  BY NextRefines
<1> QED BY <1>1, <1>2, Inductive, PTL DEF Spec, ImplementsPineVariables, Pine!Spec

\* The parts that are not explored leave the pipeline alone, so what holds of
\* it alone holds of it among them.
LEMMA PartsRunPipeline == PartsSpec => Spec
<1>1. PartsInit => Init
  BY DEF PartsInit
<1>2. [PartsNext]_allVars => [Next]_vars
  BY DEF PartsNext, Frozen, allVars
<1>. QED BY <1>1, <1>2, PTL DEF PartsSpec, Spec

-----------------------------------------------------------------------------
(***************************************************************************)
(* The ring buffer.  Its cells, from the start, hold the end of what was   *)
(* appended.                                                               *)
(***************************************************************************)
LEMMA Wrap ==
  ASSUME NEW c \in Nat, c > 0, NEW x \in Nat, x < c + c
  PROVE  x % c = IF x < c THEN x ELSE x - c
OBVIOUS

RingInvariant ==
  /\ capacity \in Nat /\ capacity > 0
  /\ buffer \in [0 .. capacity - 1 -> Nat \cup {None}]
  /\ start \in 0 .. capacity - 1
  /\ log \in Seq(Nat) /\ next \in Nat
  /\ size = IF Len(log) < capacity THEN Len(log) ELSE capacity
  /\ \A i \in 0 .. size - 1 : buffer[Ring!Cell(i)] = log[Len(log) - size + 1 + i]

LEMMA SliceIs ==
  ASSUME NEW from, NEW to
  PROVE  Ring!Slice(from, to) = [i \in 1 .. to - from |-> buffer[from + i - 1]]
BY DEF Ring!Slice

LEMMA RingStarts == PartsInit => RingInvariant
<1>. SUFFICES ASSUME PartsInit PROVE RingInvariant
  OBVIOUS
<1>1. Ring!Init /\ capacity \in Nat /\ capacity > 0
  BY MarketDataAssumption DEF PartsInit, Ring!Init, Ring!RingAssumption
<1>2. buffer \in [0 .. capacity - 1 -> Nat \cup {None}] /\ start = 0 /\ size = 0 /\ next = 1
  BY <1>1 DEF Ring!Init, Ring!Blank
<1>3. log \in Seq(Nat) /\ Len(log) = 0
  BY <1>1 DEF Ring!Init
<1>. QED BY <1>1, <1>2, <1>3 DEF RingInvariant

\* The cells of a full buffer are different ones.
LEMMA Cells ==
  ASSUME RingInvariant
  PROVE  /\ size \in 0 .. capacity /\ Len(log) \in Nat
         /\ \A i \in 0 .. capacity :
              Ring!Cell(i) = IF start + i < capacity THEN start + i ELSE start + i - capacity
         /\ \A i \in 0 .. capacity - 1 : Ring!Cell(i) \in 0 .. capacity - 1
         /\ \A i, j \in 0 .. capacity - 1 : i # j => Ring!Cell(i) # Ring!Cell(j)
<1>1. /\ capacity \in Nat /\ capacity > 0 /\ start \in 0 .. capacity - 1 /\ Len(log) \in Nat
      /\ size \in 0 .. capacity
  BY LenProperties DEF RingInvariant
<1>2. ASSUME NEW i \in 0 .. capacity
      PROVE  Ring!Cell(i) = IF start + i < capacity THEN start + i ELSE start + i - capacity
  <2>1. start + i \in Nat /\ start + i < capacity + capacity
    BY <1>1
  <2>. QED BY <1>1, <2>1, Wrap DEF Ring!Cell
<1>3. \A i \in 0 .. capacity - 1 : i \in 0 .. capacity
  BY <1>1
<1>. QED BY <1>1, <1>2, <1>3

LEMMA AddStep ==
  ASSUME RingInvariant, Ring!Add
  PROVE  RingInvariant'
<1>1. /\ capacity \in Nat /\ capacity > 0 /\ buffer \in [0 .. capacity - 1 -> Nat \cup {None}]
      /\ start \in 0 .. capacity - 1 /\ log \in Seq(Nat) /\ next \in Nat
      /\ size = IF Len(log) < capacity THEN Len(log) ELSE capacity
      /\ \A i \in 0 .. size - 1 : buffer[Ring!Cell(i)] = log[Len(log) - size + 1 + i]
  BY DEF RingInvariant
<1>2. /\ capacity' = capacity /\ log' = Append(log, next) /\ next' = next + 1
  BY DEF Ring!Add
<1>3. /\ log' \in Seq(Nat) /\ Len(log') = Len(log) + 1 /\ Len(log) \in Nat
      /\ log'[Len(log) + 1] = next
      /\ \A k \in 1 .. Len(log) : log'[k] = log[k]
  <2>1. Len(log) \in Nat BY <1>1, LenProperties
  <2>. QED BY <1>1, <1>2, <2>1, AppendProperties
<1>4. /\ size \in 0 .. capacity
      /\ \A i \in 0 .. capacity :
           Ring!Cell(i) = IF start + i < capacity THEN start + i ELSE start + i - capacity
      /\ \A i \in 0 .. capacity - 1 : Ring!Cell(i) \in 0 .. capacity - 1
      /\ \A i, j \in 0 .. capacity - 1 : i # j => Ring!Cell(i) # Ring!Cell(j)
  BY Cells
<1>5. CASE size < capacity
  <2>1. /\ buffer' = [buffer EXCEPT ![Ring!Cell(size)] = next]
        /\ size' = size + 1 /\ start' = start
    BY <1>5 DEF Ring!Add
  <2>2. \A i : Ring!Cell(i)' = Ring!Cell(i)
    BY <1>2, <2>1 DEF Ring!Cell
  <2>3. size \in 0 .. capacity - 1 /\ size = Len(log)
    BY <1>1, <1>4, <1>5
  <2>4. ASSUME NEW i \in 0 .. size' - 1
        PROVE  buffer'[Ring!Cell(i)'] = log'[Len(log') - size' + 1 + i]
    <3>1. i \in 0 .. capacity - 1 /\ Ring!Cell(i) \in 0 .. capacity - 1
      <4>1. size' - 1 = size /\ size \in 0 .. capacity - 1
        BY <2>1, <2>3
      <4>2. i \in 0 .. capacity - 1
        BY <1>1, <4>1
      <4>. QED BY <1>4, <4>2
    <3>2. CASE i = size
      <4>1. buffer'[Ring!Cell(size)] = next
        BY <1>1, <2>1, <3>1, <3>2
      <4>2. Len(log') - size' + 1 + i = Len(log) + 1
        BY <1>3, <2>1, <2>3, <3>2
      <4>. QED BY <1>3, <2>2, <3>2, <4>1, <4>2
    <3>3. CASE i # size
      <4>1. i \in 0 .. size - 1 /\ Ring!Cell(i) # Ring!Cell(size)
        BY <1>4, <2>1, <2>3, <3>1, <3>3
      <4>2. buffer'[Ring!Cell(i)] = log[Len(log) - size + 1 + i]
        BY <1>1, <2>1, <3>1, <4>1
      <4>. QED BY <1>3, <2>1, <2>2, <2>3, <4>1, <4>2
    <3>. QED BY <3>2, <3>3
  <2>5. buffer' \in [0 .. capacity - 1 -> Nat \cup {None}]
    BY <1>1, <2>1
  <2>6. size' = IF Len(log') < capacity' THEN Len(log') ELSE capacity'
    BY <1>1, <1>2, <1>3, <1>4, <2>1, <2>3
  <2>7. /\ capacity' \in Nat /\ capacity' > 0 /\ start' \in 0 .. capacity' - 1
        /\ buffer' \in [0 .. capacity' - 1 -> Nat \cup {None}]
    BY <1>1, <1>2, <2>1, <2>5
  <2>8. log' \in Seq(Nat) /\ next' \in Nat
    BY <1>1, <1>2, <1>3
  <2>. QED BY <2>4, <2>6, <2>7, <2>8 DEF RingInvariant
<1>6. CASE size = capacity
  <2>1. /\ buffer' = [buffer EXCEPT ![start] = next]
        /\ size' = size /\ start' = Ring!Cell(1)
    <3>1. ~(size < capacity) BY <1>1, <1>6
    <3>. QED BY <3>1 DEF Ring!Add
  <2>2. start' \in 0 .. capacity - 1
    <3>1. capacity \in Nat /\ capacity > 0 /\ start \in 0 .. capacity - 1 /\ 1 \in 0 .. capacity
      BY <1>1
    <3>2. start' = IF start + 1 < capacity THEN start + 1 ELSE start + 1 - capacity
      BY <1>4, <2>1, <3>1
    <3>. QED BY <3>1, <3>2
  <2>3. \A i \in 0 .. capacity - 1 : Ring!Cell(i)' = Ring!Cell(i + 1)
    <3>. TAKE i \in 0 .. capacity - 1
    <3>. DEFINE t == IF start + 1 < capacity THEN start + 1 ELSE start + 1 - capacity
    <3>1. capacity \in Nat /\ capacity > 0 /\ start \in 0 .. capacity - 1 /\ 1 \in 0 .. capacity
      BY <1>1
    <3>2. start' = t
      BY <1>4, <2>1, <3>1
    <3>3. t + i \in Nat /\ t + i < capacity + capacity /\ t \in Nat
      BY <3>1
    <3>4. (t + i) % capacity = IF t + i < capacity THEN t + i ELSE t + i - capacity
      <4>. HIDE DEF t
      <4>. QED BY <3>1, <3>3, Wrap
    <3>5. Ring!Cell(i)' = (t + i) % capacity
      BY <1>2, <3>2 DEF Ring!Cell
    <3>6. Ring!Cell(i + 1) = IF start + i + 1 < capacity THEN start + i + 1 ELSE start + i + 1 - capacity
      BY <1>4, <3>1
    <3>. QED BY <3>1, <3>4, <3>5, <3>6
  <2>4. Ring!Cell(capacity) = start /\ Ring!Cell(0) = start
    BY <1>1, <1>4
  <2>5. Len(log) >= capacity
    BY <1>1, <1>3, <1>6
  <2>6. ASSUME NEW i \in 0 .. size' - 1
        PROVE  buffer'[Ring!Cell(i)'] = log'[Len(log') - size' + 1 + i]
    <3>1. i \in 0 .. capacity - 1 /\ Ring!Cell(i)' = Ring!Cell(i + 1)
      BY <1>6, <2>1, <2>3
    <3>2. CASE i = capacity - 1
      <4>1. Ring!Cell(i)' = start
        BY <1>1, <2>4, <3>1, <3>2
      <4>2. Len(log') - size' + 1 + i = Len(log) + 1
        BY <1>1, <1>3, <1>6, <2>1, <3>2
      <4>. QED BY <1>1, <1>3, <2>1, <4>1, <4>2
    <3>3. CASE i # capacity - 1
      <4>1. i + 1 \in 0 .. capacity - 1 /\ 0 \in 0 .. capacity - 1 /\ i + 1 # 0
        BY <1>1, <3>1, <3>3
      <4>2. Ring!Cell(i + 1) # start /\ Ring!Cell(i + 1) \in 0 .. capacity - 1
        BY <1>4, <2>4, <4>1
      <4>3. buffer'[Ring!Cell(i + 1)] = log[Len(log) - size + 1 + (i + 1)]
        BY <1>1, <1>6, <2>1, <4>1, <4>2
      <4>4. Len(log) - size + 1 + (i + 1) \in 1 .. Len(log)
        <5>1. capacity \in Nat /\ Len(log) \in Nat BY <1>1, <1>3
        <5>2. Len(log) - size >= 0 /\ size = capacity BY <1>6, <2>5, <5>1
        <5>. QED BY <4>1, <5>1, <5>2
      <4>5. Len(log') - size' + 1 + i = Len(log) - size + 1 + (i + 1)
        BY <1>3, <1>4, <2>1, <4>1
      <4>. QED BY <1>3, <3>1, <4>3, <4>4, <4>5
    <3>. QED BY <3>2, <3>3
  <2>7. buffer' \in [0 .. capacity - 1 -> Nat \cup {None}]
    BY <1>1, <2>1
  <2>8. size' = IF Len(log') < capacity' THEN Len(log') ELSE capacity'
    BY <1>1, <1>2, <1>3, <1>6, <2>1, <2>5
  <2>9. next' \in Nat /\ log' \in Seq(Nat)
    BY <1>1, <1>2, <1>3
  <2>. QED BY <1>1, <1>2, <2>2, <2>6, <2>7, <2>8, <2>9 DEF RingInvariant
<1>. QED BY <1>1, <1>4, <1>5, <1>6

LEMMA RingInvariantHolds == PartsSpec => []RingInvariant
<1>1. ASSUME RingInvariant, [PartsNext]_allVars PROVE RingInvariant'
  <2>1. CASE Ring!Add
    BY <1>1, <2>1, AddStep
  <2>2. CASE Ring!Clear
    <3>1. /\ capacity' = capacity /\ buffer' = Ring!Blank(capacity) /\ start' = 0 /\ size' = 0
          /\ log' = <<>> /\ next' = next
      BY <2>2 DEF Ring!Clear
    <3>2. buffer' \in [0 .. capacity - 1 -> Nat \cup {None}]
      BY <3>1 DEF Ring!Blank
    <3>3. log' \in Seq(Nat) /\ Len(log') = 0
      BY <3>1
    <3>. QED BY <1>1, <3>1, <3>2, <3>3 DEF RingInvariant
  <2>3. CASE UNCHANGED ringVars
    BY <1>1, <2>3 DEF RingInvariant, ringVars, Ring!Cell
  <2>. QED BY <1>1, <2>1, <2>2, <2>3 DEF PartsNext, Frozen, allVars, Ring!Next
<1>. QED BY <1>1, RingStarts, PTL DEF PartsSpec

\* What the list, the indices, the two ends and the iteration show.
LEMMA ReadsShow == RingInvariant => Ring!TypeOK /\ Ring!ReadsAgree
<1>. SUFFICES ASSUME RingInvariant PROVE Ring!TypeOK /\ Ring!ReadsAgree
  OBVIOUS
<1>. DEFINE n == Len(log)
            kept == SubSeq(log, n - size + 1, n)
<1>1. /\ capacity \in Nat /\ capacity > 0 /\ buffer \in [0 .. capacity - 1 -> Nat \cup {None}]
      /\ start \in 0 .. capacity - 1 /\ log \in Seq(Nat)
      /\ size = IF n < capacity THEN n ELSE capacity
      /\ \A i \in 0 .. size - 1 : buffer[Ring!Cell(i)] = log[n - size + 1 + i]
  BY DEF RingInvariant
<1>2. /\ size \in 0 .. capacity /\ n \in Nat
      /\ \A i \in 0 .. capacity :
           Ring!Cell(i) = IF start + i < capacity THEN start + i ELSE start + i - capacity
      /\ \A i \in 0 .. capacity - 1 : Ring!Cell(i) \in 0 .. capacity - 1
  BY Cells
<1>3. size =< n
  BY <1>1, <1>2
<1>4. /\ kept \in Seq(Nat) /\ Len(kept) = size
      /\ \A i \in 1 .. size : kept[i] = log[n - size + i]
  <2>. HIDE DEF n
  <2>1. n - size + 1 \in 1 .. n + 1 /\ n - size + 1 \in Int /\ n \in Int
    BY <1>2, <1>3
  <2>2. log \in Seq(Nat) /\ n = Len(log)
    BY <1>1 DEF n
  <2>. DEFINE m == n - size + 1
  <2>3. m \in 1 .. Len(log) + 1 /\ n \in m - 1 .. Len(log)
    BY <1>2, <1>3, <2>1, <2>2
  <2>. HIDE DEF m
  <2>4. /\ SubSeq(log, m, n) \in Seq(Nat)
        /\ Len(SubSeq(log, m, n)) = n - m + 1
        /\ \A i \in 1 .. n - m + 1 : SubSeq(log, m, n)[i] = log[m + i - 1]
    BY <2>2, <2>3, SubSeqProperties
  <2>5. n - m + 1 = size /\ kept = SubSeq(log, m, n)
    BY <1>2 DEF m
  <2>6. \A i \in 1 .. size : m + i - 1 = n - size + i
    BY <1>2 DEF m
  <2>. QED BY <2>4, <2>5, <2>6
<1>. HIDE DEF n, kept
<1>5. \A i \in 1 .. size : kept[i] = buffer[Ring!Cell(i - 1)]
  <2>. TAKE i \in 1 .. size
  <2>1. i - 1 \in 0 .. size - 1 /\ n - size + 1 + (i - 1) = n - size + i
    BY <1>2
  <2>. QED BY <1>1, <1>4, <2>1
<1>6. kept = [i \in 1 .. size |-> kept[i]] /\ DOMAIN kept = 1 .. size
  BY <1>4, LenProperties
<1>7. Ring!Iter = kept
  BY <1>5, <1>6 DEF Ring!Iter
<1>8. Ring!ToList = kept
  <2>1. CASE start + size =< capacity
    <3>1. \A i \in 1 .. size : Ring!Cell(i - 1) = start + i - 1
      BY <1>1, <1>2, <2>1
    <3>2. Ring!ToList = [i \in 1 .. (start + size) - start |-> buffer[start + i - 1]]
      <4>1. Ring!ToList = Ring!Slice(start, start + size) BY <2>1 DEF Ring!ToList
      <4>2. Ring!Slice(start, start + size) = [i \in 1 .. (start + size) - start |-> buffer[start + i - 1]]
        <5>1. \A to : Ring!Slice(start, to) = [i \in 1 .. to - start |-> buffer[start + i - 1]]
          BY SliceIs
        <5>. QED BY <5>1
      <4>. QED BY ZenonT(20), <4>1, <4>2
    <3>3. (start + size) - start = size
      BY <1>1, <1>2
    <3>. QED BY <1>5, <1>6, <3>1, <3>2, <3>3
  <2>2. CASE ~(start + size =< capacity)
    <3>. DEFINE a == Ring!Slice(start, capacity)
                b == Ring!Slice(0, Ring!Cell(size))
    <3>1. Ring!ToList = a \o b
      BY <2>2 DEF Ring!ToList
    <3>2. Ring!Cell(size) = start + size - capacity
      BY <1>1, <1>2, <2>2
    <3>3. a = [i \in 1 .. capacity - start |-> buffer[start + i - 1]]
      BY ZenonT(20), SliceIs
    <3>4. b = [i \in 1 .. start + size - capacity |-> buffer[i - 1]]
      <4>1. (start + size - capacity) - 0 = start + size - capacity
        BY <1>1, <1>2
      <4>2. \A i \in 1 .. start + size - capacity : 0 + i - 1 = i - 1
        BY <1>1, <1>2
      <4>3. b = [i \in 1 .. (start + size - capacity) - 0 |-> buffer[0 + i - 1]]
        <5>1. b = [i \in 1 .. Ring!Cell(size) - 0 |-> buffer[0 + i - 1]]
          BY ZenonT(20), SliceIs
        <5>. QED BY Zenon, <3>2, <5>1
      <4>. QED BY <4>1, <4>2, <4>3
    <3>. HIDE DEF a, b
    <3>5. capacity - start \in Nat /\ start + size - capacity \in Nat
      BY <1>1, <1>2, <2>2
    <3>6. a \in Seq(Nat \cup {None}) /\ Len(a) = capacity - start
      <4>1. \A i \in 1 .. capacity - start : buffer[start + i - 1] \in Nat \cup {None}
        BY <1>1, <1>2
      <4>. QED BY <3>3, <3>5, <4>1
    <3>7. b \in Seq(Nat \cup {None}) /\ Len(b) = start + size - capacity
      <4>1. \A i \in 1 .. start + size - capacity : buffer[i - 1] \in Nat \cup {None}
        <5>1. \A i \in 1 .. start + size - capacity : i - 1 \in 0 .. capacity - 1
          BY <1>1, <1>2, <3>5
        <5>. QED BY <1>1, <5>1
      <4>. QED BY <3>4, <3>5, <4>1
    <3>8. Len(a \o b) = size /\ a \o b \in Seq(Nat \cup {None})
      <4>1. Len(a) + Len(b) = size BY <1>1, <1>2, <3>6, <3>7
      <4>. QED BY <3>6, <3>7, <4>1, ConcatProperties
    <3>9. ASSUME NEW i \in 1 .. size PROVE (a \o b)[i] = kept[i]
      <4>1. CASE i =< capacity - start
        <5>1. i \in 1 .. Len(a) /\ Ring!Cell(i - 1) = start + i - 1
          BY <1>1, <1>2, <3>6, <4>1
        <5>2. (a \o b)[i] = a[i]
          BY <3>6, <3>7, <3>8, <5>1, ConcatProperties
        <5>. QED BY <1>5, <3>3, <3>6, <5>1, <5>2
      <4>2. CASE ~(i =< capacity - start)
        <5>1. /\ i - Len(a) \in 1 .. start + size - capacity /\ ~(i =< Len(a))
              /\ Ring!Cell(i - 1) = i - Len(a) - 1
          <6>1. Len(a) = capacity - start /\ i > capacity - start /\ i =< size BY <1>1, <1>2, <3>6, <4>2
          <6>2. start + (i - 1) >= capacity /\ i - 1 \in 0 .. capacity BY <1>1, <1>2, <6>1
          <6>3. Ring!Cell(i - 1) = start + (i - 1) - capacity
            <7>1. capacity \in Nat /\ start \in Nat BY <1>1
            <7>. QED BY <1>2, <6>2, <7>1
          <6>4. capacity \in Nat /\ start \in Nat /\ size \in Nat BY <1>1, <1>2
          <6>. QED BY <6>1, <6>3, <6>4
        <5>2. (a \o b)[i] = b[i - Len(a)]
          <6>1. i \in 1 .. Len(a) + Len(b)
            BY <3>6, <3>7, <3>8, ConcatProperties
          <6>2. \A k \in 1 .. Len(a) + Len(b) :
                  (a \o b)[k] = IF k =< Len(a) THEN a[k] ELSE b[k - Len(a)]
            BY <3>6, <3>7, ConcatProperties
          <6>. QED BY <5>1, <6>1, <6>2
        <5>. QED BY <1>5, <3>4, <5>1, <5>2
      <4>. QED BY <4>1, <4>2
    <3>10. a \o b = [i \in 1 .. size |-> (a \o b)[i]]
      BY <3>8, LenProperties
    <3>. QED BY <1>6, <3>1, <3>9, <3>10
  <2>. QED BY <2>1, <2>2
<1>9. size > 0 => Ring!Oldest = Head(kept) /\ Ring!Newest = Ring!Last(kept)
  <2>. SUFFICES ASSUME size > 0 PROVE Ring!Oldest = Head(kept) /\ Ring!Newest = Ring!Last(kept)
    OBVIOUS
  <2>1. Ring!Cell(0) = start /\ 1 \in 1 .. size /\ size \in 1 .. size /\ 1 - 1 = 0
    BY <1>1, <1>2
  <2>2. Head(kept) = kept[1]
    BY <1>4, <2>1
  <2>3. Ring!Last(kept) = kept[size]
    BY <1>4 DEF Ring!Last
  <2>. QED BY <1>5, <2>1, <2>2, <2>3 DEF Ring!Oldest, Ring!Newest
<1>10. ASSUME NEW i \in 0 .. size - 1
       PROVE  Ring!GetItem(i) = kept[i + 1] /\ Ring!GetItem(i - size) = kept[i + 1]
  <2>1. i >= 0 /\ ~(i - size >= 0) /\ i - size + size = i /\ i + 1 \in 1 .. size /\ i + 1 - 1 = i
    BY <1>2
  <2>. QED BY <1>5, <2>1 DEF Ring!GetItem
<1>11. Ring!TypeOK
  BY <1>1, <1>2 DEF Ring!TypeOK
<1>. QED BY <1>1, <1>7, <1>8, <1>9, <1>10, <1>11 DEF Ring!ReadsAgree, n, kept

\* Every way to read the ring buffer shows the newest elements appended, oldest
\* first (to_list, the index, oldest, newest and the iteration of RingBuffer),
\* whatever was appended and cleared, for any capacity.
THEOREM ReadsAlwaysAgree == PartsSpec => []ReadsAgree
<1>1. RingInvariant => ReadsAgree
  BY ReadsShow DEF ReadsAgree
<1>. QED BY <1>1, RingInvariantHolds, PTL
-----------------------------------------------------------------------------
(***************************************************************************)
(* The client's store.                                                     *)
(***************************************************************************)
LEMMA StoreCounts ==
  \A S : /\ Store!Cardinality(S) = Cardinality(S)
         /\ Store!IsFiniteSet(S) <=> IsFiniteSet(S)
         /\ Store!Max(S) = Max(S)
BY DEF Store!Cardinality, Cardinality, Store!IsFiniteSet, IsFiniteSet, Store!Max, Max

\* The points are in one order, in time first.
LEMMA OlderIsOrder ==
  /\ \A k \in Store!Keys : ~Store!Older(k, k)
  /\ \A i, j, k \in Store!Keys : Store!Older(i, j) /\ Store!Older(j, k) => Store!Older(i, k)
  /\ \A j, k \in Store!Keys : Store!Older(j, k) \/ Store!Older(k, j) \/ j = k
  /\ \A j, k \in Store!Keys : Store!Older(j, k) => Store!Time(j) =< Store!Time(k)
  /\ \A k \in Store!Keys : Store!Time(k) \in Int /\ Store!Time(k) \in Times
<1>1. Metrics \subseteq Int /\ Times \subseteq Int
  BY MarketDataAssumption DEF Store!StoreAssumption
<1>2. \A k \in Store!Keys : k[1] \in Int /\ k[2] \in Int /\ k[2] \in Times /\ k = <<k[1], k[2]>>
  <2>1. \A k \in Metrics \X Times : k[1] \in Metrics /\ k[2] \in Times /\ k = <<k[1], k[2]>>
    OBVIOUS
  <2>2. Store!Keys = Metrics \X Times
    BY DEF Store!Keys
  <2>. QED BY <1>1, <2>1, <2>2
<1>3. \A j, k \in Store!Keys : j[1] = k[1] /\ j[2] = k[2] => j = k
  BY <1>2
<1>. QED BY <1>2, <1>3 DEF Store!Older, Store!Time

\* What prune keeps is within the capacity and the window, and nothing it drops
\* is newer than anything it keeps.
LEMMA KeptIs ==
  ASSUME NEW K \in SUBSET Store!Keys, IsFiniteSet(K), NEW now \in Int
  PROVE  /\ Store!Kept(K, now) \in SUBSET K /\ IsFiniteSet(Store!Kept(K, now))
         /\ Cardinality(Store!Kept(K, now)) =< MaxRecords
         /\ \A k \in Store!Kept(K, now) : Store!Time(k) >= now - Retention
         /\ \A k \in K \ Store!Kept(K, now), j \in Store!Kept(K, now) :
              Store!Time(k) =< Store!Time(j)
         /\ \A m \in K : (\A k \in K : Store!Time(k) =< Store!Time(m))
                            /\ Store!Kept(K, now) # {}
                         => \E k \in Store!Kept(K, now) : Store!Time(k) = Store!Time(m)
<1>. DEFINE W == {k \in K : Store!Time(k) >= now - Retention}
            Newer(k) == {j \in W : Store!Older(k, j)}
            P == {k \in W : Cardinality(Newer(k)) < MaxRecords}
<1>0. MaxRecords \in Nat /\ Retention \in Nat
  BY MarketDataAssumption DEF Store!StoreAssumption
<1>1. Store!Kept(K, now) = P
  <2>1. Store!Kept(K, now) = {k \in W : Store!Cardinality(Newer(k)) < MaxRecords}
    BY DEF Store!Kept
  <2>2. \A k : Store!Cardinality(Newer(k)) = Cardinality(Newer(k))
    BY StoreCounts
  <2>. HIDE DEF W, Newer
  <2>. QED BY <2>1, <2>2
<1>2. /\ W \in SUBSET K /\ P \in SUBSET W /\ P \in SUBSET K
      /\ \A k \in W : k \in Store!Keys /\ Newer(k) \in SUBSET W
  OBVIOUS
<1>3. IsFiniteSet(W) /\ IsFiniteSet(P) /\ Cardinality(P) \in Nat
  <2>. HIDE DEF W, P
  <2>. QED BY <1>2, FS_Subset, FS_CardinalityType
<1>4. \A k \in W : IsFiniteSet(Newer(k)) /\ Cardinality(Newer(k)) \in Nat
  <2>. HIDE DEF Newer, W
  <2>. QED BY <1>2, <1>3, FS_Subset, FS_CardinalityType
<1>5. ASSUME NEW k \in P, NEW j \in W, Store!Older(k, j) PROVE j \in P
  <2>1. Newer(j) \subseteq Newer(k)
    BY <1>2, <1>5, OlderIsOrder
  <2>2. Cardinality(Newer(j)) =< Cardinality(Newer(k))
    <3>. HIDE DEF Newer
    <3>. QED BY <1>2, <1>4, <2>1, FS_Subset
  <2>3. Cardinality(Newer(k)) < MaxRecords
    BY <1>5
  <2>4. Cardinality(Newer(j)) < MaxRecords
    <3>1. k \in W
      BY <1>2
    <3>. HIDE DEF W, P, Newer
    <3>. QED BY <1>0, <1>4, <1>5, <2>2, <2>3, <3>1
  <2>. HIDE DEF W, Newer
  <2>. QED BY <1>5, <2>4
<1>6. Cardinality(P) =< MaxRecords
  <2>1. CASE P = {}
    <3>1. Cardinality(P) = 0
      BY <2>1, FS_EmptySet
    <3>. QED BY <1>0, <3>1
  <2>2. CASE P # {}
    <3>. DEFINE R == {p \in P \X P : Store!Older(p[1], p[2])}
    <3>1. /\ \A x \in P : <<x, x>> \notin R
          /\ \A x, y, z \in P : <<x, y>> \in R /\ <<y, z>> \in R => <<x, z>> \in R
          /\ \A x, y \in P : <<x, y>> \in R <=> Store!Older(x, y)
      <4>. HIDE DEF P
      <4>. QED BY <1>2, OlderIsOrder
    <3>2. PICK m \in P : \A y \in P : <<y, m>> \notin R
      <4>. HIDE DEF P, R
      <4>. QED BY <1>3, <2>2, <3>1, First
    <3>3. P \ {m} \subseteq Newer(m)
      <4>1. ASSUME NEW y \in P \ {m} PROVE y \in W /\ Store!Older(m, y)
        <5>1. ~Store!Older(y, m)
          BY <3>1, <3>2
        <5>. QED BY <1>2, <5>1, OlderIsOrder
      <4>. QED BY <4>1
    <3>4. Cardinality(P \ {m}) =< Cardinality(Newer(m)) /\ Cardinality(P \ {m}) = Cardinality(P) - 1
      <4>. HIDE DEF P, Newer
      <4>. QED BY <1>2, <1>3, <1>4, <3>3, FS_Subset, FS_RemoveElement
    <3>5. Cardinality(Newer(m)) < MaxRecords /\ Cardinality(Newer(m)) \in Nat
      BY <1>2, <1>4
    <3>. HIDE DEF P, Newer
    <3>. QED BY <1>0, <1>3, <3>4, <3>5
  <2>. QED BY <2>1, <2>2
<1>7. ASSUME NEW k \in K \ P, NEW j \in P PROVE Store!Time(k) =< Store!Time(j)
  <2>1. /\ Store!Time(j) >= now - Retention /\ Store!Time(j) \in Int /\ Store!Time(k) \in Int
        /\ j \in Store!Keys /\ k \in Store!Keys /\ j # k
    BY <1>7, OlderIsOrder
  <2>2. CASE k \in W
    <3>1. ~Store!Older(j, k)
      <4>. HIDE DEF W, P
      <4>. QED BY <1>5, <1>7, <2>2
    <3>. QED BY <2>1, <3>1, OlderIsOrder
  <2>3. CASE k \notin W
    <3>1. ~(Store!Time(k) >= now - Retention)
      BY <1>7, <2>3
    <3>. QED BY <1>0, <2>1, <3>1
  <2>. QED BY <2>2, <2>3
<1>8. ASSUME NEW m \in K, \A k \in K : Store!Time(k) =< Store!Time(m), P # {}
      PROVE  \E k \in P : Store!Time(k) = Store!Time(m)
  <2>1. PICK j \in P : TRUE
    BY <1>8
  <2>2. /\ j \in K /\ j \in Store!Keys /\ m \in Store!Keys
        /\ Store!Time(j) \in Int /\ Store!Time(m) \in Int /\ Store!Time(j) =< Store!Time(m)
        /\ Store!Time(j) >= now - Retention
    BY <1>8, OlderIsOrder
  <2>3. m \in W
    BY <1>0, <2>2
  <2>4. CASE Store!Older(j, m)
    <3>1. m \in P
      <4>. HIDE DEF W, P
      <4>. QED BY <1>5, <2>3, <2>4
    <3>. QED BY <3>1
  <2>5. CASE ~Store!Older(j, m)
    <3>1. Store!Time(m) =< Store!Time(j)
      BY <2>2, <2>5, OlderIsOrder
    <3>2. Store!Time(j) = Store!Time(m)
      BY <2>2, <3>1
    <3>. HIDE DEF P
    <3>. QED BY <2>1, <3>2
  <2>. QED BY <2>4, <2>5
<1>9. \A k \in P : Store!Time(k) >= now - Retention
  OBVIOUS
<1>. HIDE DEF P, W
<1>. QED BY <1>1, <1>2, <1>3, <1>6, <1>7, <1>8, <1>9

StoreInvariant ==
  /\ records \in [DOMAIN records -> Points] /\ DOMAIN records \in SUBSET Store!Keys
  /\ IsFiniteSet(DOMAIN records) /\ Cardinality(DOMAIN records) =< MaxRecords
  /\ DOMAIN records = {} => latest = None
  /\ DOMAIN records # {} => \E k \in DOMAIN records : latest = Store!Time(k)
  /\ \A k \in DOMAIN records :
       Store!Time(k) =< latest /\ Store!Time(k) >= latest - Retention

LEMMA StoreStarts == PartsInit => StoreInvariant
<1>1. ASSUME PartsInit PROVE StoreInvariant
  <2>1. records = <<>> /\ latest = None
    BY <1>1 DEF PartsInit, Store!Init
  <2>2. DOMAIN records = {} /\ records \in [DOMAIN records -> Points]
    BY <2>1
  <2>3. MaxRecords \in Nat
    BY MarketDataAssumption DEF Store!StoreAssumption
  <2>. QED BY <2>1, <2>2, <2>3, FS_EmptySet DEF StoreInvariant
<1>. QED BY <1>1

\* One prune of any finite set of records whose newest time is top.
LEMMA PruneKeeps ==
  ASSUME NEW recs, NEW top \in Int, NEW now \in Int,
         recs \in [DOMAIN recs -> Points], DOMAIN recs \in SUBSET Store!Keys,
         IsFiniteSet(DOMAIN recs),
         DOMAIN recs # {} => \E k \in DOMAIN recs : top = Store!Time(k),
         \A k \in DOMAIN recs : Store!Time(k) =< top,
         \A k \in DOMAIN recs :
           Store!Time(k) >= now - Retention => Store!Time(k) >= top - Retention,
         Store!PruneTo(recs, now, top)
  PROVE  /\ StoreInvariant'
         /\ \A k \in DOMAIN recs \ DOMAIN records', j \in DOMAIN records' :
              Store!Time(k) =< Store!Time(j)
<1>. DEFINE K == DOMAIN recs
            P == Store!Kept(K, now)
<1>1. /\ P \in SUBSET K /\ IsFiniteSet(P) /\ Cardinality(P) =< MaxRecords
      /\ \A k \in P : Store!Time(k) >= now - Retention
      /\ \A k \in K \ P, j \in P : Store!Time(k) =< Store!Time(j)
      /\ \A m \in K : (\A k \in K : Store!Time(k) =< Store!Time(m)) /\ P # {}
                         => \E k \in P : Store!Time(k) = Store!Time(m)
  <2>. HIDE DEF K
  <2>1. K \in SUBSET Store!Keys /\ IsFiniteSet(K)
    BY DEF K
  <2>. QED BY <2>1, KeptIs
<1>2. /\ records' = [k \in P |-> recs[k]]
      /\ latest' = IF P = {} THEN None ELSE top
  BY DEF Store!PruneTo
<1>. HIDE DEF P
<1>3. DOMAIN records' = P /\ records' \in [P -> Points]
  BY <1>1, <1>2
<1>4. P # {} => \E k \in P : top = Store!Time(k)
  BY <1>1
<1>5. \A k \in P : Store!Time(k) =< top /\ Store!Time(k) >= top - Retention
  BY <1>1
<1>. QED BY <1>1, <1>2, <1>3, <1>4, <1>5 DEF StoreInvariant, Store!Time

\* The latest timestamp after a batch.
LEMMA LatestIs ==
  ASSUME StoreInvariant, NEW b \in Store!Batches
  PROVE  LET top == Store!NewLatest(b)
         IN  /\ top \in Int
             /\ \A k \in DOMAIN b \cup DOMAIN records : Store!Time(k) =< top
             /\ \E k \in DOMAIN b \cup DOMAIN records : Store!Time(k) = top
             /\ DOMAIN b \in SUBSET Store!Keys /\ IsFiniteSet(DOMAIN b)
             /\ b \in [DOMAIN b -> Points]
<1>1. PICK B \in SUBSET Store!Keys :
        IsFiniteSet(B) /\ Cardinality(B) \in 1 .. MaxBatch /\ b \in [B -> Points]
  <2>1. \A S : Store!Cardinality(S) = Cardinality(S) /\ (Store!IsFiniteSet(S) <=> IsFiniteSet(S))
    BY StoreCounts
  <2>2. PICK B \in {S \in SUBSET Store!Keys :
                      Store!IsFiniteSet(S) /\ Store!Cardinality(S) \in 1 .. MaxBatch} :
          b \in [B -> Points]
    BY DEF Store!Batches
  <2>. QED BY <2>1, <2>2
<1>2. DOMAIN b = B /\ B # {}
  <2>1. Cardinality(B) # 0
    BY <1>1
  <2>. QED BY <1>1, <2>1, FS_EmptySet
<1>. DEFINE T == {Store!Time(k) : k \in DOMAIN b}
            S == T \cup (IF latest = None THEN {} ELSE {latest})
<1>3. latest # None => latest \in Int /\ \E k \in DOMAIN records : Store!Time(k) = latest
  <2>1. ASSUME latest # None
        PROVE  latest \in Int /\ \E k \in DOMAIN records : Store!Time(k) = latest
    <3>1. PICK k \in DOMAIN records : latest = Store!Time(k)
      BY <2>1 DEF StoreInvariant
    <3>2. k \in Store!Keys
      BY <3>1 DEF StoreInvariant
    <3>. QED BY <3>1, <3>2, OlderIsOrder
  <2>. QED BY <2>1
<1>4. T \in SUBSET Int /\ T # {} /\ IsFiniteSet(T)
  <2>1. T \in SUBSET Int /\ T # {}
    BY <1>1, <1>2, OlderIsOrder
  <2>2. IsFiniteSet({Store!Time(k) : k \in B})
    <3>1. \E f : f = [k \in B |-> Store!Time(k)] OBVIOUS
    <3>2. PICK f : f = [k \in B |-> Store!Time(k)] BY <3>1
    <3>3. f \in Surjection(B, {Store!Time(k) : k \in B})
      BY <3>2 DEF Surjection
    <3>. QED BY <1>1, <3>3, FS_Surjection
  <2>. QED BY <1>2, <2>1, <2>2
<1>5. S \in SUBSET Int /\ S # {} /\ IsFiniteSet(S)
  <2>1. IsFiniteSet({}) /\ IsFiniteSet({latest})
    BY FS_EmptySet, FS_Singleton
  <2>2. IsFiniteSet(S)
    <3>. HIDE DEF T
    <3>. QED BY <1>4, <2>1, FS_Union
  <2>. QED BY <1>3, <1>4, <2>2
<1>6. PICK m \in S : \A x \in S : x =< m
  <2>. HIDE DEF S
  <2>. QED BY <1>5, Greatest
<1>7. Store!NewLatest(b) = m
  <2>1. Store!NewLatest(b) = Max(S)
    BY StoreCounts DEF Store!NewLatest
  <2>2. m \in Int /\ \A x \in S : m >= x
    BY <1>5, <1>6
  <2>3. Max(S) = m
    <3>. HIDE DEF S
    <3>. QED BY <1>5, <1>6, <2>2, Extreme
  <2>. QED BY <2>1, <2>3
<1>8. \A k \in DOMAIN b \cup DOMAIN records : Store!Time(k) =< m
  <2>1. \A k \in DOMAIN b : Store!Time(k) \in S
    OBVIOUS
  <2>2. ASSUME NEW k \in DOMAIN records PROVE Store!Time(k) =< m
    <3>1. latest # None /\ Store!Time(k) =< latest /\ Store!Time(k) \in Int
      <4>1. PICK j \in DOMAIN records : latest = Store!Time(j)
        BY <2>2 DEF StoreInvariant
      <4>2. None \notin Times
        BY MarketDataAssumption DEF Store!StoreAssumption
      <4>. QED BY <2>2, <4>1, <4>2, OlderIsOrder DEF StoreInvariant
    <3>2. latest \in S /\ m \in Int /\ latest \in Int
      BY <1>3, <1>5, <1>6, <3>1
    <3>3. latest =< m
      BY <1>6, <3>2
    <3>. HIDE DEF S
    <3>. QED BY <3>1, <3>2, <3>3
  <2>. QED BY <1>6, <2>1, <2>2
<1>9. \E k \in DOMAIN b \cup DOMAIN records : Store!Time(k) = m
  BY <1>3, <1>6
<1>10. m \in Int
  BY <1>5, <1>6
<1>. HIDE DEF S, T
<1>. QED BY <1>1, <1>2, <1>7, <1>8, <1>9, <1>10

Dropped ==
  \A k \in DOMAIN records \ DOMAIN records', j \in DOMAIN records' : Store!Time(k) =< Store!Time(j)

LEMMA WriteKeeps ==
  ASSUME StoreInvariant, NEW b \in Store!Batches, Store!WriteBatch(b)
  PROVE  StoreInvariant' /\ Dropped
<1>. DEFINE top == Store!NewLatest(b)
            recs == Store!Put(b, records)
<1>1. /\ top \in Int
      /\ \A k \in DOMAIN b \cup DOMAIN records : Store!Time(k) =< top
      /\ \E k \in DOMAIN b \cup DOMAIN records : Store!Time(k) = top
      /\ DOMAIN b \in SUBSET Store!Keys /\ IsFiniteSet(DOMAIN b)
      /\ b \in [DOMAIN b -> Points]
  BY LatestIs
<1>2. /\ records \in [DOMAIN records -> Points] /\ DOMAIN records \in SUBSET Store!Keys
      /\ IsFiniteSet(DOMAIN records)
  BY DEF StoreInvariant
<1>3. DOMAIN recs = DOMAIN b \cup DOMAIN records /\ recs \in [DOMAIN recs -> Points]
  BY <1>1, <1>2 DEF Store!Put
<1>4. Store!PruneTo(recs, top, top)
  BY DEF Store!WriteBatch
<1>. HIDE DEF recs, top
<1>5. IsFiniteSet(DOMAIN recs) /\ DOMAIN recs \in SUBSET Store!Keys
  <2>1. IsFiniteSet(DOMAIN b \cup DOMAIN records)
    BY <1>1, <1>2, FS_Union
  <2>. QED BY <1>1, <1>2, <1>3, <2>1
<1>6. /\ StoreInvariant'
      /\ \A k \in DOMAIN recs \ DOMAIN records', j \in DOMAIN records' :
           Store!Time(k) =< Store!Time(j)
  BY <1>1, <1>3, <1>4, <1>5, PruneKeeps
<1>. QED BY <1>3, <1>6 DEF Dropped

LEMMA StoreStep ==
  ASSUME StoreInvariant, Store!Next
  PROVE  StoreInvariant' /\ Dropped
<1>1. ASSUME NEW b \in Store!Batches, Store!WriteBatch(b) PROVE StoreInvariant' /\ Dropped
  BY <1>1, WriteKeeps
<1>2. ASSUME NEW now \in Times, Store!Prune(now) PROVE StoreInvariant' /\ Dropped
  <2>1. /\ records \in [DOMAIN records -> Points] /\ DOMAIN records \in SUBSET Store!Keys
        /\ IsFiniteSet(DOMAIN records) /\ now \in Int
    BY <1>2, MarketDataAssumption DEF StoreInvariant, Store!StoreAssumption
  <2>2. CASE DOMAIN records # {}
    <3>1. latest \in Int
      BY <2>2, OlderIsOrder DEF StoreInvariant
    <3>2. Store!PruneTo(records, now, latest)
      BY <1>2 DEF Store!Prune
    <3>3. /\ \E k \in DOMAIN records : latest = Store!Time(k)
          /\ \A k \in DOMAIN records :
               Store!Time(k) =< latest /\ Store!Time(k) >= latest - Retention
      BY <2>2 DEF StoreInvariant
    <3>. QED BY <2>1, <2>2, <3>1, <3>2, <3>3, PruneKeeps DEF Dropped
  <2>3. CASE DOMAIN records = {}
    <3>1. Store!Kept({}, now) = {}
      BY DEF Store!Kept
    <3>2. records' = [k \in {} |-> records[k]] /\ latest' = None
      BY <1>2, <2>3, <3>1 DEF Store!Prune, Store!PruneTo
    <3>3. DOMAIN records' = {} /\ records' \in [DOMAIN records' -> Points]
      BY <3>2
    <3>4. MaxRecords \in Nat
      BY MarketDataAssumption DEF Store!StoreAssumption
    <3>. QED BY <3>2, <3>3, <3>4, FS_EmptySet DEF StoreInvariant, Dropped
  <2>. QED BY <2>2, <2>3
<1>3. ASSUME Store!Clear PROVE StoreInvariant' /\ Dropped
  <2>1. records' = <<>> /\ latest' = None
    BY <1>3 DEF Store!Clear
  <2>2. DOMAIN records' = {} /\ records' \in [DOMAIN records' -> Points]
    BY <2>1
  <2>3. MaxRecords \in Nat
    BY MarketDataAssumption DEF Store!StoreAssumption
  <2>. QED BY <2>1, <2>2, <2>3, FS_EmptySet DEF StoreInvariant, Dropped
<1>. QED BY <1>1, <1>2, <1>3 DEF Store!Next, Store!QueryAndFetch

LEMMA StoreSame ==
  ASSUME StoreInvariant, UNCHANGED storeVars
  PROVE  StoreInvariant'
BY DEF StoreInvariant, storeVars, Store!Time

LEMMA StoreInvariantHolds == PartsSpec => []StoreInvariant
<1>1. ASSUME StoreInvariant, [PartsNext]_allVars PROVE StoreInvariant'
  BY <1>1, StoreStep, StoreSame DEF PartsNext, Frozen, allVars
<1>. QED BY <1>1, StoreStarts, PTL DEF PartsSpec

LEMMA StoreIsWithin == StoreInvariant => Store!WithinLimits
<1>. SUFFICES ASSUME StoreInvariant PROVE Store!WithinLimits
  OBVIOUS
<1>1. /\ records \in [DOMAIN records -> Points] /\ DOMAIN records \in SUBSET Store!Keys
      /\ IsFiniteSet(DOMAIN records) /\ Cardinality(DOMAIN records) =< MaxRecords
      /\ \A k \in DOMAIN records :
           Store!Time(k) =< latest /\ Store!Time(k) >= latest - Retention
  BY DEF StoreInvariant
<1>2. records = <<>> <=> DOMAIN records = {}
  BY <1>1
<1>3. Store!TypeOK
  <2>1. latest \in Times \cup {None}
    <3>1. CASE DOMAIN records = {}
      BY <3>1 DEF StoreInvariant
    <3>2. CASE DOMAIN records # {}
      <4>1. PICK k \in DOMAIN records : latest = Store!Time(k)
        BY <3>2 DEF StoreInvariant
      <4>2. k \in Store!Keys
        BY <1>1
      <4>. QED BY <4>1, <4>2, OlderIsOrder
    <3>. QED BY <3>1, <3>2
  <2>2. \A k \in DOMAIN records : records[k] \in Points
    BY <1>1
  <2>. QED BY <1>1, <2>1, <2>2 DEF Store!TypeOK
<1>4. latest = IF records = <<>> THEN None ELSE Store!Max({Store!Time(k) : k \in DOMAIN records})
  <2>1. CASE DOMAIN records = {}
    BY <1>2, <2>1 DEF StoreInvariant
  <2>2. CASE DOMAIN records # {}
    <3>. DEFINE S == {Store!Time(k) : k \in DOMAIN records}
    <3>1. S \in SUBSET Int /\ latest \in S
      BY <1>1, <2>2, OlderIsOrder DEF StoreInvariant
    <3>2. \A x \in S : latest >= x
      BY <1>1, <3>1
    <3>. HIDE DEF S
    <3>3. Max(S) = latest
      BY <3>1, <3>2, Extreme
    <3>. QED BY <1>2, <2>2, <3>3, StoreCounts DEF S
  <2>. QED BY <2>1, <2>2
<1>. QED BY <1>1, <1>3, <1>4, StoreCounts DEF Store!WithinLimits

\* After every call the client's store is within its capacity and its window and
\* knows its newest time, and no write, fetch or prune drops a point and keeps an
\* older one (TimeSeriesStore.write_batch, query and prune), for any metrics,
\* times, limits and batches.
THEOREM StoreIsAlwaysNewest == PartsSpec => StoreIsNewest
<1>1. ASSUME StoreInvariant, [PartsNext]_allVars
      PROVE  [Dropped]_Store!vars
  BY <1>1, StoreStep DEF PartsNext, Frozen, allVars, storeVars, Store!vars
<1>2. StoreInvariant => (part = "store" => Store!WithinLimits)
  BY StoreIsWithin
<1>. QED BY <1>1, <1>2, StoreInvariantHolds, PTL DEF PartsSpec, StoreIsNewest, Store!EvictsOldest, Dropped
-----------------------------------------------------------------------------
(***************************************************************************)
(* Sums: what the library's fold of a sequence adds up to.  A fold is      *)
(* taken over sets of indices, the greatest last.                          *)
(***************************************************************************)
Sums(f, b, w, n) ==
  f = [x \in SUBSET (1 .. n) |-> IF x = {} THEN b ELSE f[x \ {Max(x)}] + w[Max(x)]]

\* The base and the first n weights, added up.
Total(b, w, n) == (CHOOSE f : Sums(f, b, w, n))[1 .. n]

LEMMA GreatestIndex ==
  ASSUME NEW n \in Nat, NEW x \in SUBSET (1 .. n), n \in x
  PROVE  Max(x) = n
<1>1. x \in SUBSET Int /\ \A p \in x : n >= p
  OBVIOUS
<1>. QED BY <1>1, Extreme

LEMMA SumExists ==
  ASSUME NEW b, NEW w, NEW n \in Nat
  PROVE  \E f : Sums(f, b, w, n)
<1>. DEFINE T == {k \in Nat : ~\E f : Sums(f, b, w, k)}
<1>. SUFFICES ASSUME T # {} PROVE FALSE
  OBVIOUS
<1>1. PICK k \in T : \A m \in T : k =< m
  BY Least
<1>2. CASE k = 0
  <2>. DEFINE f == [x \in SUBSET (1 .. k) |-> b]
  <2>1. \A x \in SUBSET (1 .. k) : x = {}
    BY <1>2
  <2>2. Sums(f, b, w, k)
    BY <2>1 DEF Sums
  <2>. QED BY <2>2
<1>3. CASE k # 0
  <2>1. k - 1 \in Nat /\ k \in Nat /\ k - 1 \notin T
    BY <1>1, <1>3
  <2>2. PICK f : Sums(f, b, w, k - 1)
    BY <2>1
  <2>. DEFINE g == [x \in SUBSET (1 .. k) |-> IF k \in x THEN f[x \ {k}] + w[k] ELSE f[x]]
  <2>3. ASSUME NEW x \in SUBSET (1 .. k)
        PROVE  g[x] = IF x = {} THEN b ELSE g[x \ {Max(x)}] + w[Max(x)]
    <3>1. CASE k \in x
      <4>1. Max(x) = k
        BY <2>1, <3>1, GreatestIndex
      <4>2. x \ {k} \in SUBSET (1 .. k) /\ k \notin x \ {k} /\ x # {}
        BY <3>1
      <4>. QED BY <3>1, <4>1, <4>2
    <3>2. CASE k \notin x
      <4>1. x \in SUBSET (1 .. (k - 1)) /\ x \ {Max(x)} \in SUBSET (1 .. k) /\ k \notin x \ {Max(x)}
        <5>1. ASSUME NEW i \in x PROVE i \in 1 .. (k - 1)
          <6>1. i \in 1 .. k /\ i # k
            BY <3>2
          <6>. QED BY <2>1, <6>1
        <5>. QED BY <3>2, <5>1
      <4>2. f[x] = IF x = {} THEN b ELSE f[x \ {Max(x)}] + w[Max(x)]
        BY <2>2, <4>1 DEF Sums
      <4>. QED BY <3>2, <4>1, <4>2
    <3>. QED BY <3>1, <3>2
  <2>4. Sums(g, b, w, k)
    BY <2>3 DEF Sums
  <2>. QED BY <2>4
<1>. QED BY <1>2, <1>3

LEMMA SumSteps ==
  ASSUME NEW f, NEW b, NEW w, NEW n \in Nat, Sums(f, b, w, n)
  PROVE  /\ f[1 .. 0] = b
         /\ \A k \in 1 .. n : f[1 .. k] = f[1 .. (k - 1)] + w[k]
<1>1. \A x \in SUBSET (1 .. n) : f[x] = IF x = {} THEN b ELSE f[x \ {Max(x)}] + w[Max(x)]
  BY DEF Sums
<1>2. 1 .. 0 = {}
  OBVIOUS
<1>3. ASSUME NEW k \in 1 .. n PROVE f[1 .. k] = f[1 .. (k - 1)] + w[k]
  <2>1. k \in Nat /\ 1 .. k \in SUBSET (1 .. n) /\ k \in 1 .. k /\ 1 .. k # {}
    OBVIOUS
  <2>2. Max(1 .. k) = k
    BY <2>1, GreatestIndex
  <2>3. (1 .. k) \ {k} = 1 .. (k - 1)
    OBVIOUS
  <2>. QED BY <1>1, <2>1, <2>2, <2>3
<1>. QED BY <1>1, <1>2, <1>3

LEMMA SumsAgree ==
  ASSUME NEW b, NEW w, NEW v, NEW n \in Nat, \A i \in 1 .. n : w[i] = v[i],
         NEW f, Sums(f, b, w, n), NEW m \in Nat, n =< m, NEW g, Sums(g, b, v, m)
  PROVE  f[1 .. n] = g[1 .. n]
<1>. DEFINE T == {k \in Nat : k =< n /\ f[1 .. k] # g[1 .. k]}
<1>. SUFFICES ASSUME T # {} PROVE FALSE
  OBVIOUS
<1>1. PICK k \in T : \A j \in T : k =< j
  BY Least
<1>2. k # 0
  BY SumSteps
<1>3. k \in 1 .. n /\ k \in 1 .. m /\ k - 1 \in Nat /\ k - 1 =< n /\ k - 1 \notin T
  BY <1>1, <1>2
<1>4. f[1 .. (k - 1)] = g[1 .. (k - 1)]
  BY <1>3
<1>5. f[1 .. k] = g[1 .. k]
  BY <1>3, <1>4, SumSteps
<1>. QED BY <1>5

LEMMA TotalSums ==
  ASSUME NEW f, NEW b, NEW w, NEW n \in Nat, Sums(f, b, w, n)
  PROVE  Total(b, w, n) = f[1 .. n]
<1>1. Sums(CHOOSE g : Sums(g, b, w, n), b, w, n)
  OBVIOUS
<1>2. n =< n
  OBVIOUS
<1>. QED BY <1>1, <1>2, SumsAgree DEF Total

LEMMA TotalNone ==
  ASSUME NEW b, NEW w
  PROVE  Total(b, w, 0) = b
<1>1. PICK z : Sums(z, b, w, 0)
  BY SumExists
<1>2. Total(b, w, 0) = z[1 .. 0]
  BY <1>1, TotalSums
<1>. QED BY <1>1, <1>2, SumSteps

\* One weight more.
LEMMA TotalMore ==
  \A b, w, v : \A n \in Nat :
    (\A i \in 1 .. n : w[i] = v[i]) => Total(b, v, n + 1) = Total(b, w, n) + v[n + 1]
<1>. SUFFICES ASSUME NEW b, NEW w, NEW v, NEW n \in Nat, \A i \in 1 .. n : w[i] = v[i]
              PROVE  Total(b, v, n + 1) = Total(b, w, n) + v[n + 1]
  OBVIOUS
<1>1. PICK f : Sums(f, b, w, n)
  BY SumExists
<1>. DEFINE m == n + 1
<1>2. m \in Nat /\ n =< m /\ m \in 1 .. m /\ m - 1 = n
  OBVIOUS
<1>. HIDE DEF m
<1>3. PICK h : Sums(h, b, v, m)
  BY <1>2, SumExists
<1>4. Total(b, w, n) = f[1 .. n]
  BY <1>1, TotalSums
<1>5. Total(b, v, m) = h[1 .. m]
  BY <1>2, <1>3, TotalSums
<1>6. f[1 .. n] = h[1 .. n]
  <2>1. ASSUME NEW k \in Nat, n =< k, Sums(h, b, v, k)
        PROVE  f[1 .. n] = h[1 .. n]
    BY <1>1, <2>1, SumsAgree
  <2>. QED BY <1>2, <1>3, <2>1
<1>7. h[1 .. m] = h[1 .. (m - 1)] + v[m]
  BY <1>2, <1>3, SumSteps
<1>. QED BY <1>2, <1>4, <1>5, <1>6, <1>7 DEF m

\* Weights that are numbers add up to a number, and none to nothing.
LEMMA TotalType ==
  ASSUME NEW b \in Int, NEW w, NEW n \in Nat, \A i \in 1 .. n : w[i] \in Int
  PROVE  /\ Total(b, w, n) \in Int
         /\ (\A i \in 1 .. n : w[i] = 0) => Total(b, w, n) = b
<1>. DEFINE T == {k \in Nat : k =< n /\ ~(Total(b, w, k) \in Int /\ ((\A i \in 1 .. n : w[i] = 0) => Total(b, w, k) = b))}
<1>1. T = {}
  <2>. SUFFICES ASSUME T # {} PROVE FALSE
    OBVIOUS
  <2>1. PICK k \in T : \A j \in T : k =< j
    BY Least
  <2>2. k # 0
    BY TotalNone
  <2>3. k \in 1 .. n /\ k - 1 \in Nat /\ k - 1 =< n /\ k - 1 \notin T /\ (k - 1) + 1 = k
    BY <2>1, <2>2
  <2>4. Total(b, w, k) = Total(b, w, k - 1) + w[k]
    <3>. DEFINE j == k - 1
    <3>1. j \in Nat /\ j + 1 = k
      BY <2>3
    <3>. HIDE DEF j
    <3>2. Total(b, w, j + 1) = Total(b, w, j) + w[j + 1]
      <4>1. j \in Nat
        BY <3>1
      <4>. QED BY <4>1, TotalMore
    <3>. QED BY <3>1, <3>2 DEF j
  <2>. QED BY <2>3, <2>4
<1>2. n \notin T
  BY <1>1
<1>. QED BY <1>2
-----------------------------------------------------------------------------
(***************************************************************************)
(* Bars from trades.                                                       *)
(***************************************************************************)
Arriving == [time : TradeTimes, price : TradePrices, volume : Volumes]
BarRecord == [Trading!Fields -> Int]

LEMMA TradingAssumptions ==
  /\ Interval \in Nat \ {0} /\ None \notin BarRecord
  /\ Arriving \subseteq [time : Int, price : Int, volume : Int]
BY MarketDataAssumption DEF Trading!BarsAssumption, Arriving, BarRecord

\* A time is in the window that ends next after it, and the windows are ordered
\* as the times are.
LEMMA Windows ==
  ASSUME NEW a \in Int, NEW c \in Int
  PROVE  /\ Trading!WindowEnd(a) \in Int /\ a < Trading!WindowEnd(a)
         /\ a =< c => Trading!WindowEnd(a) =< Trading!WindowEnd(c)
         /\ a =< c /\ c < Trading!WindowEnd(a) => Trading!WindowEnd(c) = Trading!WindowEnd(a)
         /\ c >= Trading!WindowEnd(a) => Trading!WindowEnd(c) > Trading!WindowEnd(a)
<1>. DEFINE p == a \div Interval
            q == c \div Interval
<1>1. Interval \in Nat \ {0}
  BY TradingAssumptions
<1>2. /\ p \in Int /\ p * Interval =< a /\ a < p * Interval + Interval
      /\ q \in Int /\ q * Interval =< c /\ c < q * Interval + Interval
  BY <1>1
<1>3. /\ Trading!WindowEnd(a) = p * Interval + Interval
      /\ Trading!WindowEnd(c) = q * Interval + Interval
  BY DEF Trading!WindowEnd
<1>. HIDE DEF p, q
<1>4. p * Interval < q * Interval + Interval => p =< q
  BY <1>1, <1>2
<1>5. q * Interval < p * Interval + Interval => q =< p
  BY <1>1, <1>2
<1>6. p * Interval \in Int /\ q * Interval \in Int
  BY <1>1, <1>2
<1>7. p =< q => p * Interval =< q * Interval
  BY <1>1, <1>2
<1>8. a < Trading!WindowEnd(a) /\ c < Trading!WindowEnd(c)
  BY <1>2, <1>3
<1>9. a =< c => p =< q
  BY <1>1, <1>2, <1>4, <1>6
<1>10. a =< c => Trading!WindowEnd(a) =< Trading!WindowEnd(c)
  BY <1>1, <1>3, <1>6, <1>7, <1>9
<1>11. a =< c /\ c < Trading!WindowEnd(a) => p = q
  BY <1>1, <1>2, <1>3, <1>5, <1>6, <1>9
<1>12. c >= Trading!WindowEnd(a) => Trading!WindowEnd(c) > Trading!WindowEnd(a)
  BY <1>1, <1>3, <1>6, <1>8
<1>. QED BY <1>1, <1>3, <1>6, <1>8, <1>10, <1>11, <1>12

\* The trades of s in the window that ends at e, and what they add up to.
Within(s, e) == {i \in 1 .. Len(s) : Trading!WindowEnd(s[i].time) = e}
PricesOf(s, e) == {s[i].price : i \in Within(s, e)}
Weights(s, e) ==
  [i \in 1 .. Len(s) |-> IF Trading!WindowEnd(s[i].time) = e THEN s[i].volume ELSE 0]
AggregateOf(s, e) ==
  [open |-> s[Min(Within(s, e))].price, high |-> Max(PricesOf(s, e)),
   low |-> Min(PricesOf(s, e)), close |-> s[Max(Within(s, e))].price, end |-> e,
   volume |-> Total(0, Weights(s, e), Len(s))]

LEMMA SameExtremes ==
  \A S : /\ Trading!Max(S) = Max(S) /\ Trading!Min(S) = Min(S)
         /\ Correction!Max(S) = Max(S) /\ Correction!Min(S) = Min(S)
BY DEF Trading!Max, Trading!Min, Correction!Max, Correction!Min, Max, Min

LEMMA TradedVolume ==
  ASSUME NEW s \in Seq(Arriving), NEW e
  PROVE  Trading!FoldLeft(LAMBDA v, t : v + (IF Trading!WindowEnd(t.time) = e THEN t.volume ELSE 0),
                          0, s)
         = Total(0, Weights(s, e), Len(s))
<1>. DEFINE W(t) == IF Trading!WindowEnd(t.time) = e THEN t.volume ELSE 0
            it == CHOOSE g : g = [x \in SUBSET (DOMAIN s) |->
                    IF x = {} THEN 0 ELSE g[x \ {Trading!Max(x)}] + W(s[Trading!Max(x)])]
<1>1. Trading!FoldLeft(LAMBDA v, t : v + W(t), 0, s) = it[DOMAIN s]
  BY DEF Trading!FoldLeft, Trading!MapThenFoldSet, Trading!Max
<1>2. DOMAIN s = 1 .. Len(s) /\ Len(s) \in Nat
  OBVIOUS
<1>3. PICK f : Sums(f, 0, Weights(s, e), Len(s))
  BY <1>2, SumExists
<1>4. \A g : Sums(g, 0, Weights(s, e), Len(s)) <=>
               g = [x \in SUBSET (DOMAIN s) |->
                    IF x = {} THEN 0 ELSE g[x \ {Trading!Max(x)}] + W(s[Trading!Max(x)])]
  <2>1. ASSUME NEW g, NEW x \in SUBSET (1 .. Len(s))
        PROVE  (IF x = {} THEN 0 ELSE g[x \ {Max(x)}] + Weights(s, e)[Max(x)])
               = (IF x = {} THEN 0 ELSE g[x \ {Trading!Max(x)}] + W(s[Trading!Max(x)]))
    <3>1. CASE x = {}
      BY <3>1
    <3>2. CASE x # {}
      <4>1. Max(x) \in 1 .. Len(s)
        <5>1. x \in SUBSET Int /\ IsFiniteSet(x)
          <6>. DEFINE I == 1 .. Len(s)
          <6>1. IsFiniteSet(I) /\ I \in SUBSET Int /\ x \in SUBSET I
            BY <1>2, FS_Interval
          <6>. HIDE DEF I
          <6>. QED BY <6>1, FS_Subset
        <5>2. PICK m \in x : \A y \in x : y =< m
          BY <3>2, <5>1, Greatest
        <5>3. \A y \in x : m >= y
          BY <5>1, <5>2
        <5>4. Max(x) = m
          BY <5>1, <5>3, Extreme
        <5>. QED BY <5>4
      <4>2. Weights(s, e)[Max(x)] = W(s[Max(x)])
        BY <4>1 DEF Weights
      <4>3. Trading!Max(x) = Max(x)
        BY SameExtremes
      <4>. QED BY <4>2, <4>3
    <3>. QED BY <3>1, <3>2
  <2>. HIDE DEF W
  <2>2. ASSUME NEW g
        PROVE  [x \in SUBSET (1 .. Len(s)) |->
                  IF x = {} THEN 0 ELSE g[x \ {Max(x)}] + Weights(s, e)[Max(x)]]
               = [x \in SUBSET (1 .. Len(s)) |->
                  IF x = {} THEN 0 ELSE g[x \ {Trading!Max(x)}] + W(s[Trading!Max(x)])]
    BY <2>1
  <2>. QED BY <1>2, <2>2 DEF Sums
<1>5. Sums(it, 0, Weights(s, e), Len(s))
  <2>. HIDE DEF W
  <2>. QED BY <1>3, <1>4
<1>. HIDE DEF it
<1>6. Total(0, Weights(s, e), Len(s)) = it[1 .. Len(s)]
  BY <1>2, <1>5, TotalSums
<1>. QED BY <1>1, <1>2, <1>6

LEMMA AggregateIs ==
  ASSUME NEW s \in Seq(Arriving), NEW e
  PROVE  Trading!Aggregate(s, e) = AggregateOf(s, e)
<1>1. DOMAIN s = 1 .. Len(s)
  OBVIOUS
<1>. QED BY <1>1, SameExtremes, TradedVolume
         DEF Trading!Aggregate, AggregateOf, PricesOf, Within


LEMMA UpdatedIs ==
  ASSUME NEW o, NEW h, NEW l, NEW c, NEW v, NEW e, NEW t
  PROVE  Trading!Updated([open |-> o, high |-> h, low |-> l, close |-> c, end |-> e,
                          volume |-> v], t)
         = [open |-> o, high |-> Trading!Max({h, t.price}), low |-> Trading!Min({l, t.price}),
            close |-> t.price, end |-> e, volume |-> v + t.volume]
<1>. DEFINE b == [open |-> o, high |-> h, low |-> l, close |-> c, end |-> e, volume |-> v]
            u == Trading!Updated(b, t)
<1>1. u = [b EXCEPT !.high = Trading!Max({@, t.price}), !.low = Trading!Min({@, t.price}),
                    !.close = t.price, !.volume = @ + t.volume]
  BY DEF Trading!Updated
<1>2. DOMAIN b = {"open", "high", "low", "close", "end", "volume"}
  OBVIOUS
<1>3. b.open = o /\ b.high = h /\ b.low = l /\ b.close = c /\ b.end = e /\ b.volume = v
  OBVIOUS
<1>. HIDE DEF b
<1>4. u = [f \in DOMAIN b |->
             IF f = "high" THEN Trading!Max({b.high, t.price})
             ELSE IF f = "low" THEN Trading!Min({b.low, t.price})
             ELSE IF f = "close" THEN t.price
             ELSE IF f = "volume" THEN b.volume + t.volume ELSE b[f]]
  BY <1>1, <1>2
<1>. HIDE DEF u
<1>. QED BY <1>2, <1>3, <1>4 DEF u, b

\* One trade more, in another window, the first of its window or a later one.
LEMMA AggregateStep ==
  ASSUME NEW s \in Seq(Arriving), NEW t \in Arriving, NEW e
  PROVE  LET r == Append(s, t)
         IN  /\ Trading!WindowEnd(t.time) # e /\ Within(s, e) # {} =>
                  AggregateOf(r, e) = AggregateOf(s, e)
             /\ Trading!WindowEnd(t.time) = e /\ Within(s, e) = {} =>
                  AggregateOf(r, e) = Trading!Opened(t)
             /\ Trading!WindowEnd(t.time) = e /\ Within(s, e) # {} =>
                  AggregateOf(r, e) = Trading!Updated(AggregateOf(s, e), t)
             /\ Within(s, e) # {} => AggregateOf(s, e) \in BarRecord \/ e \notin Int
<1>. DEFINE r == Append(s, t)
            N == Len(s)
            W == Within(s, e)
            P == PricesOf(s, e)
<1>1. /\ N \in Nat /\ r \in Seq(Arriving) /\ Len(r) = N + 1 /\ r[N + 1] = t
      /\ \A i \in 1 .. N : r[i] = s[i] /\ s[i] \in Arriving
  BY AppendProperties, LenProperties
<1>2. \A x \in Arriving : x.time \in Int /\ x.price \in Int /\ x.volume \in Int
  BY TradingAssumptions
<1>. HIDE DEF r
<1>3. W \in SUBSET (1 .. N) /\ W \in SUBSET Int /\ IsFiniteSet(W)
  <2>1. W \in SUBSET (1 .. N)
    BY DEF Within
  <2>. DEFINE I == 1 .. N
  <2>2. IsFiniteSet(I) /\ I \in SUBSET Int /\ W \in SUBSET I
    BY <1>1, <2>1, FS_Interval
  <2>. HIDE DEF I, W
  <2>. QED BY <2>1, <2>2, FS_Subset
<1>4. P \in SUBSET Int /\ IsFiniteSet(P) /\ (W # {} => P # {})
  <2>1. P = {s[i].price : i \in W}
    BY DEF PricesOf
  <2>2. P \in SUBSET Int
    BY <1>1, <1>2, <1>3, <2>1
  <2>. DEFINE f == [i \in W |-> s[i].price]
  <2>3. P = {f[i] : i \in W}
    BY <2>1
  <2>4. W # {} => P # {}
    BY <2>1
  <2>. HIDE DEF f, P, W
  <2>. QED BY <1>3, <2>2, <2>3, <2>4, ImageIsFinite
<1>5. W # {} => /\ Min(W) \in W /\ Max(W) \in W
                /\ \A i \in W : Min(W) =< i /\ i =< Max(W)
  <2>. HIDE DEF W
  <2>. QED BY <1>3, Extremes
<1>6. W # {} => Min(P) \in Int /\ Max(P) \in Int
  <2>. HIDE DEF W, P
  <2>. QED BY <1>4, Extremes
<1>7. /\ \A i \in 1 .. N : Weights(s, e)[i] = Weights(r, e)[i] /\ Weights(s, e)[i] \in Int
      /\ Weights(r, e)[N + 1] = IF Trading!WindowEnd(t.time) = e THEN t.volume ELSE 0
  <2>1. \A i \in 1 .. N : i \in 1 .. Len(r)
    BY <1>1
  <2>2. N + 1 \in 1 .. Len(r)
    BY <1>1
  <2>. QED BY <1>1, <1>2, <2>1, <2>2 DEF Weights
<1>8. /\ Total(0, Weights(r, e), Len(r)) = Total(0, Weights(s, e), N) + Weights(r, e)[N + 1]
      /\ Total(0, Weights(s, e), N) \in Int
      /\ (\A i \in 1 .. N : Weights(s, e)[i] = 0) => Total(0, Weights(s, e), N) = 0
  <2>. HIDE DEF N
  <2>1. /\ Total(0, Weights(s, e), N) \in Int
        /\ (\A i \in 1 .. N : Weights(s, e)[i] = 0) => Total(0, Weights(s, e), N) = 0
    BY <1>1, <1>7, TotalType
  <2>. DEFINE w == Weights(s, e)
              v == Weights(r, e)
  <2>2. N \in Nat /\ \A i \in 1 .. N : w[i] = v[i]
    BY <1>1, <1>7
  <2>. HIDE DEF w, v, N
  <2>3. Total(0, v, N + 1) = Total(0, w, N) + v[N + 1]
    BY <2>2, TotalMore, Zenon
  <2>. QED BY <1>1, <2>1, <2>3 DEF w, v
<1>9. ASSUME Trading!WindowEnd(t.time) # e, W # {} PROVE AggregateOf(r, e) = AggregateOf(s, e)
  <2>1. Within(r, e) = W
    BY <1>1, <1>9 DEF Within
  <2>2. \A i \in W : r[i] = s[i]
    BY <1>1, <1>3
  <2>3. PricesOf(r, e) = P
    BY <2>1, <2>2 DEF PricesOf
  <2>4. Total(0, Weights(r, e), Len(r)) = Total(0, Weights(s, e), N)
    BY <1>7, <1>8, <1>9
  <2>. HIDE DEF W, P
  <2>5. r[Min(W)] = s[Min(W)] /\ r[Max(W)] = s[Max(W)]
    BY <1>5, <1>9, <2>2
  <2>. QED BY <2>1, <2>3, <2>4, <2>5 DEF AggregateOf, W, P
<1>10. ASSUME Trading!WindowEnd(t.time) = e, W = {} PROVE AggregateOf(r, e) = Trading!Opened(t)
  <2>1. Within(r, e) = {N + 1}
    BY <1>1, <1>10 DEF Within
  <2>2. PricesOf(r, e) = {t.price}
    BY <1>1, <2>1 DEF PricesOf
  <2>3. Total(0, Weights(r, e), Len(r)) = t.volume
    <3>1. \A i \in 1 .. N : Weights(s, e)[i] = 0
      BY <1>1, <1>10 DEF Weights, Within
    <3>2. t.volume \in Int
      BY <1>2
    <3>. QED BY <1>7, <1>8, <1>10, <3>1, <3>2
  <2>4. Min({N + 1}) = N + 1 /\ Max({N + 1}) = N + 1
    <3>1. {N + 1} \in SUBSET Int /\ (\A p \in {N + 1} : N + 1 >= p /\ N + 1 =< p)
      BY <1>1
    <3>. QED BY <3>1, Extreme
  <2>5. Min({t.price}) = t.price /\ Max({t.price}) = t.price
    <3>1. {t.price} \in SUBSET Int /\ (\A p \in {t.price} : t.price >= p /\ t.price =< p)
      BY <1>2
    <3>. QED BY <3>1, Extreme
  <2>. QED BY <1>1, <1>10, <2>1, <2>2, <2>3, <2>4, <2>5 DEF AggregateOf, Trading!Opened
<1>11. ASSUME Trading!WindowEnd(t.time) = e, W # {}
       PROVE  AggregateOf(r, e) = Trading!Updated(AggregateOf(s, e), t)
  <2>1. Within(r, e) = W \cup {N + 1}
    BY <1>1, <1>11 DEF Within
  <2>2. \A i \in W : r[i] = s[i] /\ i =< N /\ i \in Int
    BY <1>1, <1>3
  <2>3. PricesOf(r, e) = P \cup {t.price}
    BY <1>1, <2>1, <2>2 DEF PricesOf
  <2>4. Total(0, Weights(r, e), Len(r)) = Total(0, Weights(s, e), N) + t.volume
    BY <1>7, <1>8, <1>11
  <2>5. Min(W \cup {N + 1}) = Min(W) /\ Max(W \cup {N + 1}) = N + 1
    <3>1. W \cup {N + 1} \in SUBSET Int
      BY <1>1, <1>3
    <3>2. Min(W) \in W /\ \A i \in W \cup {N + 1} : Min(W) =< i
      <4>. HIDE DEF W
      <4>. QED BY <1>1, <1>5, <1>11, <2>2
    <3>3. \A i \in W \cup {N + 1} : N + 1 >= i
      BY <1>1, <2>2
    <3>. HIDE DEF W
    <3>. QED BY <3>1, <3>2, <3>3, Extreme
  <2>6. t.price \in Int
    BY <1>2
  <2>7. /\ Max(P \cup {t.price}) = Trading!Max({Max(P), t.price})
        /\ Min(P \cup {t.price}) = Trading!Min({Min(P), t.price})
    <3>. HIDE DEF P, W
    <3>. QED BY <1>4, <1>11, <2>6, OneMore, SameExtremes
  <2>8. r[Min(W)] = s[Min(W)]
    <3>. HIDE DEF W
    <3>. QED BY <1>5, <1>11, <2>2
  <2>9. AggregateOf(r, e) =
          [open |-> s[Min(W)].price, high |-> Trading!Max({Max(P), t.price}),
           low |-> Trading!Min({Min(P), t.price}), close |-> t.price, end |-> e,
           volume |-> Total(0, Weights(s, e), N) + t.volume]
    <3>. HIDE DEF W, P, N
    <3>. QED BY <1>1, <2>1, <2>3, <2>4, <2>5, <2>7, <2>8 DEF AggregateOf
  <2>10. AggregateOf(s, e) =
          [open |-> s[Min(W)].price, high |-> Max(P), low |-> Min(P), close |-> s[Max(W)].price,
           end |-> e, volume |-> Total(0, Weights(s, e), N)]
    BY DEF AggregateOf
  <2>. HIDE DEF W, P, N
  <2>. QED BY <2>9, <2>10, UpdatedIs
<1>12. ASSUME W # {} PROVE AggregateOf(s, e) \in BarRecord \/ e \notin Int
  <2>1. Min(W) \in 1 .. N /\ Max(W) \in 1 .. N
    <3>. HIDE DEF W
    <3>. QED BY <1>3, <1>5, <1>12
  <2>2. s[Min(W)].price \in Int /\ s[Max(W)].price \in Int
    <3>. HIDE DEF W
    <3>. QED BY <1>1, <1>2, <2>1
  <2>. HIDE DEF W, P, N
  <2>3. /\ AggregateOf(s, e).open \in Int /\ AggregateOf(s, e).high \in Int
        /\ AggregateOf(s, e).low \in Int /\ AggregateOf(s, e).close \in Int
        /\ AggregateOf(s, e).volume \in Int /\ AggregateOf(s, e).end = e
    BY <1>6, <1>8, <1>12, <2>2 DEF AggregateOf, W, P, N
  <2>. QED BY <2>3 DEF AggregateOf, BarRecord, Trading!Fields
<1>. QED BY <1>9, <1>10, <1>11, <1>12 DEF r

\* The bars bs are the aggregates of the windows of the trades s.
Covers(bs, s) ==
  /\ \A i \in 1 .. Len(bs) :
       /\ bs[i] = AggregateOf(s, bs[i].end)
       /\ \E k \in 1 .. Len(s) : bs[i].end = Trading!WindowEnd(s[k].time)
  /\ \A k \in 1 .. Len(s) : \E i \in 1 .. Len(bs) : bs[i].end = Trading!WindowEnd(s[k].time)
  /\ \A i, j \in 1 .. Len(bs) : i < j => bs[i].end < bs[j].end

LEMMA OpenedIsBar ==
  ASSUME NEW t \in Arriving
  PROVE  Trading!Opened(t) \in BarRecord /\ Trading!Opened(t).end = Trading!WindowEnd(t.time)
<1>1. t.time \in Int /\ t.price \in Int /\ t.volume \in Int
  BY TradingAssumptions
<1>2. Trading!WindowEnd(t.time) \in Int
  BY <1>1, Windows
<1>. QED BY <1>1, <1>2 DEF Trading!Opened, BarRecord, Trading!Fields

LEMMA UpdatedIsBar ==
  ASSUME NEW b \in BarRecord, NEW t \in Arriving
  PROVE  Trading!Updated(b, t) \in BarRecord /\ Trading!Updated(b, t).end = b.end
<1>1. t.price \in Int /\ t.volume \in Int
  BY TradingAssumptions
<1>. DEFINE o == b.open
            h == b.high
            l == b.low
            c == b.close
            e == b.end
            v == b.volume
<1>2. /\ o \in Int /\ h \in Int /\ l \in Int /\ c \in Int /\ e \in Int /\ v \in Int
      /\ b = [open |-> o, high |-> h, low |-> l, close |-> c, end |-> e, volume |-> v]
  BY DEF BarRecord, Trading!Fields
<1>. HIDE DEF o, h, l, c, e, v
<1>3. Trading!Updated(b, t) =
        [open |-> o, high |-> Trading!Max({h, t.price}), low |-> Trading!Min({l, t.price}),
         close |-> t.price, end |-> e, volume |-> v + t.volume]
  BY <1>2, UpdatedIs
<1>4. Trading!Max({h, t.price}) \in Int /\ Trading!Min({l, t.price}) \in Int
  BY <1>1, <1>2, PairExtremes, SameExtremes
<1>5. v + t.volume \in Int
  BY <1>1, <1>2
<1>6. b.end = e
  BY <1>2
<1>. QED BY <1>1, <1>2, <1>3, <1>4, <1>5, <1>6 DEF BarRecord, Trading!Fields

\* A trade of a later window opens a bar.
LEMMA CoversOpen ==
  ASSUME NEW bs \in Seq(BarRecord), NEW s \in Seq(Arriving), NEW t \in Arriving, Covers(bs, s),
         \A i \in 1 .. Len(bs) : bs[i].end < Trading!WindowEnd(t.time)
  PROVE  Covers(Append(bs, Trading!Opened(t)), Append(s, t))
<1>. DEFINE e == Trading!WindowEnd(t.time)
            o == Trading!Opened(t)
            r == Append(s, t)
            cs == Append(bs, o)
            M == Len(bs)
            N == Len(s)
<1>1. o \in BarRecord /\ o.end = e
  BY OpenedIsBar
<1>2. /\ N \in Nat /\ Len(r) = N + 1 /\ r[N + 1] = t
      /\ \A k \in 1 .. N : r[k] = s[k] /\ s[k] \in Arriving
  BY AppendProperties, LenProperties
<1>3. /\ M \in Nat /\ Len(cs) = M + 1 /\ cs[M + 1] = o
      /\ \A i \in 1 .. M : cs[i] = bs[i] /\ bs[i] \in BarRecord
  BY <1>1, AppendProperties, LenProperties
<1>4. /\ \A i \in 1 .. M : /\ bs[i] = AggregateOf(s, bs[i].end)
                           /\ \E k \in 1 .. N : bs[i].end = Trading!WindowEnd(s[k].time)
      /\ \A k \in 1 .. N : \E i \in 1 .. M : bs[i].end = Trading!WindowEnd(s[k].time)
      /\ \A i, j \in 1 .. M : i < j => bs[i].end < bs[j].end
  BY DEF Covers
<1>5. e \in Int /\ (\A i \in 1 .. M : bs[i].end \in Int /\ bs[i].end < e)
  <2>1. t.time \in Int
    BY TradingAssumptions
  <2>2. \A b \in BarRecord : b.end \in Int
    BY DEF BarRecord, Trading!Fields
  <2>. QED BY <1>3, <2>1, <2>2, Windows
<1>. HIDE DEF o, r, cs, e
<1>6. AggregateOf(r, e) = o
  <2>1. Within(s, e) = {}
    <3>1. ASSUME NEW k \in 1 .. N, Trading!WindowEnd(s[k].time) = e PROVE FALSE
      <4>1. PICK i \in 1 .. M : bs[i].end = Trading!WindowEnd(s[k].time)
        BY <1>4
      <4>. QED BY <1>5, <3>1, <4>1
    <3>. QED BY <3>1 DEF Within
  <2>. QED BY <2>1, AggregateStep DEF e, r, o
<1>7. \A i \in 1 .. M : AggregateOf(r, bs[i].end) = bs[i]
  <2>1. TAKE i \in 1 .. M
  <2>2. Within(s, bs[i].end) # {}
    BY <1>4 DEF Within
  <2>3. bs[i].end # e
    BY <1>5
  <2>4. AggregateOf(r, bs[i].end) = AggregateOf(s, bs[i].end)
    BY <2>2, <2>3, AggregateStep DEF e, r
  <2>. QED BY <1>4, <2>4
<1>. HIDE DEF M, N
<1>8. ASSUME NEW i \in 1 .. (M + 1)
      PROVE  /\ cs[i] = AggregateOf(r, cs[i].end)
             /\ \E k \in 1 .. (N + 1) : cs[i].end = Trading!WindowEnd(r[k].time)
  <2>1. CASE i = M + 1
    <3>1. N + 1 \in 1 .. (N + 1)
      BY <1>2
    <3>. QED BY <1>1, <1>2, <1>3, <1>6, <2>1, <3>1 DEF e
  <2>2. CASE i # M + 1
    <3>1. i \in 1 .. M
      BY <1>3, <2>2
    <3>2. PICK k \in 1 .. N : bs[i].end = Trading!WindowEnd(s[k].time)
      BY <1>4, <3>1
    <3>3. k \in 1 .. (N + 1)
      BY <1>2
    <3>. QED BY <1>2, <1>3, <1>7, <3>1, <3>2, <3>3
  <2>. QED BY <2>1, <2>2
<1>9. ASSUME NEW k \in 1 .. (N + 1)
      PROVE  \E i \in 1 .. (M + 1) : cs[i].end = Trading!WindowEnd(r[k].time)
  <2>1. CASE k = N + 1
    <3>1. M + 1 \in 1 .. (M + 1)
      BY <1>3
    <3>. QED BY <1>1, <1>2, <1>3, <2>1, <3>1 DEF e
  <2>2. CASE k # N + 1
    <3>1. k \in 1 .. N
      BY <1>2, <2>2
    <3>2. PICK i \in 1 .. M : bs[i].end = Trading!WindowEnd(s[k].time)
      BY <1>4, <3>1
    <3>3. i \in 1 .. (M + 1)
      BY <1>3
    <3>. QED BY <1>2, <1>3, <3>1, <3>2, <3>3
  <2>. QED BY <2>1, <2>2
<1>10. ASSUME NEW i \in 1 .. (M + 1), NEW j \in 1 .. (M + 1), i < j
       PROVE  cs[i].end < cs[j].end
  <2>1. i \in 1 .. M /\ cs[i] = bs[i]
    BY <1>3, <1>10
  <2>2. CASE j = M + 1
    BY <1>1, <1>3, <1>5, <2>1, <2>2
  <2>3. CASE j # M + 1
    <3>1. j \in 1 .. M
      BY <1>3, <2>3
    <3>. QED BY <1>3, <1>4, <1>10, <2>1, <3>1
  <2>. QED BY <2>2, <2>3
<1>11. Covers(cs, r)
  BY <1>2, <1>3, <1>8, <1>9, <1>10 DEF Covers
<1>. QED BY <1>11 DEF cs, r, o

\* A trade of the window in progress goes into its bar.
LEMMA CoversUpdate ==
  ASSUME NEW bs \in Seq(BarRecord), NEW b \in BarRecord, NEW s \in Seq(Arriving),
         NEW t \in Arriving, Covers(Append(bs, b), s), Trading!WindowEnd(t.time) = b.end
  PROVE  Covers(Append(bs, Trading!Updated(b, t)), Append(s, t))
<1>. DEFINE u == Trading!Updated(b, t)
            r == Append(s, t)
            ds == Append(bs, b)
            cs == Append(bs, u)
            M == Len(bs)
            N == Len(s)
<1>1. u \in BarRecord /\ u.end = b.end
  BY UpdatedIsBar
<1>2. /\ N \in Nat /\ Len(r) = N + 1 /\ r[N + 1] = t
      /\ \A k \in 1 .. N : r[k] = s[k] /\ s[k] \in Arriving
  BY AppendProperties, LenProperties
<1>3. /\ M \in Nat /\ Len(cs) = M + 1 /\ cs[M + 1] = u
      /\ \A i \in 1 .. M : cs[i] = bs[i] /\ bs[i] \in BarRecord
  BY <1>1, AppendProperties, LenProperties
<1>4. Len(ds) = M + 1 /\ ds[M + 1] = b /\ \A i \in 1 .. M : ds[i] = bs[i]
  BY AppendProperties, LenProperties
<1>. HIDE DEF u, r, cs, ds, M, N
<1>5. /\ \A i \in 1 .. (M + 1) : /\ ds[i] = AggregateOf(s, ds[i].end)
                                 /\ \E k \in 1 .. N : ds[i].end = Trading!WindowEnd(s[k].time)
      /\ \A k \in 1 .. N : \E i \in 1 .. (M + 1) : ds[i].end = Trading!WindowEnd(s[k].time)
      /\ \A i, j \in 1 .. (M + 1) : i < j => ds[i].end < ds[j].end
  BY <1>4 DEF Covers, ds, N
<1>6. M + 1 \in 1 .. (M + 1) /\ N + 1 \in 1 .. (N + 1)
      /\ (\A i \in 1 .. (M + 1) : i # M + 1 => i \in 1 .. M /\ i < M + 1)
      /\ (\A k \in 1 .. (N + 1) : k # N + 1 => k \in 1 .. N)
      /\ (\A k \in 1 .. N : k \in 1 .. (N + 1))
  BY <1>2, <1>3
<1>7. \A i \in 1 .. (M + 1) : cs[i].end = ds[i].end
  BY <1>1, <1>3, <1>4, <1>6
<1>8. \A i \in 1 .. (M + 1) : Within(s, ds[i].end) # {}
  BY <1>5 DEF Within, N
<1>9. AggregateOf(r, b.end) = u
  <2>1. b = AggregateOf(s, b.end) /\ Within(s, b.end) # {}
    BY <1>4, <1>5, <1>6, <1>8
  <2>2. AggregateOf(r, b.end) = Trading!Updated(AggregateOf(s, b.end), t)
    BY <2>1, AggregateStep DEF r
  <2>. QED BY <2>1, <2>2 DEF u
<1>10. ASSUME NEW i \in 1 .. M PROVE AggregateOf(r, bs[i].end) = bs[i]
  <2>1. i \in 1 .. (M + 1) /\ i < M + 1
    BY <1>3
  <2>2. bs[i].end < b.end
    BY <1>4, <1>5, <1>6, <2>1
  <2>3. bs[i].end \in Int /\ b.end \in Int
    BY <1>3 DEF BarRecord, Trading!Fields
  <2>4. bs[i].end # b.end
    BY <2>2, <2>3
  <2>5. Within(s, bs[i].end) # {} /\ bs[i] = AggregateOf(s, bs[i].end)
    BY <1>4, <1>5, <1>8, <2>1
  <2>6. AggregateOf(r, bs[i].end) = AggregateOf(s, bs[i].end)
    BY <2>4, <2>5, AggregateStep DEF r
  <2>. QED BY <2>5, <2>6
<1>11. \A i \in 1 .. (M + 1) : cs[i] = AggregateOf(r, cs[i].end)
  <2>1. TAKE i \in 1 .. (M + 1)
  <2>2. CASE i = M + 1
    BY <1>1, <1>3, <1>9, <2>2
  <2>3. CASE i # M + 1
    BY <1>3, <1>6, <1>10, <2>3
  <2>. QED BY <2>2, <2>3
<1>12. \A i \in 1 .. (M + 1) : \E k \in 1 .. (N + 1) : cs[i].end = Trading!WindowEnd(r[k].time)
  <2>1. TAKE i \in 1 .. (M + 1)
  <2>2. PICK k \in 1 .. N : ds[i].end = Trading!WindowEnd(s[k].time)
    BY <1>5
  <2>. QED BY <1>2, <1>6, <1>7, <2>2
<1>13. \A k \in 1 .. (N + 1) : \E i \in 1 .. (M + 1) : cs[i].end = Trading!WindowEnd(r[k].time)
  <2>1. TAKE k \in 1 .. (N + 1)
  <2>2. CASE k = N + 1
    BY <1>1, <1>2, <1>3, <1>6, <2>2
  <2>3. CASE k # N + 1
    BY <1>2, <1>5, <1>6, <1>7, <2>3
  <2>. QED BY <2>2, <2>3
<1>14. \A i, j \in 1 .. (M + 1) : i < j => cs[i].end < cs[j].end
  BY <1>5, <1>7
<1>15. Covers(cs, r)
  <2>1. \A i \in 1 .. Len(cs) :
          /\ cs[i] = AggregateOf(r, cs[i].end)
          /\ \E k \in 1 .. Len(r) : cs[i].end = Trading!WindowEnd(r[k].time)
    BY <1>2, <1>3, <1>11, <1>12
  <2>2. \A k \in 1 .. Len(r) : \E i \in 1 .. Len(cs) : cs[i].end = Trading!WindowEnd(r[k].time)
    BY <1>2, <1>3, <1>13
  <2>3. \A i, j \in 1 .. Len(cs) : i < j => cs[i].end < cs[j].end
    BY <1>3, <1>14
  <2>. QED BY <2>1, <2>2, <2>3 DEF Covers
<1>. QED BY <1>15 DEF cs, r, u

TradingInvariant ==
  /\ taken \in Seq(Arriving) /\ completed \in Seq(BarRecord) /\ bar \in BarRecord \cup {None}
  /\ bar = None => taken = <<>> /\ completed = <<>>
  /\ bar # None => /\ taken # <<>> /\ bar.end = Trading!WindowEnd(taken[Len(taken)].time)
                   /\ Covers(Append(completed, bar), taken)

LEMMA TradingStarts == PartsInit => TradingInvariant
<1>1. ASSUME PartsInit PROVE TradingInvariant
  <2>1. bar = None /\ completed = <<>> /\ taken = <<>>
    BY <1>1 DEF PartsInit, Trading!Init
  <2>. QED BY <2>1, EmptySeq DEF TradingInvariant
<1>. QED BY <1>1

LEMMA TradingStep ==
  ASSUME TradingInvariant, Trading!Next
  PROVE  TradingInvariant'
<1>1. PICK t \in Arriving : Trading!ProcessTrade(t)
  BY DEF Trading!Next, Arriving
<1>2. /\ taken # <<>> => t.time >= Trading!Last(taken).time
      /\ taken' = Append(taken, t)
      /\ completed' = IF Trading!Crosses(t) THEN Append(completed, bar) ELSE completed
      /\ bar' = IF bar = None \/ Trading!Crosses(t)
                THEN Trading!Opened(t) ELSE Trading!Updated(bar, t)
      /\ Trading!Crosses(t) <=> bar # None /\ t.time >= bar.end
  BY <1>1 DEF Trading!ProcessTrade, Trading!Crosses
<1>3. /\ taken \in Seq(Arriving) /\ completed \in Seq(BarRecord) /\ bar \in BarRecord \cup {None}
      /\ bar = None => taken = <<>> /\ completed = <<>>
      /\ bar # None => /\ taken # <<>> /\ bar.end = Trading!WindowEnd(taken[Len(taken)].time)
                       /\ Covers(Append(completed, bar), taken)
  BY DEF TradingInvariant
<1>4. /\ Append(taken, t) \in Seq(Arriving) /\ Append(taken, t) # <<>>
      /\ Append(taken, t)[Len(Append(taken, t))] = t
  BY <1>3, AppendProperties
<1>5. Trading!Opened(t) \in BarRecord /\ Trading!Opened(t).end = Trading!WindowEnd(t.time)
      /\ Trading!Opened(t) # None
  BY OpenedIsBar, TradingAssumptions
<1>6. CASE bar = None
  <2>1. completed' = <<>> /\ bar' = Trading!Opened(t) /\ taken = <<>> /\ completed = <<>>
    BY <1>2, <1>3, <1>6
  <2>2. Covers(<<>>, <<>>) /\ <<>> \in Seq(BarRecord) /\ <<>> \in Seq(Arriving)
    BY DEF Covers
  <2>3. \A i \in 1 .. Len(<<>>) : <<>>[i].end < Trading!WindowEnd(t.time)
    OBVIOUS
  <2>4. Covers(Append(<<>>, Trading!Opened(t)), Append(<<>>, t))
    BY <2>2, <2>3, CoversOpen
  <2>. QED BY <1>2, <1>4, <1>5, <2>1, <2>2, <2>4 DEF TradingInvariant
<1>7. ASSUME bar # None PROVE TradingInvariant'
  <2>. DEFINE a == taken[Len(taken)].time
  <2>1. Len(taken) \in 1 .. Len(taken) /\ taken[Len(taken)] \in Arriving
    BY <1>3, <1>7, EmptySeq, ElementOfSeq
  <2>2. a \in Int /\ t.time \in Int /\ a =< t.time
    <3>1. \A x \in Arriving : x.time \in Int
      BY TradingAssumptions
    <3>2. Trading!Last(taken) = taken[Len(taken)]
      BY DEF Trading!Last
    <3>. QED BY <1>2, <1>3, <1>7, <2>1, <3>1, <3>2
  <2>3. bar \in BarRecord /\ bar.end = Trading!WindowEnd(a)
    BY <1>3, <1>7
  <2>. HIDE DEF a
  <2>4. CASE t.time >= bar.end
    <3>1. Trading!WindowEnd(t.time) > bar.end
      BY <2>2, <2>3, <2>4, Windows
    <3>2. completed' = Append(completed, bar) /\ bar' = Trading!Opened(t)
      BY <1>2, <1>7, <2>4
    <3>3. /\ Append(completed, bar) \in Seq(BarRecord)
          /\ Len(Append(completed, bar)) = Len(completed) + 1 /\ Len(completed) \in Nat
          /\ Append(completed, bar)[Len(completed) + 1] = bar
      BY <1>3, <2>3, AppendProperties, LenProperties
    <3>. DEFINE ds == Append(completed, bar)
    <3>4. ASSUME NEW i \in 1 .. Len(ds) PROVE ds[i].end < Trading!WindowEnd(t.time)
      <4>1. i = Len(ds) \/ ds[i].end < bar.end
        <5>1. Len(ds) \in 1 .. Len(ds) /\ (i # Len(ds) => i < Len(ds))
          BY <3>3
        <5>2. \A j \in 1 .. Len(ds) : i < j => ds[i].end < ds[j].end
          BY <1>3, <1>7 DEF Covers
        <5>. QED BY <3>3, <5>1, <5>2
      <4>2. ds[i].end \in Int /\ bar.end \in Int /\ Trading!WindowEnd(t.time) \in Int
        <5>1. ds[i] \in BarRecord
          BY <3>3, ElementOfSeq
        <5>2. \A b \in BarRecord : b.end \in Int
          BY DEF BarRecord, Trading!Fields
        <5>. QED BY <2>2, <2>3, <5>1, <5>2, Windows
      <4>3. i = Len(ds) => ds[i] = bar
        BY <3>3
      <4>. HIDE DEF ds
      <4>. QED BY <3>1, <4>1, <4>2, <4>3
    <3>. HIDE DEF ds
    <3>5. Covers(Append(ds, Trading!Opened(t)), Append(taken, t))
      BY <1>3, <1>7, <3>3, <3>4, CoversOpen DEF ds
    <3>. QED BY <1>2, <1>4, <1>5, <3>2, <3>3, <3>5 DEF TradingInvariant, ds
  <2>5. CASE ~(t.time >= bar.end)
    <3>1. bar.end \in Int
      BY <2>3 DEF BarRecord, Trading!Fields
    <3>2. Trading!WindowEnd(t.time) = bar.end
      BY <2>2, <2>3, <2>5, <3>1, Windows
    <3>3. completed' = completed /\ bar' = Trading!Updated(bar, t)
      BY <1>2, <1>7, <2>5
    <3>4. Covers(Append(completed, Trading!Updated(bar, t)), Append(taken, t))
      BY <1>3, <1>7, <2>3, <3>2, CoversUpdate
    <3>5. Trading!Updated(bar, t) \in BarRecord /\ Trading!Updated(bar, t).end = bar.end
          /\ Trading!Updated(bar, t) # None
      BY <2>3, UpdatedIsBar, TradingAssumptions
    <3>. QED BY <1>2, <1>3, <1>4, <3>2, <3>3, <3>4, <3>5 DEF TradingInvariant
  <2>. QED BY <2>4, <2>5
<1>. QED BY <1>6, <1>7

LEMMA TradingInvariantHolds == PartsSpec => []TradingInvariant
<1>1. ASSUME TradingInvariant, [PartsNext]_allVars PROVE TradingInvariant'
  <2>1. UNCHANGED tradingVars => TradingInvariant'
    BY <1>1 DEF TradingInvariant, tradingVars
  <2>. QED BY <1>1, <2>1, TradingStep DEF PartsNext, Frozen, allVars
<1>. QED BY <1>1, TradingStarts, PTL DEF PartsSpec

\* Whatever the resolution and the trades, the completed bars and the one in
\* progress are, in order and once each, the windows in which something traded,
\* each the aggregate of the trades of its own window
\* (DynamicBarConstructor.process_trade).
THEOREM BarsAlwaysAggregate == PartsSpec => []BarsAreAggregates
<1>1. ASSUME TradingInvariant PROVE BarsAreAggregates
  <2>1. /\ taken \in Seq(Arriving) /\ completed \in Seq(BarRecord) /\ bar \in BarRecord \cup {None}
        /\ bar = None => taken = <<>> /\ completed = <<>>
        /\ bar # None => Covers(Append(completed, bar), taken)
    BY <1>1 DEF TradingInvariant
  <2>2. Trading!AllBars \in Seq(BarRecord) /\ Covers(Trading!AllBars, taken)
    <3>1. CASE bar = None
      <4>1. Covers(<<>>, <<>>)
        BY DEF Covers
      <4>. QED BY <2>1, <3>1, <4>1 DEF Trading!AllBars
    <3>2. CASE bar # None
      BY <2>1, <3>2, AppendProperties DEF Trading!AllBars
    <3>. QED BY <3>1, <3>2
  <2>. DEFINE bs == Trading!AllBars
  <2>. HIDE DEF bs
  <2>3. DOMAIN bs = 1 .. Len(bs) /\ DOMAIN taken = 1 .. Len(taken) /\ bs \in Seq(BarRecord)
    BY <2>1, <2>2 DEF bs
  <2>4. Trading!TypeOK
    BY <2>1, <2>2, ElementOfSeq, LenProperties DEF Trading!TypeOK, BarRecord, Arriving
  <2>5. \A i \in 1 .. Len(bs) : bs[i] = Trading!Aggregate(taken, bs[i].end)
    BY <2>1, <2>2, AggregateIs DEF Covers, bs
  <2>6. {bs[i].end : i \in 1 .. Len(bs)} =
          {Trading!WindowEnd(taken[k].time) : k \in 1 .. Len(taken)}
    <3>1. /\ \A i \in 1 .. Len(bs) :
               \E k \in 1 .. Len(taken) : bs[i].end = Trading!WindowEnd(taken[k].time)
          /\ \A k \in 1 .. Len(taken) :
               \E i \in 1 .. Len(bs) : bs[i].end = Trading!WindowEnd(taken[k].time)
      BY <2>2 DEF Covers, bs
    <3>. QED BY <3>1
  <2>7. \A i, j \in 1 .. Len(bs) : i < j => bs[i].end < bs[j].end
    BY <2>2 DEF Covers, bs
  <2>8. Trading!BarsAreAggregates
    BY <2>3, <2>5, <2>6, <2>7 DEF Trading!BarsAreAggregates, bs
  <2>. QED BY <2>4, <2>8 DEF BarsAreAggregates
<1>. QED BY <1>1, TradingInvariantHolds, PTL
-----------------------------------------------------------------------------
(***************************************************************************)
(* Corrections of finished bars.                                           *)
(***************************************************************************)
LateTicks == [time : TickTimes, price : TickPrices, volume : TickVolumes]
Finished == [high : Int, low : Int, close : Int, volume : Int]

LEMMA CorrectionAssumptions ==
  /\ Frame \in Nat \ {0} /\ Starts \subseteq Int /\ OriginalBar \in Finished
  /\ LateTicks \subseteq [time : Int, price : Int, volume : Int]
  /\ None \notin Int /\ None \notin Finished
BY MarketDataAssumption DEF Correction!CorrectionAssumption, LateTicks, Finished

PricesIn(l) == {l[i].price : i \in 1 .. Len(l)}
VolumesIn(l) == [i \in 1 .. Len(l) |-> l[i].volume]
VolumeOf(l) == Total(OriginalBar.volume, VolumesIn(l), Len(l))
NewestIn(q) ==
  Max({i \in 1 .. Len(q) : q[i].time = Max({q[j].time : j \in 1 .. Len(q)})})
CloseOf(q, n) ==
  IF SubSeq(q, n + 1, Len(q)) # <<>> /\ NewestIn(q) > n
  THEN q[NewestIn(q)].price ELSE OriginalBar.close
CorrectedOf(q, n) ==
  LET l == SubSeq(q, n + 1, Len(q))
  IN  [high |-> Max({OriginalBar.high} \cup PricesIn(l)),
       low |-> Min({OriginalBar.low} \cup PricesIn(l)),
       volume |-> VolumeOf(l), close |-> CloseOf(q, n)]

LEMMA LateVolume ==
  ASSUME NEW l \in Seq(LateTicks)
  PROVE  Correction!FoldLeft(LAMBDA v, t : v + t.volume, OriginalBar.volume, l) = VolumeOf(l)
<1>. DEFINE it == CHOOSE g : g = [x \in SUBSET (DOMAIN l) |->
                    IF x = {} THEN OriginalBar.volume
                    ELSE g[x \ {Correction!Max(x)}] + l[Correction!Max(x)].volume]
<1>1. Correction!FoldLeft(LAMBDA v, t : v + t.volume, OriginalBar.volume, l) = it[DOMAIN l]
  BY DEF Correction!FoldLeft, Correction!MapThenFoldSet, Correction!Max
<1>2. DOMAIN l = 1 .. Len(l) /\ Len(l) \in Nat
  OBVIOUS
<1>. DEFINE b == OriginalBar.volume
<1>. HIDE DEF b
<1>3. PICK f : Sums(f, b, VolumesIn(l), Len(l))
  BY <1>2, SumExists
<1>4. \A g : Sums(g, b, VolumesIn(l), Len(l)) <=>
               g = [x \in SUBSET (DOMAIN l) |->
                    IF x = {} THEN b
                    ELSE g[x \ {Correction!Max(x)}] + l[Correction!Max(x)].volume]
  <2>1. ASSUME NEW g, NEW x \in SUBSET (1 .. Len(l))
        PROVE  (IF x = {} THEN b ELSE g[x \ {Max(x)}] + VolumesIn(l)[Max(x)])
               = (IF x = {} THEN b
                  ELSE g[x \ {Correction!Max(x)}] + l[Correction!Max(x)].volume)
    <3>1. CASE x = {}
      BY <3>1
    <3>2. CASE x # {}
      <4>1. Max(x) \in 1 .. Len(l)
        <5>. DEFINE I == 1 .. Len(l)
        <5>1. IsFiniteSet(I) /\ I \in SUBSET Int /\ x \in SUBSET I
          BY <1>2, FS_Interval
        <5>. HIDE DEF I
        <5>2. x \in SUBSET Int /\ IsFiniteSet(x)
          BY <5>1, FS_Subset
        <5>3. Max(x) \in x
          BY <3>2, <5>2, Extremes
        <5>. QED BY <5>3
      <4>2. VolumesIn(l)[Max(x)] = l[Max(x)].volume
        BY <4>1 DEF VolumesIn
      <4>3. Correction!Max(x) = Max(x)
        BY SameExtremes
      <4>. QED BY <4>2, <4>3
    <3>. QED BY <3>1, <3>2
  <2>2. ASSUME NEW g
        PROVE  [x \in SUBSET (1 .. Len(l)) |->
                  IF x = {} THEN b ELSE g[x \ {Max(x)}] + VolumesIn(l)[Max(x)]]
               = [x \in SUBSET (1 .. Len(l)) |->
                  IF x = {} THEN b
                  ELSE g[x \ {Correction!Max(x)}] + l[Correction!Max(x)].volume]
    BY <2>1
  <2>. QED BY <1>2, <2>2 DEF Sums
<1>5. Sums(it, b, VolumesIn(l), Len(l))
  BY <1>3, <1>4 DEF b
<1>. HIDE DEF it
<1>6. Total(b, VolumesIn(l), Len(l)) = it[1 .. Len(l)]
  BY <1>2, <1>5, TotalSums
<1>. QED BY <1>1, <1>2, <1>6 DEF VolumeOf, b

\* The ticks after the first n.
LEMMA LatePart ==
  ASSUME NEW q \in Seq(LateTicks), NEW n \in Nat, n =< Len(q)
  PROVE  /\ SubSeq(q, n + 1, Len(q)) \in Seq(LateTicks)
         /\ Len(SubSeq(q, n + 1, Len(q))) = Len(q) - n
         /\ \A i \in 1 .. (Len(q) - n) : SubSeq(q, n + 1, Len(q))[i] = q[n + i]
         /\ SubSeq(q, n + 1, Len(q)) # <<>> <=> n < Len(q)
<1>. DEFINE m == n + 1
            N == Len(q)
            l == SubSeq(q, m, N)
<1>1. m \in Int /\ N \in Int /\ \A i \in m .. N : q[i] \in LateTicks
  <2>1. N \in Nat /\ \A i \in 1 .. N : q[i] \in LateTicks
    BY LenProperties
  <2>. QED BY <2>1
<1>2. /\ l \in Seq(LateTicks) /\ Len(l) = (IF m =< N THEN (N - m) + 1 ELSE 0)
      /\ \A i \in 1 .. (N - m) + 1 : l[i] = q[(m + i) - 1]
  <2>. HIDE DEF m, N
  <2>. QED BY <1>1, SubSeqProperties
<1>3. N \in Nat
  BY LenProperties
<1>. HIDE DEF l
<1>4. Len(l) = N - n
  BY <1>2, <1>3
<1>5. ASSUME NEW i \in 1 .. (N - n) PROVE l[i] = q[n + i]
  <2>1. i \in 1 .. (N - m) + 1 /\ (m + i) - 1 = n + i
    BY <1>3
  <2>. QED BY <1>2, <2>1
<1>6. l # <<>> <=> n < N
  <2>1. l # <<>> <=> Len(l) # 0
    BY <1>2, EmptySeq
  <2>. QED BY <1>3, <1>4, <2>1
<1>. QED BY <1>2, <1>4, <1>5, <1>6 DEF l

LEMMA LateAppend ==
  ASSUME NEW q \in Seq(LateTicks), NEW n \in Nat, n =< Len(q), NEW t \in LateTicks
  PROVE  SubSeq(Append(q, t), n + 1, Len(Append(q, t)))
         = Append(SubSeq(q, n + 1, Len(q)), t)
<1>. DEFINE N == Len(q)
            r == Append(q, t)
            l == SubSeq(q, n + 1, N)
            k == SubSeq(r, n + 1, Len(r))
            a == Append(l, t)
<1>1. /\ N \in Nat /\ r \in Seq(LateTicks) /\ Len(r) = N + 1 /\ r[N + 1] = t
      /\ \A i \in 1 .. N : r[i] = q[i]
  BY AppendProperties, LenProperties
<1>2. /\ l \in Seq(LateTicks) /\ Len(l) = N - n
      /\ \A i \in 1 .. (N - n) : l[i] = q[n + i]
  BY LatePart
<1>. HIDE DEF r
<1>3. /\ k \in Seq(LateTicks) /\ Len(k) = Len(r) - n
      /\ \A i \in 1 .. (Len(r) - n) : k[i] = r[n + i]
  <2>1. n =< Len(r)
    BY <1>1
  <2>. QED BY <1>1, <2>1, LatePart
<1>. HIDE DEF l, k
<1>4. /\ a \in Seq(LateTicks) /\ Len(a) = Len(l) + 1 /\ a[Len(l) + 1] = t
      /\ \A i \in 1 .. Len(l) : a[i] = l[i]
  BY <1>2, AppendProperties
<1>. HIDE DEF a, N
<1>5. Len(k) = Len(a)
  BY <1>1, <1>2, <1>3, <1>4
<1>6. ASSUME NEW i \in 1 .. Len(a) PROVE k[i] = a[i]
  <2>1. i \in 1 .. ((N - n) + 1) /\ k[i] = r[n + i]
    BY <1>1, <1>2, <1>3, <1>4
  <2>2. CASE i = (N - n) + 1
    <3>1. n + i = N + 1 /\ i = Len(l) + 1
      BY <1>1, <1>2, <2>2
    <3>. QED BY <1>1, <1>4, <2>1, <3>1
  <2>3. CASE i # (N - n) + 1
    <3>1. i \in 1 .. (N - n) /\ n + i \in 1 .. N /\ i \in 1 .. Len(l)
      BY <1>1, <1>2, <2>1, <2>3
    <3>. QED BY <1>1, <1>2, <1>4, <2>1, <3>1
  <2>. QED BY <2>2, <2>3
<1>7. k = a
  BY <1>3, <1>4, <1>5, <1>6, SeqEqual
<1>. QED BY <1>7 DEF k, a, l, r, N

LEMMA CorrectedIs ==
  ASSUME NEW q \in Seq(LateTicks), NEW n \in Nat, n =< Len(q)
  PROVE  Correction!Corrected(q, n) = CorrectedOf(q, n)
<1>. DEFINE l == SubSeq(q, n + 1, Len(q))
<1>1. l \in Seq(LateTicks) /\ DOMAIN l = 1 .. Len(l) /\ DOMAIN q = 1 .. Len(q)
  BY LatePart, LenProperties
<1>2. Correction!FoldLeft(LAMBDA v, t : v + t.volume, OriginalBar.volume, l) = VolumeOf(l)
  BY <1>1, LateVolume
<1>3. {l[i].price : i \in DOMAIN l} = PricesIn(l)
  BY <1>1 DEF PricesIn
<1>4. Correction!Max({i \in DOMAIN q : q[i].time = Correction!Max({q[j].time : j \in DOMAIN q})})
      = NewestIn(q)
  BY <1>1, SameExtremes DEF NewestIn
<1>. HIDE DEF l
<1>. QED BY <1>2, <1>3, <1>4, SameExtremes DEF Correction!Corrected, CorrectedOf, CloseOf, l

LEMMA PricesAreFinite ==
  ASSUME NEW l \in Seq(LateTicks)
  PROVE  PricesIn(l) \in SUBSET Int /\ IsFiniteSet(PricesIn(l))
<1>. DEFINE I == 1 .. Len(l)
            f == [i \in I |-> l[i].price]
<1>1. IsFiniteSet(I)
  <2>1. Len(l) \in Int
    BY LenProperties
  <2>. QED BY <2>1, FS_Interval
<1>2. PricesIn(l) = {f[i] : i \in I}
  BY DEF PricesIn
<1>3. \A i \in I : l[i] \in LateTicks
  BY ElementOfSeq
<1>4. \A x \in LateTicks : x.price \in Int
  BY CorrectionAssumptions
<1>5. PricesIn(l) \in SUBSET Int
  BY <1>3, <1>4 DEF PricesIn
<1>. HIDE DEF I, f
<1>. QED BY <1>1, <1>2, <1>5, ImageIsFinite

\* A bar that is registered again forgets the corrections before it.
LEMMA CorrectedFresh ==
  ASSUME NEW q \in Seq(LateTicks)
  PROVE  CorrectedOf(q, Len(q)) = OriginalBar
<1>1. Len(q) \in Nat
  BY LenProperties
<1>2. SubSeq(q, Len(q) + 1, Len(q)) = <<>>
  <2>. DEFINE m == Len(q) + 1
              n == Len(q)
  <2>1. m \in Int /\ n \in Int /\ n < m
    BY <1>1
  <2>. HIDE DEF m, n
  <2>2. SubSeq(q, m, n) = <<>>
    BY <2>1, SubSeqEmpty
  <2>. QED BY <2>2 DEF m, n
<1>3. PricesIn(<<>>) = {}
  BY DEF PricesIn
<1>4. VolumeOf(<<>>) = OriginalBar.volume
  <2>1. Len(<<>>) = 0
    OBVIOUS
  <2>. QED BY <2>1, TotalNone DEF VolumeOf
<1>5. \A x \in Int : Max({x} \cup {}) = x /\ Min({x} \cup {}) = x
  <2>1. TAKE x \in Int
  <2>2. {x} \cup {} \in SUBSET Int /\ x \in {x} \cup {} /\ \A p \in {x} \cup {} : x >= p /\ x =< p
    OBVIOUS
  <2>. QED BY <2>2, Extreme
<1>6. /\ OriginalBar.high \in Int /\ OriginalBar.low \in Int
      /\ OriginalBar = [high |-> OriginalBar.high, low |-> OriginalBar.low,
                        close |-> OriginalBar.close, volume |-> OriginalBar.volume]
  BY CorrectionAssumptions DEF Finished
<1>7. CloseOf(q, Len(q)) = OriginalBar.close
  BY <1>2 DEF CloseOf
<1>8. /\ Max({OriginalBar.high} \cup {}) = OriginalBar.high
      /\ Min({OriginalBar.low} \cup {}) = OriginalBar.low
  BY <1>5, <1>6
<1>9. CorrectedOf(q, Len(q)) =
        [high |-> OriginalBar.high, low |-> OriginalBar.low,
         volume |-> OriginalBar.volume, close |-> OriginalBar.close]
  BY <1>2, <1>3, <1>4, <1>7, <1>8 DEF CorrectedOf
<1>. QED BY <1>6, <1>9

\* m is the time of the newest tick of q, if there is one.
IsNewestTime(q, m) ==
  \/ q = <<>> /\ m = None
  \/ /\ m \in Int /\ q # <<>>
     /\ \A i \in 1 .. Len(q) : q[i].time =< m
     /\ \E i \in 1 .. Len(q) : q[i].time = m

LEMMA NewestIs ==
  ASSUME NEW q \in Seq(LateTicks), NEW m \in Int, IsNewestTime(q, m)
  PROVE  /\ NewestIn(q) = Max({i \in 1 .. Len(q) : q[i].time = m})
         /\ NewestIn(q) \in 1 .. Len(q)
<1>. DEFINE T == {q[j].time : j \in 1 .. Len(q)}
            I == {i \in 1 .. Len(q) : q[i].time = m}
<1>1. /\ \A i \in 1 .. Len(q) : q[i].time =< m
      /\ \E i \in 1 .. Len(q) : q[i].time = m
  BY CorrectionAssumptions DEF IsNewestTime
<1>2. Max(T) = m
  <2>1. \A i \in 1 .. Len(q) : q[i] \in LateTicks
    BY ElementOfSeq
  <2>2. \A x \in LateTicks : x.time \in Int
    BY CorrectionAssumptions
  <2>3. T \in SUBSET Int /\ m \in T /\ \A x \in T : m >= x
    BY <1>1, <2>1, <2>2
  <2>. HIDE DEF T
  <2>. QED BY <2>3, Extreme
<1>3. NewestIn(q) = Max(I)
  BY <1>2 DEF NewestIn
<1>4. Max(I) \in I
  <2>. DEFINE D == 1 .. Len(q)
  <2>1. Len(q) \in Nat
    BY LenProperties
  <2>2. IsFiniteSet(D) /\ D \in SUBSET Int /\ I \in SUBSET D /\ I # {}
    <3>1. IsFiniteSet(D)
      BY <2>1, FS_Interval
    <3>. QED BY <1>1, <3>1
  <2>. HIDE DEF D, I
  <2>3. I \in SUBSET Int /\ IsFiniteSet(I)
    BY <2>2, FS_Subset
  <2>. QED BY <2>2, <2>3, Extremes
<1>. QED BY <1>3, <1>4

\* One late tick more.
LEMMA CorrectedStep ==
  ASSUME NEW q \in Seq(LateTicks), NEW n \in Nat, n =< Len(q), NEW t \in LateTicks,
         NEW m, IsNewestTime(q, m)
  PROVE  LET b == CorrectedOf(q, n)
             newer == m = None \/ t.time >= m
         IN  /\ CorrectedOf(Append(q, t), n) =
                  [high |-> Correction!Max({b.high, t.price}),
                   low |-> Correction!Min({b.low, t.price}), volume |-> b.volume + t.volume,
                   close |-> IF newer THEN t.price ELSE b.close]
             /\ IsNewestTime(Append(q, t), IF newer THEN t.time ELSE m)
<1>. DEFINE b == CorrectedOf(q, n)
            N == Len(q)
            r == Append(q, t)
            l == SubSeq(q, n + 1, N)
            k == SubSeq(r, n + 1, Len(r))
            newer == m = None \/ t.time >= m
<1>1. /\ N \in Nat /\ r \in Seq(LateTicks) /\ Len(r) = N + 1 /\ r[N + 1] = t /\ r # <<>>
      /\ \A i \in 1 .. N : r[i] = q[i] /\ q[i] \in LateTicks
  BY AppendProperties, LenProperties
<1>2. l \in Seq(LateTicks) /\ (l # <<>> <=> n < N) /\ k = Append(l, t)
  BY LatePart, LateAppend
<1>3. /\ \A x \in LateTicks : x.time \in Int /\ x.price \in Int /\ x.volume \in Int
      /\ OriginalBar.high \in Int /\ OriginalBar.low \in Int /\ None \notin Int
  BY CorrectionAssumptions DEF Finished
<1>4. /\ Len(l) \in Nat /\ Len(k) = Len(l) + 1 /\ k[Len(l) + 1] = t /\ k # <<>>
      /\ \A i \in 1 .. Len(l) : k[i] = l[i]
  <2>. HIDE DEF l, k
  <2>. QED BY <1>2, AppendProperties, LenProperties
<1>5. /\ b.high = Max({OriginalBar.high} \cup PricesIn(l))
      /\ b.low = Min({OriginalBar.low} \cup PricesIn(l))
      /\ b.volume = VolumeOf(l) /\ b.close = CloseOf(q, n)
  BY DEF CorrectedOf
<1>. HIDE DEF b, r, l, k
<1>6. PricesIn(k) = PricesIn(l) \cup {t.price}
  <2>1. \A i : i \in 1 .. Len(k) <=> i \in 1 .. Len(l) \/ i = Len(l) + 1
    BY <1>4
  <2>. QED BY <1>4, <2>1 DEF PricesIn
<1>7. Max({OriginalBar.high} \cup PricesIn(k)) = Correction!Max({b.high, t.price})
  <2>. DEFINE S == {OriginalBar.high} \cup PricesIn(l)
  <2>1. S \in SUBSET Int /\ IsFiniteSet(S) /\ S # {}
    <3>1. IsFiniteSet({OriginalBar.high}) /\ IsFiniteSet(PricesIn(l)) /\ PricesIn(l) \in SUBSET Int
      BY <1>2, FS_Singleton, PricesAreFinite
    <3>. QED BY <1>3, <3>1, FS_Union
  <2>2. {OriginalBar.high} \cup PricesIn(k) = S \cup {t.price}
    BY <1>6
  <2>3. b.high = Max(S)
    BY <1>5
  <2>4. t.price \in Int
    BY <1>3
  <2>. HIDE DEF S
  <2>5. Max(S \cup {t.price}) = Max({Max(S), t.price})
    BY <2>1, <2>4, OneMore
  <2>. QED BY <2>2, <2>3, <2>5, SameExtremes
<1>8. Min({OriginalBar.low} \cup PricesIn(k)) = Correction!Min({b.low, t.price})
  <2>. DEFINE S == {OriginalBar.low} \cup PricesIn(l)
  <2>1. S \in SUBSET Int /\ IsFiniteSet(S) /\ S # {}
    <3>1. IsFiniteSet({OriginalBar.low}) /\ IsFiniteSet(PricesIn(l)) /\ PricesIn(l) \in SUBSET Int
      BY <1>2, FS_Singleton, PricesAreFinite
    <3>. QED BY <1>3, <3>1, FS_Union
  <2>2. {OriginalBar.low} \cup PricesIn(k) = S \cup {t.price}
    BY <1>6
  <2>3. b.low = Min(S)
    BY <1>5
  <2>4. t.price \in Int
    BY <1>3
  <2>. HIDE DEF S
  <2>5. Min(S \cup {t.price}) = Min({Min(S), t.price})
    BY <2>1, <2>4, OneMore
  <2>. QED BY <2>2, <2>3, <2>5, SameExtremes
<1>9. VolumeOf(k) = b.volume + t.volume
  <2>. DEFINE w == VolumesIn(l)
              v == VolumesIn(k)
              M == Len(l)
              c == OriginalBar.volume
  <2>1. M \in Nat /\ (\A i \in 1 .. M : w[i] = v[i]) /\ v[M + 1] = t.volume
    <3>1. M + 1 \in 1 .. Len(k) /\ \A i \in 1 .. M : i \in 1 .. Len(k)
      BY <1>4
    <3>. QED BY <1>4, <3>1 DEF VolumesIn
  <2>2. VolumeOf(k) = Total(c, v, M + 1) /\ b.volume = Total(c, w, M)
    BY <1>4, <1>5 DEF VolumeOf
  <2>. HIDE DEF w, v, M, c
  <2>3. Total(c, v, M + 1) = Total(c, w, M) + v[M + 1]
    <3>1. M \in Nat /\ \A i \in 1 .. M : w[i] = v[i]
      BY <2>1
    <3>. QED BY <3>1, TotalMore
  <2>. QED BY <2>1, <2>2, <2>3
<1>10. q = <<>> <=> N = 0
  BY EmptySeq
<1>11. ASSUME newer
       PROVE  IsNewestTime(r, t.time) /\ CloseOf(r, n) = t.price
  <2>1. \A i \in 1 .. (N + 1) : r[i].time =< t.time
    <3>1. TAKE i \in 1 .. (N + 1)
    <3>2. CASE i = N + 1
      BY <1>1, <1>3, <3>2
    <3>3. CASE i # N + 1
      <4>1. i \in 1 .. N
        BY <1>1, <3>3
      <4>2. m \in Int /\ q[i].time =< m
        BY <1>1, <1>10, <4>1 DEF IsNewestTime
      <4>3. t.time >= m /\ q[i].time \in Int /\ t.time \in Int
        BY <1>1, <1>3, <1>11, <4>1, <4>2
      <4>. QED BY <1>1, <4>1, <4>2, <4>3
    <3>. QED BY <3>2, <3>3
  <2>2. N + 1 \in 1 .. (N + 1)
    BY <1>1
  <2>3. IsNewestTime(r, t.time)
    BY <1>1, <1>3, <2>1, <2>2 DEF IsNewestTime
  <2>4. NewestIn(r) = N + 1
    <3>. DEFINE I == {i \in 1 .. (N + 1) : r[i].time = t.time}
    <3>1. NewestIn(r) = Max(I)
      BY <1>1, <1>3, <2>3, NewestIs
    <3>2. I \in SUBSET Int /\ N + 1 \in I /\ \A i \in I : N + 1 >= i
      BY <1>1, <2>2
    <3>. HIDE DEF I
    <3>. QED BY <3>1, <3>2, Extreme
  <2>5. N + 1 > n
    BY <1>1
  <2>. QED BY <1>1, <1>4, <2>3, <2>4, <2>5 DEF CloseOf, k
<1>12. ASSUME ~newer
       PROVE  IsNewestTime(r, m) /\ CloseOf(r, n) = b.close
  <2>1. /\ m \in Int /\ ~(t.time >= m) /\ t.time \in Int
        /\ \A i \in 1 .. N : q[i].time =< m
        /\ \E i \in 1 .. N : q[i].time = m
    BY <1>3, <1>12 DEF IsNewestTime
  <2>2. \A i : i \in 1 .. (N + 1) <=> i \in 1 .. N \/ i = N + 1
    BY <1>1
  <2>3. IsNewestTime(r, m)
    <3>1. \A i \in 1 .. (N + 1) : r[i].time =< m
      BY <1>1, <2>1, <2>2
    <3>2. \E i \in 1 .. (N + 1) : r[i].time = m
      BY <1>1, <2>1, <2>2
    <3>. QED BY <1>1, <2>1, <3>1, <3>2 DEF IsNewestTime
  <2>4. {i \in 1 .. (N + 1) : r[i].time = m} = {i \in 1 .. N : q[i].time = m}
    BY <1>1, <2>1, <2>2
  <2>5. NewestIn(r) = NewestIn(q) /\ NewestIn(q) \in 1 .. N
    <3>1. NewestIn(r) = Max({i \in 1 .. Len(r) : r[i].time = m})
      BY <1>1, <2>1, <2>3, NewestIs
    <3>2. NewestIn(q) = Max({i \in 1 .. N : q[i].time = m}) /\ NewestIn(q) \in 1 .. N
      BY <2>1, NewestIs
    <3>. QED BY <1>1, <2>4, <3>1, <3>2
  <2>6. NewestIn(q) > n => n < N
    BY <1>1, <2>5
  <2>7. r[NewestIn(q)] = q[NewestIn(q)]
    BY <1>1, <2>5
  <2>. QED BY <1>2, <1>4, <1>5, <2>3, <2>5, <2>6, <2>7 DEF CloseOf, k, l
<1>13. CorrectedOf(r, n) =
         [high |-> Correction!Max({b.high, t.price}), low |-> Correction!Min({b.low, t.price}),
          volume |-> b.volume + t.volume, close |-> CloseOf(r, n)]
  BY <1>7, <1>8, <1>9 DEF CorrectedOf, k
<1>14. IsNewestTime(r, IF newer THEN t.time ELSE m)
  <2>. HIDE DEF newer
  <2>. QED BY <1>11, <1>12
<1>15. CloseOf(r, n) = IF newer THEN t.price ELSE b.close
  <2>. HIDE DEF newer
  <2>. QED BY <1>11, <1>12
<1>. QED BY <1>13, <1>14, <1>15 DEF b, r

RegisteredBars == {s \in Starts : bars[s] # None}
Listed(o) == {o[i] : i \in 1 .. Len(o)}

CorrectionInvariant ==
  /\ watermark \in Starts \cup {None} /\ order \in Seq(Starts)
  /\ bars \in [Starts -> Finished \cup {None}] /\ latestTick \in [Starts -> Int \cup {None}]
  /\ applied \in [Starts -> Seq(LateTicks)] /\ since \in [Starts -> Nat]
  /\ \A s \in Starts : since[s] =< Len(applied[s]) /\ IsNewestTime(applied[s], latestTick[s])
  /\ \A s \in Starts : bars[s] # None => bars[s] = CorrectedOf(applied[s], since[s])
  /\ Listed(order) = RegisteredBars
  /\ Len(order) = Cardinality(RegisteredBars)

LEMMA CorrectionStarts == PartsInit => CorrectionInvariant
<1>1. ASSUME PartsInit PROVE CorrectionInvariant
  <2>1. /\ watermark = None /\ order = <<>> /\ bars = [s \in Starts |-> None]
        /\ latestTick = [s \in Starts |-> None] /\ applied = [s \in Starts |-> <<>>]
        /\ since = [s \in Starts |-> 0]
    BY <1>1 DEF PartsInit, Correction!Init
  <2>2. RegisteredBars = {} /\ Len(order) = 0 /\ 1 .. 0 = {}
    BY <2>1 DEF RegisteredBars
  <2>3. Cardinality({}) = 0
    BY FS_EmptySet
  <2>4. Listed(order) = {}
    BY <2>2 DEF Listed
  <2>5. \A s \in Starts : since[s] =< Len(applied[s]) /\ IsNewestTime(applied[s], latestTick[s])
    BY <2>1 DEF IsNewestTime
  <2>. QED BY <2>1, <2>2, <2>3, <2>4, <2>5 DEF CorrectionInvariant
<1>. QED BY <1>1

\* A bar that covers a time is registered.
LEMMA CoveringIsRegistered ==
  ASSUME CorrectionInvariant, NEW time \in Int, NEW s \in Correction!Covering(time)
  PROVE  s \in RegisteredBars
<1>. DEFINE C == {i \in DOMAIN order : order[i] =< time /\ time < order[i] + Frame}
            O == {order[i] : i \in DOMAIN order}
<1>1. order \in Seq(Starts) /\ O = RegisteredBars
  <2>1. order \in Seq(Starts) /\ Listed(order) = RegisteredBars
    BY DEF CorrectionInvariant
  <2>2. DOMAIN order = 1 .. Len(order)
    BY <2>1, LenProperties
  <2>. QED BY <2>1, <2>2 DEF Listed
<1>2. \/ s \in O
      \/ C # {} /\ s = order[Min(C)]
  BY SameExtremes DEF Correction!Covering, Correction!ToSet
<1>3. C # {} => Min(C) \in DOMAIN order
  <2>1. DOMAIN order = 1 .. Len(order) /\ Len(order) \in Int /\ 1 \in Int
    BY <1>1, LenProperties
  <2>. DEFINE D == DOMAIN order
  <2>2. IsFiniteSet(1 .. Len(order))
    BY <2>1, FS_Interval
  <2>3. IsFiniteSet(D) /\ D \in SUBSET Int /\ C \in SUBSET D
    BY <2>1, <2>2
  <2>. HIDE DEF C, D
  <2>4. C \in SUBSET Int /\ IsFiniteSet(C)
    BY <2>3, FS_Subset
  <2>5. C # {} => Min(C) \in C
    BY <2>4, Extremes
  <2>. QED BY <2>3, <2>5 DEF D
<1>. QED BY <1>1, <1>2, <1>3

LEMMA RegisteredAreFinite ==
  ASSUME CorrectionInvariant
  PROVE  IsFiniteSet(RegisteredBars)
<1>. DEFINE I == 1 .. Len(order)
<1>1. order \in Seq(Starts) /\ {order[i] : i \in I} = RegisteredBars
  BY DEF CorrectionInvariant, Listed
<1>2. Len(order) \in Int /\ 1 \in Int
  BY <1>1, LenProperties
<1>3. IsFiniteSet(I)
  BY <1>2, FS_Interval
<1>. HIDE DEF I
<1>. QED BY <1>1, <1>3, ImageIsFinite

LEMMA SetWatermarkKeeps ==
  ASSUME CorrectionInvariant, NEW w \in Starts, Correction!SetWatermark(w)
  PROVE  CorrectionInvariant'
<1>1. watermark' = w /\ UNCHANGED <<order, bars, latestTick, applied, since>>
  BY DEF Correction!SetWatermark
<1>2. RegisteredBars' = RegisteredBars
  BY <1>1 DEF RegisteredBars
<1>. QED BY <1>1, <1>2, Zenon DEF CorrectionInvariant

LEMMA AddBarKeeps ==
  ASSUME CorrectionInvariant, NEW s \in Starts, NEW c, Correction!AddBar(s, c)
  PROVE  CorrectionInvariant'
<1>1. /\ watermark \in Starts \cup {None} /\ order \in Seq(Starts)
      /\ bars \in [Starts -> Finished \cup {None}] /\ latestTick \in [Starts -> Int \cup {None}]
      /\ applied \in [Starts -> Seq(LateTicks)] /\ since \in [Starts -> Nat]
      /\ \A z \in Starts : since[z] =< Len(applied[z]) /\ IsNewestTime(applied[z], latestTick[z])
      /\ \A z \in Starts : bars[z] # None => bars[z] = CorrectedOf(applied[z], since[z])
      /\ Listed(order) = RegisteredBars
      /\ Len(order) = Cardinality(RegisteredBars)
  BY DEF CorrectionInvariant
<1>2. /\ bars' = [bars EXCEPT ![s] = OriginalBar]
      /\ order' = IF bars[s] = None THEN Append(order, s) ELSE order
      /\ since' = [since EXCEPT ![s] = Len(applied[s])]
      /\ watermark' = watermark /\ latestTick' = latestTick /\ applied' = applied
  BY DEF Correction!AddBar
<1>3. OriginalBar \in Finished /\ OriginalBar # None
  BY CorrectionAssumptions
<1>4. \A z \in Starts : Len(applied[z]) \in Nat
  BY <1>1, LenProperties
<1>5. bars' \in [Starts -> Finished \cup {None}] /\ since' \in [Starts -> Nat]
  BY <1>1, <1>2, <1>3, <1>4
<1>6. ASSUME NEW z \in Starts
      PROVE  /\ since'[z] =< Len(applied'[z])
             /\ bars'[z] # None => bars'[z] = CorrectedOf(applied'[z], since'[z])
  <2>1. CASE z = s
    <3>1. CorrectedOf(applied[s], Len(applied[s])) = OriginalBar
      BY <1>1, CorrectedFresh
    <3>2. bars'[s] = OriginalBar /\ since'[s] = Len(applied[s]) /\ applied'[s] = applied[s]
      BY <1>1, <1>2
    <3>. QED BY <1>4, <2>1, <3>1, <3>2
  <2>2. CASE z # s
    <3>1. bars'[z] = bars[z] /\ since'[z] = since[z] /\ applied'[z] = applied[z]
      BY <1>1, <1>2, <2>2
    <3>. QED BY <1>1, <3>1
  <2>. QED BY <2>1, <2>2
<1>7. RegisteredBars' = RegisteredBars \cup {s}
  <2>1. bars'[s] # None /\ \A z \in Starts : z # s => bars'[z] = bars[z]
    BY <1>1, <1>2, <1>3
  <2>. QED BY <2>1 DEF RegisteredBars
<1>8. /\ order' \in Seq(Starts) /\ Listed(order') = RegisteredBars \cup {s}
      /\ Len(order') = Cardinality(RegisteredBars \cup {s})
  <2>. DEFINE N == Len(order)
              r == IF bars[s] = None THEN Append(order, s) ELSE order
  <2>1. /\ r \in Seq(Starts) /\ Listed(r) = RegisteredBars \cup {s}
        /\ Len(r) = Cardinality(RegisteredBars \cup {s})
    <3>1. CASE bars[s] # None
      <4>1. r = order /\ RegisteredBars \cup {s} = RegisteredBars
        BY <3>1 DEF RegisteredBars
      <4>. HIDE DEF r
      <4>. QED BY <1>1, <4>1, Zenon
    <3>2. CASE bars[s] = None
      <4>1. r = Append(order, s)
        BY <3>2
      <4>. HIDE DEF r
      <4>2. /\ r \in Seq(Starts) /\ Len(r) = N + 1 /\ r[N + 1] = s /\ N \in Nat
            /\ \A i \in 1 .. N : r[i] = order[i]
        BY <1>1, <4>1, AppendProperties, LenProperties
      <4>3. \A i : i \in 1 .. (N + 1) <=> i \in 1 .. N \/ i = N + 1
        BY <4>2
      <4>4. Listed(r) = Listed(order) \cup {s}
        BY <4>2, <4>3 DEF Listed
      <4>5. s \notin RegisteredBars
        BY <3>2 DEF RegisteredBars
      <4>6. Cardinality(RegisteredBars \cup {s}) = Cardinality(RegisteredBars) + 1
        BY <4>5, RegisteredAreFinite, FS_AddElement
      <4>7. Listed(r) = RegisteredBars \cup {s}
        BY <1>1, <4>4
      <4>8. Len(r) = Cardinality(RegisteredBars \cup {s})
        BY <1>1, <4>2, <4>6
      <4>. QED BY <4>2, <4>7, <4>8
    <3>. QED BY <3>1, <3>2
  <2>2. order' = r
    BY <1>2
  <2>. HIDE DEF r
  <2>. QED BY <2>1, <2>2, Zenon
<1>9. \A z \in Starts : IsNewestTime(applied'[z], latestTick'[z])
  BY <1>1, <1>2
<1>. QED BY <1>1, <1>2, <1>5, <1>6, <1>7, <1>8, <1>9 DEF CorrectionInvariant

LEMMA ProcessTickKeeps ==
  ASSUME CorrectionInvariant, NEW t \in LateTicks, Correction!ProcessTick(t)
  PROVE  CorrectionInvariant'
<1>1. /\ watermark \in Starts \cup {None} /\ order \in Seq(Starts)
      /\ bars \in [Starts -> Finished \cup {None}] /\ latestTick \in [Starts -> Int \cup {None}]
      /\ applied \in [Starts -> Seq(LateTicks)] /\ since \in [Starts -> Nat]
      /\ \A z \in Starts : since[z] =< Len(applied[z]) /\ IsNewestTime(applied[z], latestTick[z])
      /\ \A z \in Starts : bars[z] # None => bars[z] = CorrectedOf(applied[z], since[z])
      /\ Listed(order) = RegisteredBars
      /\ Len(order) = Cardinality(RegisteredBars)
  BY DEF CorrectionInvariant
<1>2. PICK s \in Correction!Covering(t.time) :
        /\ bars' = [bars EXCEPT
             ![s] = [high |-> Correction!Max({@.high, t.price}),
                     low |-> Correction!Min({@.low, t.price}),
                     volume |-> @.volume + t.volume,
                     close |-> IF Correction!IsLatest(s, t) THEN t.price ELSE @.close]]
        /\ latestTick' = [latestTick EXCEPT
             ![s] = IF Correction!IsLatest(s, t) THEN t.time ELSE @]
        /\ applied' = [applied EXCEPT ![s] = Append(@, t)]
  BY DEF Correction!ProcessTick
<1>3. watermark' = watermark /\ order' = order /\ since' = since
  BY DEF Correction!ProcessTick
<1>4. t.time \in Int /\ t.price \in Int /\ t.volume \in Int
  BY CorrectionAssumptions
<1>5. s \in Starts /\ bars[s] # None
  <2>1. s \in RegisteredBars
    BY <1>2, <1>4, CoveringIsRegistered
  <2>. QED BY <2>1 DEF RegisteredBars
<1>. DEFINE q == applied[s]
            n == since[s]
            m == latestTick[s]
            b == bars[s]
            newer == m = None \/ t.time >= m
            b2 == [high |-> Correction!Max({b.high, t.price}),
                   low |-> Correction!Min({b.low, t.price}), volume |-> b.volume + t.volume,
                   close |-> IF newer THEN t.price ELSE b.close]
<1>6. /\ q \in Seq(LateTicks) /\ n \in Nat /\ n =< Len(q) /\ IsNewestTime(q, m)
      /\ b = CorrectedOf(q, n) /\ b \in Finished /\ m \in Int \cup {None} /\ Len(q) \in Nat
  BY <1>1, <1>5, LenProperties
<1>7. /\ bars' = [bars EXCEPT ![s] = b2]
      /\ latestTick' = [latestTick EXCEPT ![s] = IF newer THEN t.time ELSE m]
      /\ applied' = [applied EXCEPT ![s] = Append(q, t)]
  <2>1. Correction!IsLatest(s, t) = newer
    BY DEF Correction!IsLatest
  <2>2. /\ latestTick' = [latestTick EXCEPT ![s] = IF newer THEN t.time ELSE m]
        /\ applied' = [applied EXCEPT ![s] = Append(q, t)]
    BY <1>1, <1>2, <1>5, <2>1
  <2>3. bars' = [bars EXCEPT ![s] = b2]
    BY <1>1, <1>2, <1>5, <2>1
  <2>. QED BY <2>2, <2>3
<1>8. CorrectedOf(Append(q, t), n) = b2 /\ IsNewestTime(Append(q, t), IF newer THEN t.time ELSE m)
  <2>. HIDE DEF q, n, m
  <2>. DEFINE d == CorrectedOf(q, n)
  <2>1. /\ CorrectedOf(Append(q, t), n) =
             [high |-> Correction!Max({d.high, t.price}),
              low |-> Correction!Min({d.low, t.price}), volume |-> d.volume + t.volume,
              close |-> IF newer THEN t.price ELSE d.close]
        /\ IsNewestTime(Append(q, t), IF newer THEN t.time ELSE m)
    BY <1>6, CorrectedStep
  <2>2. d = b
    BY <1>6
  <2>. HIDE DEF d, b, newer
  <2>. QED BY <2>1, <2>2, Zenon
<1>9. Append(q, t) \in Seq(LateTicks) /\ Len(Append(q, t)) = Len(q) + 1
  <2>. HIDE DEF q
  <2>. QED BY <1>6, AppendProperties
<1>10. b2 \in Finished /\ b2 # None
  <2>1. Correction!Max({b.high, t.price}) \in Int /\ Correction!Min({b.low, t.price}) \in Int
    BY <1>4, <1>6, PairExtremes, SameExtremes DEF Finished
  <2>2. b.volume + t.volume \in Int /\ b.close \in Int
    BY <1>4, <1>6 DEF Finished
  <2>. HIDE DEF b, newer
  <2>3. b2 \in Finished
    BY <1>4, <2>1, <2>2 DEF Finished
  <2>. QED BY <2>3, CorrectionAssumptions
<1>11. (IF newer THEN t.time ELSE m) \in Int \cup {None}
  BY <1>4, <1>6
<1>12. bars' \in [Starts -> Finished \cup {None}] /\ latestTick' \in [Starts -> Int \cup {None}]
       /\ applied' \in [Starts -> Seq(LateTicks)]
  <2>. HIDE DEF b2, q, newer, m
  <2>. QED BY <1>1, <1>7, <1>9, <1>10, <1>11
<1>13. /\ bars'[s] = b2 /\ latestTick'[s] = (IF newer THEN t.time ELSE m)
       /\ applied'[s] = Append(q, t)
       /\ \A z \in Starts : z # s => /\ bars'[z] = bars[z] /\ latestTick'[z] = latestTick[z]
                                     /\ applied'[z] = applied[z]
  <2>. HIDE DEF b2, q, newer, m
  <2>. QED BY <1>1, <1>5, <1>7
<1>14. ASSUME NEW z \in Starts
       PROVE  /\ since'[z] =< Len(applied'[z]) /\ IsNewestTime(applied'[z], latestTick'[z])
              /\ bars'[z] # None => bars'[z] = CorrectedOf(applied'[z], since'[z])
  <2>1. CASE z = s
    <3>1. since'[z] = n
      BY <1>3, <2>1
    <3>2. n =< Len(q) + 1
      BY <1>6
    <3>. HIDE DEF b2, q, newer, m, n
    <3>. QED BY <1>8, <1>9, <1>13, <2>1, <3>1, <3>2
  <2>2. CASE z # s
    BY <1>1, <1>3, <1>13, <2>2
  <2>. QED BY <2>1, <2>2
<1>15. RegisteredBars' = RegisteredBars
  <2>. HIDE DEF b2
  <2>. QED BY <1>5, <1>10, <1>13 DEF RegisteredBars
<1>. HIDE DEF b2, q, newer, m, n
<1>. QED BY <1>1, <1>3, <1>12, <1>14, <1>15 DEF CorrectionInvariant

LEMMA CorrectionStep ==
  ASSUME CorrectionInvariant, Correction!Next
  PROVE  CorrectionInvariant'
BY SetWatermarkKeeps, AddBarKeeps, ProcessTickKeeps DEF Correction!Next, LateTicks

LEMMA CorrectionInvariantHolds == PartsSpec => []CorrectionInvariant
<1>1. ASSUME CorrectionInvariant, [PartsNext]_allVars PROVE CorrectionInvariant'
  <2>1. ASSUME UNCHANGED correctionVars PROVE CorrectionInvariant'
    <3>1. watermark' = watermark /\ UNCHANGED <<order, bars, latestTick, applied, since>>
      BY <2>1 DEF correctionVars
    <3>2. RegisteredBars' = RegisteredBars
      BY <3>1 DEF RegisteredBars
    <3>. QED BY <1>1, <3>1, <3>2, Zenon DEF CorrectionInvariant
  <2>. QED BY <1>1, <2>1, CorrectionStep DEF PartsNext, Frozen, allVars
<1>. QED BY <1>1, CorrectionStarts, PTL DEF PartsSpec

\* Whatever the timeframe, the bars and the ticks, a bar is its registered form
\* with every later late tick counted once, in whatever order they came, and its
\* close moved only if the newest tick it ever saw came after it was registered
\* (BarCorrectionEngine.add_bar and process_tick).
THEOREM CorrectionsAlwaysAddUp == PartsSpec => []CorrectionsAddUp
<1>1. ASSUME CorrectionInvariant PROVE CorrectionsAddUp
  <2>1. /\ watermark \in Starts \cup {None} /\ order \in Seq(Starts)
        /\ bars \in [Starts -> Finished \cup {None}]
        /\ applied \in [Starts -> Seq(LateTicks)] /\ since \in [Starts -> Nat]
        /\ \A z \in Starts : since[z] =< Len(applied[z])
        /\ \A z \in Starts : bars[z] # None => bars[z] = CorrectedOf(applied[z], since[z])
        /\ Listed(order) = RegisteredBars
        /\ Len(order) = Cardinality(RegisteredBars)
    BY <1>1 DEF CorrectionInvariant
  <2>2. Correction!Registered = RegisteredBars /\ DOMAIN order = 1 .. Len(order)
    BY <2>1, LenProperties DEF Correction!Registered, RegisteredBars
  <2>3. \A S : Correction!Cardinality(S) = Cardinality(S)
    BY DEF Correction!Cardinality, Cardinality
  <2>4. \A s \in RegisteredBars : DOMAIN bars[s] = DOMAIN OriginalBar
    BY <2>1, CorrectionAssumptions DEF RegisteredBars, Finished
  <2>5. Correction!TypeOK
    BY <2>1, <2>2, <2>3, <2>4 DEF Correction!TypeOK, Correction!ToSet, Listed
  <2>6. \A s \in RegisteredBars : bars[s] = Correction!Corrected(applied[s], since[s])
    BY <2>1, CorrectedIs DEF RegisteredBars
  <2>. QED BY <2>2, <2>5, <2>6 DEF CorrectionsAddUp, Correction!CorrectionsAddUp
<1>. QED BY <1>1, CorrectionInvariantHolds, PTL
-----------------------------------------------------------------------------
(***************************************************************************)
(* The paginator.                                                          *)
(***************************************************************************)
LEMMA PagesAssumptions ==
  /\ Records \in SUBSET (Int \X Int) /\ IsFiniteSet(Records)
  /\ Ranges \subseteq Int \X Int /\ PageSizes \subseteq Nat \ {0}
BY MarketDataAssumption DEF Pages!PagesAssumption, Pages!IsFiniteSet, IsFiniteSet

\* Records are in one order.
LEMMA NewerIsOrder ==
  /\ \A a \in Int \X Int : ~Pages!Newer(a, a) /\ Pages!Time(a) \in Int
  /\ \A a, b, c \in Int \X Int : Pages!Newer(a, b) /\ Pages!Newer(b, c) => Pages!Newer(a, c)
  /\ \A a, b \in Int \X Int : Pages!Newer(a, b) \/ Pages!Newer(b, a) \/ a = b
  /\ \A a, b \in Int \X Int : Pages!Newer(a, b) => Pages!Time(a) >= Pages!Time(b)
  /\ \A a, b \in Int \X Int : Pages!Time(a) > Pages!Time(b) => Pages!Newer(a, b)
<1>1. \A a \in Int \X Int : a[1] \in Int /\ a[2] \in Int /\ a = <<a[1], a[2]>>
  OBVIOUS
<1>2. \A a, b \in Int \X Int : a[1] = b[1] /\ a[2] = b[2] => a = b
  BY <1>1
<1>. QED BY <1>1, <1>2 DEF Pages!Newer, Pages!Time

\* Every record has a rank of its own, and the ranks are all there.
LEMMA NewestFirstIs ==
  ASSUME NEW R \in SUBSET (Int \X Int), IsFiniteSet(R)
  PROVE  LET l == Pages!NewestFirst(R)
             n == Cardinality(R)
         IN  /\ l \in Seq(R) /\ Len(l) = n
             /\ \A r \in R : \E i \in 1 .. n : l[i] = r
             /\ \A i, j \in 1 .. n : i < j => Pages!Newer(l[i], l[j])
<1>. DEFINE n == Cardinality(R)
            Before(r) == {s \in R : Pages!Newer(s, r)}
            f == [r \in R |-> Cardinality(Before(r))]
            T == {f[r] : r \in R}
            l == Pages!NewestFirst(R)
<1>1. n \in Nat
  BY FS_CardinalityType
<1>2. \A r \in R : r \in Int \X Int /\ Before(r) \in SUBSET R
  OBVIOUS
<1>3. \A r \in R : IsFiniteSet(Before(r)) /\ Cardinality(Before(r)) \in Nat
  <2>. HIDE DEF Before
  <2>. QED BY <1>2, FS_Subset, FS_CardinalityType
<1>4. \A r \in R : f[r] = Cardinality(Before(r)) /\ f[r] \in Nat
  <2>. HIDE DEF Before
  <2>. QED BY <1>3
<1>5. ASSUME NEW a \in R, NEW b \in R, Pages!Newer(a, b) PROVE f[a] < f[b]
  <2>1. a \in Before(b) /\ a \notin Before(a) /\ Before(a) \in SUBSET Before(b)
    BY <1>2, <1>5, NewerIsOrder
  <2>. HIDE DEF Before
  <2>2. /\ Cardinality(Before(a)) =< Cardinality(Before(b))
        /\ Cardinality(Before(b)) = Cardinality(Before(a)) => Before(b) = Before(a)
    BY <1>3, <2>1, FS_Subset
  <2>3. Cardinality(Before(a)) # Cardinality(Before(b))
    BY <2>1, <2>2
  <2>. HIDE DEF f
  <2>. QED BY <1>3, <1>4, <2>2, <2>3
<1>6. ASSUME NEW r \in R PROVE f[r] \in 0 .. (n - 1)
  <2>1. Before(r) \in SUBSET (R \ {r})
    BY <1>2, NewerIsOrder
  <2>. HIDE DEF Before
  <2>2. IsFiniteSet(R \ {r}) /\ Cardinality(R \ {r}) = n - 1
    BY FS_RemoveElement
  <2>3. Cardinality(Before(r)) =< Cardinality(R \ {r})
    BY <2>1, <2>2, FS_Subset
  <2>. HIDE DEF f, n
  <2>. QED BY <1>1, <1>4, <2>2, <2>3
<1>. HIDE DEF Before
<1>7. \A a, b \in R : f[a] = f[b] => a = b
  <2>1. TAKE a, b \in R
  <2>2. f[a] \in Nat /\ f[b] \in Nat
    BY <1>4
  <2>. HIDE DEF f
  <2>. QED BY <1>2, <1>5, <2>2, NewerIsOrder
<1>8. T = 0 .. (n - 1)
  <2>1. f \in Surjection(R, T)
    BY DEF Surjection
  <2>2. f \in Injection(R, T)
    BY <1>7 DEF Injection, IsInjective
  <2>3. IsFiniteSet(T) /\ Cardinality(T) = n
    <3>. HIDE DEF f, T
    <3>. QED BY <2>1, <2>2, FS_Surjection
  <2>4. T \in SUBSET (0 .. (n - 1))
    BY <1>6
  <2>5. IsFiniteSet(0 .. (n - 1)) /\ Cardinality(0 .. (n - 1)) = n
    <3>1. 0 \in Int /\ n - 1 \in Int
      BY <1>1
    <3>. HIDE DEF n
    <3>2. /\ IsFiniteSet(0 .. (n - 1))
          /\ Cardinality(0 .. (n - 1)) = IF 0 > n - 1 THEN 0 ELSE ((n - 1) - 0) + 1
      BY <3>1, FS_Interval
    <3>. QED BY <1>1, <3>2
  <2>. DEFINE I == 0 .. (n - 1)
  <2>. HIDE DEF T, n, I
  <2>6. IsFiniteSet(I) /\ T \in SUBSET I /\ Cardinality(I) = Cardinality(T)
    BY <2>3, <2>4, <2>5 DEF I
  <2>7. T = I
    BY <2>6, FS_Subset
  <2>. QED BY <2>7 DEF I
<1>9. /\ \A S : Pages!Cardinality(S) = Cardinality(S)
      /\ l = [i \in 1 .. Pages!Cardinality(R) |->
                CHOOSE r \in R : Pages!Cardinality(Before(r)) = i - 1]
  <2>1. \A S : Pages!Cardinality(S) = Cardinality(S)
    BY DEF Pages!Cardinality, Cardinality
  <2>2. l = [i \in 1 .. Pages!Cardinality(R) |->
                CHOOSE r \in R : Pages!Cardinality(Before(r)) = i - 1]
    BY DEF Pages!NewestFirst, Before
  <2>. QED BY <2>1, <2>2
<1>. HIDE DEF l
<1>10. ASSUME NEW i \in 1 .. n PROVE l[i] \in R /\ f[l[i]] = i - 1
  <2>1. i - 1 \in 0 .. (n - 1)
    BY <1>1
  <2>2. PICK r \in R : f[r] = i - 1
    <3>. HIDE DEF n, f
    <3>. QED BY <1>8, <2>1
  <2>3. Cardinality(Before(r)) = i - 1
    BY <1>4, <2>2
  <2>4. l[i] = CHOOSE x \in R : Pages!Cardinality(Before(x)) = i - 1
    BY <1>9
  <2>5. Pages!Cardinality(Before(r)) = i - 1
    BY <1>9, <2>3
  <2>6. l[i] \in R /\ Pages!Cardinality(Before(l[i])) = i - 1
    BY <2>4, <2>5
  <2>7. l[i] \in R /\ Cardinality(Before(l[i])) = i - 1
    BY <1>9, <2>6
  <2>. QED BY <1>4, <2>7
<1>. HIDE DEF f, T, n
<1>11. DOMAIN l = 1 .. n /\ l \in Seq(R) /\ Len(l) = n
  <2>1. Pages!Cardinality(R) = n
    BY <1>9 DEF n
  <2>2. DOMAIN l = 1 .. n /\ l = [i \in DOMAIN l |-> l[i]]
    BY <1>9, <2>1
  <2>3. l \in [1 .. n -> R]
    BY <1>10, <2>2
  <2>. QED BY <1>1, <2>3
<1>12. ASSUME NEW r \in R PROVE \E i \in 1 .. n : l[i] = r
  <2>. DEFINE i == f[r] + 1
  <2>1. i \in 1 .. n /\ i - 1 = f[r]
    BY <1>1, <1>6
  <2>. HIDE DEF i
  <2>2. l[i] = r
    BY <1>7, <1>10, <2>1
  <2>. QED BY <2>1, <2>2
<1>13. ASSUME NEW i \in 1 .. n, NEW j \in 1 .. n, i < j PROVE Pages!Newer(l[i], l[j])
  <2>1. l[i] \in R /\ l[j] \in R /\ f[l[i]] = i - 1 /\ f[l[j]] = j - 1
    BY <1>10
  <2>2. f[l[i]] < f[l[j]]
    BY <1>1, <1>13, <2>1
  <2>3. ~(f[l[j]] < f[l[i]]) /\ l[i] # l[j]
    BY <1>1, <1>13, <2>1
  <2>. QED BY <1>2, <1>5, <2>1, <2>3, NewerIsOrder
<1>. QED BY <1>11, <1>12, <1>13 DEF l, n
Holds(s, r) == \E i \in 1 .. Len(s) : s[i] = r
Descends(s) == \A i, j \in 1 .. Len(s) : i < j => Pages!Newer(s[i], s[j])

\* One page of them is the newest: what it leaves out is older than all of it.
LEMMA PageIs ==
  ASSUME NEW R \in SUBSET (Int \X Int), IsFiniteSet(R), NEW k \in Nat \ {0}
  PROVE  LET n == Cardinality(R)
             b == SubSeq(Pages!NewestFirst(R), 1, IF n < k THEN n ELSE k)
         IN  /\ b \in Seq(R) /\ Descends(b)
             /\ b = <<>> => R = {}
             /\ \A r \in R : Holds(b, r) \/ \A x : Holds(b, x) => Pages!Newer(x, r)
<1>. DEFINE n == Cardinality(R)
            m == IF n < k THEN n ELSE k
            l == Pages!NewestFirst(R)
            b == SubSeq(l, 1, m)
<1>1. n \in Nat
  BY FS_CardinalityType
<1>2. /\ l \in Seq(R) /\ Len(l) = n
      /\ \A r \in R : \E i \in 1 .. n : l[i] = r
      /\ \A i, j \in 1 .. n : i < j => Pages!Newer(l[i], l[j])
  BY NewestFirstIs
<1>. HIDE DEF n, l
<1>3. m \in Nat /\ m =< n /\ (m = 0 => n = 0) /\ 1 .. m \subseteq 1 .. n
  BY <1>1
<1>. HIDE DEF m
<1>4. b \in Seq(R) /\ Len(b) = m /\ \A i \in 1 .. m : b[i] = l[i]
  BY <1>1, <1>2, <1>3
<1>. HIDE DEF b
<1>5. Descends(b)
  BY <1>2, <1>3, <1>4 DEF Descends
<1>6. b = <<>> => R = {}
  BY <1>1, <1>2, <1>3, <1>4
<1>7. ASSUME NEW r \in R PROVE Holds(b, r) \/ \A x : Holds(b, x) => Pages!Newer(x, r)
  <2>1. PICK i \in 1 .. n : l[i] = r
    BY <1>2
  <2>2. CASE i \in 1 .. m
    BY <1>4, <2>1, <2>2 DEF Holds
  <2>3. CASE i \notin 1 .. m
    <3>1. \A j \in 1 .. m : j \in 1 .. n /\ j < i
      BY <1>1, <1>3, <2>3
    <3>2. \A j \in 1 .. m : Pages!Newer(b[j], r)
      BY <1>2, <1>4, <2>1, <3>1
    <3>. QED BY <1>4, <3>2 DEF Holds
  <2>. QED BY <2>2, <2>3
<1>. QED BY <1>4, <1>5, <1>6, <1>7 DEF b, m, l, n

\* What the consumer gets of a batch, and what is left of it.
LEMMA BatchGiven ==
  ASSUME NEW S, NEW b \in Seq(S), b # <<>>
  PROVE  /\ Head(b) \in S /\ Tail(b) \in Seq(S)
         /\ \A r : Holds(b, r) <=> r = Head(b) \/ Holds(Tail(b), r)
         /\ Descends(b) => Descends(Tail(b)) /\ \A r : Holds(Tail(b), r) => Pages!Newer(Head(b), r)
<1>1. /\ Head(b) \in S /\ Head(b) = b[1] /\ Tail(b) \in Seq(S)
      /\ Len(b) \in Nat \ {0} /\ Len(Tail(b)) = Len(b) - 1
      /\ \A i \in 1 .. Len(Tail(b)) : Tail(b)[i] = b[i + 1] /\ i + 1 \in 1 .. Len(b) /\ 1 < i + 1
  BY HeadTailProperties
<1>2. 1 \in 1 .. Len(b) /\ \A i \in 1 .. Len(b) : i = 1 \/ (i - 1 \in 1 .. Len(Tail(b)) /\ (i - 1) + 1 = i)
  BY <1>1
<1>3. ASSUME NEW r, Holds(b, r) PROVE r = Head(b) \/ Holds(Tail(b), r)
  <2>1. PICK i \in 1 .. Len(b) : b[i] = r
    BY <1>3 DEF Holds
  <2>2. CASE i = 1
    BY <1>1, <2>1, <2>2
  <2>3. CASE i # 1
    <3>. DEFINE j == i - 1
    <3>1. j \in 1 .. Len(Tail(b)) /\ j + 1 = i
      BY <1>2, <2>3
    <3>2. Tail(b)[j] = r
      BY <1>1, <2>1, <3>1
    <3>. QED BY <3>1, <3>2 DEF Holds
  <2>. QED BY <2>2, <2>3
<1>4. ASSUME NEW r, r = Head(b) \/ Holds(Tail(b), r) PROVE Holds(b, r)
  BY <1>1, <1>2, <1>4 DEF Holds
<1>5. ASSUME Descends(b) PROVE Descends(Tail(b))
  <2>1. SUFFICES ASSUME NEW i \in 1 .. Len(Tail(b)), NEW j \in 1 .. Len(Tail(b)), i < j
                 PROVE  Pages!Newer(Tail(b)[i], Tail(b)[j])
    BY DEF Descends
  <2>2. i + 1 \in 1 .. Len(b) /\ j + 1 \in 1 .. Len(b) /\ i + 1 < j + 1
    BY <1>1, <2>1
  <2>3. Pages!Newer(b[i + 1], b[j + 1])
    BY <1>5, <2>2 DEF Descends
  <2>. QED BY <1>1, <2>3
<1>6. ASSUME Descends(b), NEW r, Holds(Tail(b), r) PROVE Pages!Newer(Head(b), r)
  <2>1. PICK i \in 1 .. Len(Tail(b)) : Tail(b)[i] = r
    BY <1>6 DEF Holds
  <2>2. 1 \in 1 .. Len(b) /\ i + 1 \in 1 .. Len(b) /\ 1 < i + 1 /\ b[i + 1] = r
    BY <1>1, <1>2, <2>1
  <2>3. Pages!Newer(b[1], b[i + 1])
    BY <1>6, <2>2 DEF Descends
  <2>. QED BY <1>1, <2>2, <2>3
<1>. QED BY <1>1, <1>3, <1>4, <1>5, <1>6

LEMMA OneMoreGiven ==
  ASSUME NEW S, NEW s \in Seq(S), NEW h \in S
  PROVE  /\ Append(s, h) \in Seq(S)
         /\ \A r : Holds(Append(s, h), r) <=> Holds(s, r) \/ r = h
         /\ Descends(s) /\ (\A r : Holds(s, r) => Pages!Newer(r, h)) => Descends(Append(s, h))
<1>. DEFINE t == Append(s, h)
            n == Len(s)
<1>1. /\ t \in Seq(S) /\ Len(t) = n + 1 /\ n \in Nat
      /\ \A i \in 1 .. n : t[i] = s[i]
      /\ t[n + 1] = h
  BY AppendProperties
<1>. HIDE DEF t, n
<1>2. 1 .. (n + 1) = (1 .. n) \cup {n + 1} /\ \A i \in 1 .. n : i < n + 1
  BY <1>1
<1>3. ASSUME NEW r PROVE Holds(t, r) <=> Holds(s, r) \/ r = h
  BY <1>1, <1>2 DEF Holds, n
<1>4. ASSUME Descends(s), \A r : Holds(s, r) => Pages!Newer(r, h) PROVE Descends(t)
  <2>1. SUFFICES ASSUME NEW i \in 1 .. (n + 1), NEW j \in 1 .. (n + 1), i < j
                 PROVE  Pages!Newer(t[i], t[j])
    BY <1>1 DEF Descends
  <2>2. i \in 1 .. n
    BY <1>1, <2>1
  <2>3. CASE j \in 1 .. n
    BY <1>1, <1>4, <2>1, <2>2, <2>3 DEF Descends, n
  <2>4. CASE j = n + 1
    <3>1. Holds(s, s[i])
      BY <2>2 DEF Holds, n
    <3>. QED BY <1>1, <1>4, <2>2, <2>4, <3>1
  <2>. QED BY <1>2, <2>3, <2>4
<1>. QED BY <1>1, <1>3, <1>4 DEF t

\* A record in range that was there from the start, alone at its time, and that
\* the consumer has not got.
Missing(r) ==
  /\ r \in archive \ arrived /\ ~Pages!Shared(r)
  /\ range[1] <= Pages!Time(r) /\ Pages!Time(r) < range[2]
  /\ ~Holds(yielded, r)

PagesTypes ==
  /\ range \in Ranges /\ page \in PageSizes
  /\ archive \in SUBSET Records /\ arrived \in SUBSET archive
  /\ cursor \in Int /\ batch \in Seq(archive) /\ yielded \in Seq(archive)
  /\ pc \in {"fetching", "yielding", "done"}
  /\ pc = "yielding" => batch # <<>>

\* The cursor parts what the consumer got from what is missing; within a batch
\* the batch itself does.
PagesOrder == boundary = "before" =>
  /\ cursor <= range[2]
  /\ Descends(yielded)
  /\ \A r : Holds(yielded, r) => range[1] <= Pages!Time(r) /\ Pages!Time(r) < range[2]
  /\ pc = "fetching" =>
       /\ \A r : Holds(yielded, r) => cursor <= Pages!Time(r)
       /\ \A r : Missing(r) => Pages!Time(r) < cursor
  /\ pc = "yielding" =>
       /\ Descends(batch)
       /\ \A r : Holds(batch, r) => Pages!Time(r) < cursor
       /\ \A r, s : Holds(yielded, r) /\ Holds(batch, s) => Pages!Newer(r, s)
       /\ \A r : Missing(r) => Holds(batch, r) \/ \A s : Holds(batch, s) => Pages!Newer(s, r)
  /\ pc = "done" => \A r : ~Missing(r)

PagesInvariant == part = "pages" => PagesTypes /\ PagesOrder

LEMMA PagesStart == PartsInit => PagesInvariant
<1>. SUFFICES ASSUME PartsInit PROVE PagesTypes /\ PagesOrder
  BY DEF PagesInvariant
<1>1. /\ range \in Ranges /\ page \in PageSizes /\ archive \in SUBSET Records /\ arrived = {}
      /\ cursor = range[2] /\ batch = <<>> /\ yielded = <<>> /\ pc = "fetching"
  BY DEF PartsInit, Pages!Init, Pages!EndTime
<1>2. range[1] \in Int /\ range[2] \in Int
  <2>1. range \in Int \X Int
    BY <1>1, PagesAssumptions
  <2>. QED BY <2>1
<1>3. batch \in Seq(archive) /\ yielded \in Seq(archive)
  BY <1>1
<1>4. PagesTypes
  BY <1>1, <1>2, <1>3 DEF PagesTypes
<1>5. \A r : ~Holds(yielded, r)
  BY <1>1 DEF Holds
<1>6. Descends(yielded)
  BY <1>1 DEF Descends
<1>7. cursor =< range[2] /\ \A r : Missing(r) => Pages!Time(r) < cursor
  BY <1>1, <1>2 DEF Missing
<1>. QED BY <1>1, <1>4, <1>5, <1>6, <1>7 DEF PagesOrder

\* What the records of an iteration are.
LEMMA PagesFacts ==
  ASSUME PagesTypes
  PROVE  /\ range[1] \in Int /\ range[2] \in Int /\ page \in Nat \ {0} /\ IsFiniteSet(archive)
         /\ archive \in SUBSET (Int \X Int) /\ \A r \in archive : Pages!Time(r) \in Int
         /\ \A r : Holds(batch, r) => r \in archive
         /\ \A r : Holds(yielded, r) => r \in archive
<1>1. range \in Int \X Int /\ page \in Nat \ {0}
  BY PagesAssumptions DEF PagesTypes
<1>2. archive \in SUBSET (Int \X Int) /\ IsFiniteSet(archive)
  BY PagesAssumptions, FS_Subset DEF PagesTypes
<1>3. \A r \in archive : Pages!Time(r) \in Int
  BY <1>2, NewerIsOrder
<1>4. /\ \A r : Holds(batch, r) => r \in archive
      /\ \A r : Holds(yielded, r) => r \in archive
  BY DEF PagesTypes, Holds
<1>. QED BY <1>1, <1>2, <1>3, <1>4

LEMMA FetchKeeps ==
  ASSUME PagesTypes, PagesOrder, Pages!Fetch
  PROVE  PagesTypes' /\ PagesOrder'
<1>. DEFINE B == {r \in archive :
                    Pages!Time(r) < cursor \/ (boundary = "upto" /\ Pages!Time(r) = cursor)}
            n == Cardinality(B)
            b == SubSeq(Pages!NewestFirst(B), 1, IF n < page THEN n ELSE page)
<1>1. /\ B \in SUBSET (Int \X Int) /\ IsFiniteSet(B) /\ page \in Nat \ {0} /\ B \in SUBSET archive
  <2>1. B \in SUBSET archive
    OBVIOUS
  <2>. HIDE DEF B
  <2>. QED BY <2>1, PagesFacts, FS_Subset
<1>2. Pages!Answer = b
  <2>1. \A S : Pages!Cardinality(S) = Cardinality(S)
    BY DEF Pages!Cardinality, Cardinality
  <2>2. Pages!Answer = SubSeq(Pages!NewestFirst(B), 1,
          IF Pages!Cardinality(B) < page THEN Pages!Cardinality(B) ELSE page)
    BY DEF Pages!Answer
  <2>. HIDE DEF B
  <2>. QED BY <2>1, <2>2
<1>3. \A r : r \in B <=> r \in archive /\
                 (Pages!Time(r) < cursor \/ (boundary = "upto" /\ Pages!Time(r) = cursor))
  OBVIOUS
<1>. HIDE DEF B
<1>4. /\ b \in Seq(B) /\ Descends(b)
      /\ b = <<>> => B = {}
      /\ \A r \in B : Holds(b, r) \/ \A x : Holds(b, x) => Pages!Newer(x, r)
  BY <1>1, PageIs
<1>. HIDE DEF b, n
<1>5. /\ pc = "fetching" /\ batch' = b /\ pc' = IF b = <<>> THEN "done" ELSE "yielding"
      /\ range' = range /\ page' = page /\ boundary' = boundary /\ archive' = archive
      /\ arrived' = arrived /\ cursor' = cursor /\ yielded' = yielded
  BY <1>2 DEF Pages!Fetch, Pages!arguments
<1>6. \A r : Holds(b, r) => r \in B
  BY <1>4 DEF Holds
<1>7. PagesTypes'
  <2>1. b \in Seq(archive)
    BY <1>1, <1>4
  <2>. QED BY <1>5, <2>1 DEF PagesTypes
<1>8. ASSUME boundary = "before" PROVE PagesOrder'
  <2>1. /\ cursor =< range[2] /\ Descends(yielded)
        /\ \A r : Holds(yielded, r) => range[1] <= Pages!Time(r) /\ Pages!Time(r) < range[2]
        /\ \A r : Holds(yielded, r) => cursor <= Pages!Time(r)
        /\ \A r : Missing(r) => Pages!Time(r) < cursor
    BY <1>5, <1>8 DEF PagesOrder
  <2>2. \A r : Missing(r)' <=> Missing(r)
    BY <1>5 DEF Missing, Pages!Shared
  <2>3. \A r : Missing(r) => r \in B
    BY <1>3, <2>1 DEF Missing
  <2>4. \A r : Holds(b, r) => Pages!Time(r) < cursor
    BY <1>3, <1>6, <1>8
  <2>5. ASSUME NEW r, NEW s, Holds(yielded, r), Holds(b, s) PROVE Pages!Newer(r, s)
    <3>1. r \in Int \X Int /\ s \in Int \X Int /\ Pages!Time(r) \in Int /\ Pages!Time(s) \in Int
      BY <1>1, <1>6, <2>5, PagesFacts, NewerIsOrder
    <3>2. cursor =< Pages!Time(r) /\ Pages!Time(s) < cursor /\ cursor \in Int
      BY <2>1, <2>4, <2>5 DEF PagesTypes
    <3>3. Pages!Time(r) > Pages!Time(s)
      BY <3>1, <3>2
    <3>. QED BY <3>1, <3>3, NewerIsOrder
  <2>6. \A r : Missing(r) => Holds(b, r) \/ \A s : Holds(b, s) => Pages!Newer(s, r)
    BY <1>4, <2>3
  <2>7. CASE b = <<>>
    <3>1. pc' = "done" /\ \A r : ~Missing(r)
      BY <1>4, <1>5, <2>3, <2>7
    <3>. QED BY <1>5, <2>1, <2>2, <3>1 DEF PagesOrder
  <2>8. CASE b # <<>>
    <3>1. pc' = "yielding"
      BY <1>5, <2>8
    <3>. QED BY <1>4, <1>5, <2>1, <2>2, <2>4, <2>5, <2>6, <3>1 DEF PagesOrder
  <2>. QED BY <2>7, <2>8
<1>9. boundary # "before" => PagesOrder'
  BY <1>5 DEF PagesOrder
<1>. QED BY <1>7, <1>8, <1>9

LEMMA ArriveKeeps ==
  ASSUME PagesTypes, PagesOrder, NEW r \in Records, Pages!Arrive(r)
  PROVE  PagesTypes' /\ PagesOrder'
<1>1. /\ archive' = archive \cup {r} /\ arrived' = arrived \cup {r}
      /\ range' = range /\ page' = page /\ boundary' = boundary
      /\ cursor' = cursor /\ batch' = batch /\ yielded' = yielded /\ pc' = pc
  BY DEF Pages!Arrive, Pages!arguments
<1>2. \A x : Missing(x)' => Missing(x)
  BY <1>1 DEF Missing, Pages!Shared
<1>3. PagesTypes'
  <2>1. archive \in SUBSET archive' /\ archive' \in SUBSET Records /\ arrived' \in SUBSET archive'
    BY <1>1 DEF PagesTypes
  <2>2. batch \in Seq(archive') /\ yielded \in Seq(archive')
    BY <2>1 DEF PagesTypes
  <2>. QED BY <1>1, <2>1, <2>2 DEF PagesTypes
<1>4. PagesOrder'
  BY <1>1, <1>2 DEF PagesOrder
<1>. QED BY <1>3, <1>4

\* What a step of the consumer does, in one place.
LEMMA YieldIs ==
  ASSUME PagesTypes, Pages!Yield
  PROVE  /\ pc = "yielding" /\ batch # <<>> /\ Head(batch) \in archive /\ Tail(batch) \in Seq(archive)
         /\ range' = range /\ page' = page /\ boundary' = boundary
         /\ archive' = archive /\ arrived' = arrived
         /\ \/ /\ Pages!Time(Head(batch)) < range[1]
               /\ pc' = "done" /\ cursor' = cursor /\ batch' = batch /\ yielded' = yielded
            \/ /\ ~(Pages!Time(Head(batch)) < range[1])
               /\ yielded' = Append(yielded, Head(batch)) /\ batch' = Tail(batch)
               /\ \/ Tail(batch) # <<>> /\ cursor' = cursor /\ pc' = pc
                  \/ /\ Tail(batch) = <<>> /\ pc' = "done" /\ cursor' = cursor
                     /\ Pages!Time(Head(batch)) =< range[1] \/ Pages!Time(Head(batch)) >= cursor
                  \/ /\ Tail(batch) = <<>> /\ pc' = "fetching" /\ cursor' = Pages!Time(Head(batch))
                     /\ Pages!Time(Head(batch)) > range[1] /\ Pages!Time(Head(batch)) < cursor
<1>1. pc = "yielding" /\ batch # <<>> /\ batch \in Seq(archive)
  BY DEF Pages!Yield, PagesTypes
<1>2. Head(batch) \in archive /\ Tail(batch) \in Seq(archive)
  BY <1>1, BatchGiven
<1>3. Pages!Time(Head(batch)) \in Int /\ range[1] \in Int /\ cursor \in Int
  BY <1>2, PagesFacts DEF PagesTypes
<1>4. /\ range' = range /\ page' = page /\ boundary' = boundary
      /\ archive' = archive /\ arrived' = arrived
  BY DEF Pages!Yield, Pages!arguments
<1>5. CASE Pages!Time(Head(batch)) < range[1]
  BY <1>1, <1>2, <1>4, <1>5 DEF Pages!Yield, Pages!Truncates, Pages!StartTime
<1>6. CASE ~(Pages!Time(Head(batch)) < range[1])
  <2>1. /\ yielded' = Append(yielded, Head(batch)) /\ batch' = Tail(batch)
        /\ IF Tail(batch) # <<>> THEN cursor' = cursor /\ pc' = pc
           ELSE IF Pages!Time(Head(batch)) =< range[1] \/ Pages!Time(Head(batch)) >= cursor
                THEN pc' = "done" /\ cursor' = cursor
                ELSE pc' = "fetching" /\ cursor' = Pages!Time(Head(batch))
    BY <1>6 DEF Pages!Yield, Pages!Truncates, Pages!StartTime, Pages!Stops
  <2>2. ~(Pages!Time(Head(batch)) =< range[1] \/ Pages!Time(Head(batch)) >= cursor)
          => Pages!Time(Head(batch)) > range[1] /\ Pages!Time(Head(batch)) < cursor
    BY <1>3
  <2>. QED BY <1>1, <1>2, <1>4, <1>6, <2>1, <2>2
<1>. QED BY <1>5, <1>6

LEMMA YieldKeepsTypes ==
  ASSUME PagesTypes, Pages!Yield
  PROVE  PagesTypes'
<1>1. Append(yielded, Head(batch)) \in Seq(archive)
  BY YieldIs, OneMoreGiven DEF PagesTypes
<1>2. Pages!Time(Head(batch)) \in Int
  BY YieldIs, PagesFacts
<1>3. cursor' \in Int /\ batch' \in Seq(archive) /\ yielded' \in Seq(archive)
  BY <1>1, <1>2, YieldIs DEF PagesTypes
<1>4. pc' \in {"fetching", "yielding", "done"} /\ (pc' = "yielding" => batch' # <<>>)
  BY YieldIs
<1>. QED BY <1>3, <1>4, YieldIs DEF PagesTypes

LEMMA YieldKeeps ==
  ASSUME PagesTypes, PagesOrder, Pages!Yield
  PROVE  PagesOrder'
<1>1. SUFFICES ASSUME boundary = "before" PROVE PagesOrder'
  BY YieldIs DEF PagesOrder
<1>. DEFINE h == Head(batch)
            rest == Tail(batch)
            more == Append(yielded, h)
<1>2. /\ pc = "yielding" /\ cursor =< range[2] /\ Descends(yielded) /\ Descends(batch)
      /\ \A r : Holds(yielded, r) => range[1] <= Pages!Time(r) /\ Pages!Time(r) < range[2]
      /\ \A r : Holds(batch, r) => Pages!Time(r) < cursor
      /\ \A r, s : Holds(yielded, r) /\ Holds(batch, s) => Pages!Newer(r, s)
      /\ \A r : Missing(r) => Holds(batch, r) \/ \A s : Holds(batch, s) => Pages!Newer(s, r)
  BY <1>1, YieldIs DEF PagesOrder
<1>3. /\ h \in archive /\ rest \in Seq(archive) /\ Descends(rest)
      /\ \A r : Holds(batch, r) <=> r = h \/ Holds(rest, r)
      /\ \A r : Holds(rest, r) => Pages!Newer(h, r)
  BY <1>2, BatchGiven DEF PagesTypes
<1>4. /\ \A r : Holds(more, r) <=> Holds(yielded, r) \/ r = h
      /\ Descends(more)
  BY <1>2, <1>3, OneMoreGiven DEF PagesTypes
<1>5. /\ Pages!Time(h) \in Int /\ range[1] \in Int /\ range[2] \in Int /\ cursor \in Int
      /\ \A r \in archive : r \in Int \X Int /\ Pages!Time(r) \in Int
  BY <1>3, PagesFacts DEF PagesTypes
<1>. HIDE DEF h, rest, more
<1>6. Pages!Time(h) < cursor /\ Pages!Time(h) < range[2]
  BY <1>2, <1>3, <1>5
\* What is still missing is older than the record in hand, or comes after it.
<1>7. ASSUME NEW r, Missing(r), r # h PROVE Pages!Newer(h, r) /\ r \in archive /\ Pages!Time(r) =< Pages!Time(h)
  <2>1. r \in archive /\ h \in Int \X Int /\ r \in Int \X Int
    BY <1>3, <1>5, <1>7 DEF Missing
  <2>2. Pages!Newer(h, r)
    BY <1>2, <1>3, <1>7
  <2>3. Pages!Time(h) >= Pages!Time(r)
    BY <2>1, <2>2, NewerIsOrder
  <2>. QED BY <1>5, <2>1, <2>2, <2>3
<1>8. ASSUME Pages!Time(h) < range[1] PROVE PagesOrder'
  <2>1. /\ pc' = "done" /\ cursor' = cursor /\ yielded' = yielded /\ archive' = archive
        /\ arrived' = arrived /\ range' = range
    BY <1>5, <1>8, YieldIs DEF h
  <2>2. ASSUME NEW r PROVE ~Missing(r)
    <3>1. SUFFICES ASSUME Missing(r) PROVE FALSE
      OBVIOUS
    <3>2. range[1] =< Pages!Time(r) /\ r \in archive
      BY <3>1 DEF Missing
    <3>3. r # h
      BY <1>5, <1>8, <3>2
    <3>4. Pages!Time(r) =< Pages!Time(h)
      BY <1>7, <3>1, <3>3
    <3>. QED BY <1>5, <1>8, <3>2, <3>4
  <2>3. \A r : ~Missing(r)'
    BY <2>1, <2>2 DEF Missing, Pages!Shared
  <2>. QED BY <1>2, <2>1, <2>3 DEF PagesOrder
<1>9. ASSUME ~(Pages!Time(h) < range[1]) PROVE PagesOrder'
  <2>1. /\ yielded' = more /\ batch' = rest /\ archive' = archive /\ arrived' = arrived
        /\ range' = range /\ boundary' = boundary
        /\ \/ rest # <<>> /\ cursor' = cursor /\ pc' = pc
           \/ /\ rest = <<>> /\ pc' = "done" /\ cursor' = cursor
              /\ Pages!Time(h) =< range[1] \/ Pages!Time(h) >= cursor
           \/ rest = <<>> /\ pc' = "fetching" /\ cursor' = Pages!Time(h)
    BY <1>9, YieldIs DEF h, rest, more
  <2>2. \A r : Missing(r)' <=> Missing(r) /\ r # h
    BY <1>4, <2>1 DEF Missing, Pages!Shared
  <2>3. /\ Descends(yielded')
        /\ \A r : Holds(yielded', r) => range'[1] <= Pages!Time(r) /\ Pages!Time(r) < range'[2]
    <3>1. range[1] =< Pages!Time(h)
      BY <1>5, <1>9
    <3>. QED BY <1>2, <1>4, <1>6, <2>1, <3>1
  <2>4. ASSUME rest # <<>>, cursor' = cursor, pc' = pc PROVE PagesOrder'
    <3>1. \A r, s : Holds(more, r) /\ Holds(rest, s) => Pages!Newer(r, s)
      BY <1>2, <1>3, <1>4
    <3>2. \A r : Holds(rest, r) => Pages!Time(r) < cursor
      BY <1>2, <1>3
    <3>3. \A r : Missing(r)' => Holds(rest, r) \/ \A s : Holds(rest, s) => Pages!Newer(s, r)
      BY <1>2, <1>3, <2>2
    <3>. QED BY <1>2, <1>3, <2>1, <2>3, <2>4, <3>1, <3>2, <3>3 DEF PagesOrder
  \* The batch was its last record.
  <2>5. ASSUME rest = <<>>, cursor' = cursor, pc' = "done",
               Pages!Time(h) =< range[1] \/ Pages!Time(h) >= cursor
        PROVE  PagesOrder'
    <3>1. Pages!Time(h) =< range[1]
      BY <1>5, <1>6, <2>5
    <3>2. ASSUME NEW r PROVE ~(Missing(r) /\ r # h)
      <4>1. SUFFICES ASSUME Missing(r), r # h PROVE FALSE
        OBVIOUS
      <4>2. r \in archive /\ range[1] =< Pages!Time(r) /\ ~Pages!Shared(r)
        BY <4>1 DEF Missing
      <4>3. Pages!Time(h) # Pages!Time(r)
        BY <1>3, <4>1, <4>2 DEF Pages!Shared
      <4>4. Pages!Time(r) =< Pages!Time(h)
        BY <1>7, <4>1
      <4>. QED BY <1>5, <3>1, <4>2, <4>3, <4>4
    <3>. QED BY <1>2, <2>1, <2>2, <2>3, <2>5, <3>2 DEF PagesOrder
  <2>6. ASSUME rest = <<>>, cursor' = Pages!Time(h), pc' = "fetching" PROVE PagesOrder'
    <3>1. cursor' =< range[2]
      BY <1>5, <1>6, <2>6
    <3>2. ASSUME NEW r, Holds(more, r) PROVE Pages!Time(h) =< Pages!Time(r)
      <4>1. CASE r = h
        BY <1>5, <4>1
      <4>2. CASE Holds(yielded, r)
        <5>1. Pages!Newer(r, h) /\ r \in archive
          BY <1>2, <1>3, <4>2, PagesFacts
        <5>2. Pages!Time(r) >= Pages!Time(h) /\ Pages!Time(r) \in Int
          BY <1>3, <1>5, <5>1, NewerIsOrder
        <5>. QED BY <1>5, <5>2
      <4>. QED BY <1>4, <3>2, <4>1, <4>2
    <3>3. ASSUME NEW r, Missing(r), r # h PROVE Pages!Time(r) < Pages!Time(h)
      <4>1. r \in archive /\ ~Pages!Shared(r)
        BY <3>3 DEF Missing
      <4>2. Pages!Time(h) # Pages!Time(r)
        BY <1>3, <3>3, <4>1 DEF Pages!Shared
      <4>3. Pages!Time(r) =< Pages!Time(h)
        BY <1>7, <3>3
      <4>. QED BY <1>5, <4>1, <4>2, <4>3
    <3>4. \A r : Holds(yielded', r) => cursor' =< Pages!Time(r)
      BY <2>1, <2>6, <3>2
    <3>5. \A r : Missing(r)' => Pages!Time(r) < cursor'
      BY <2>2, <2>6, <3>3
    <3>. QED BY <2>1, <2>3, <2>6, <3>1, <3>4, <3>5 DEF PagesOrder
  <2>. QED BY <2>1, <2>4, <2>5, <2>6
<1>. QED BY <1>8, <1>9

LEMMA PagesInvariantHolds == PartsSpec => []PagesInvariant
<1>1. ASSUME PagesInvariant, [PartsNext]_allVars PROVE PagesInvariant'
  <2>1. CASE part = "pages" /\ Pages!Fetch
    BY <1>1, <2>1, FetchKeeps DEF PagesInvariant
  <2>2. CASE part = "pages" /\ Pages!Yield
    BY <1>1, <2>2, YieldKeeps, YieldKeepsTypes DEF PagesInvariant
  <2>3. CASE part = "pages" /\ \E r \in Records : Pages!Arrive(r)
    BY <1>1, <2>3, ArriveKeeps DEF PagesInvariant
  <2>4. CASE UNCHANGED <<part, range, page, boundary, archive, arrived, cursor, batch, yielded, pc>>
    BY <1>1, <2>4 DEF PagesInvariant, PagesTypes, PagesOrder, Missing, Pages!Shared
  <2>5. CASE part # "pages" /\ part' = part
    BY <2>5 DEF PagesInvariant
  <2>. QED BY <1>1, <2>1, <2>2, <2>3, <2>4, <2>5 DEF PartsNext, Frozen, allVars, pageVars, Pages!Next
<1>. QED BY <1>1, PagesStart, PTL DEF PartsSpec

LEMMA PagesAreComplete == PagesInvariant => (part = "pages" => Pages!TypeOK /\ Pages!PagesComplete)
<1>. SUFFICES ASSUME PagesInvariant, part = "pages" PROVE Pages!TypeOK /\ Pages!PagesComplete
  OBVIOUS
<1>1. PagesTypes /\ PagesOrder
  BY DEF PagesInvariant
<1>2. /\ \A r : r \in Pages!ToSet(batch) <=> Holds(batch, r)
      /\ \A r : r \in Pages!ToSet(yielded) <=> Holds(yielded, r)
      /\ DOMAIN yielded = 1 .. Len(yielded) /\ Len(yielded) \in Nat
  BY <1>1 DEF PagesTypes, Holds, Pages!ToSet
<1>3. Pages!TypeOK
  BY <1>1, <1>2, PagesFacts DEF PagesTypes, Pages!TypeOK
<1>4. ASSUME boundary = "before" PROVE Pages!PagesComplete
  <2>1. /\ Descends(yielded)
        /\ \A r : Holds(yielded, r) => range[1] <= Pages!Time(r) /\ Pages!Time(r) < range[2]
        /\ pc = "done" => \A r : ~Missing(r)
    BY <1>1, <1>4 DEF PagesOrder
  <2>2. ASSUME NEW i \in DOMAIN yielded, NEW j \in DOMAIN yielded, i < j
        PROVE  yielded[i] # yielded[j] /\ Pages!Time(yielded[i]) >= Pages!Time(yielded[j])
    <3>1. Pages!Newer(yielded[i], yielded[j])
      BY <1>2, <2>1, <2>2 DEF Descends
    <3>2. yielded[i] \in Int \X Int /\ yielded[j] \in Int \X Int
      BY <1>1, <1>2, PagesFacts DEF Holds
    <3>. QED BY <3>1, <3>2, NewerIsOrder
  <2>3. pc = "done" => \A r \in archive \ arrived :
          range[1] <= Pages!Time(r) /\ Pages!Time(r) < range[2] /\ ~Pages!Shared(r)
            => r \in Pages!ToSet(yielded)
    BY <1>2, <2>1 DEF Missing
  <2>. QED BY <1>2, <2>1, <2>2, <2>3 DEF Pages!PagesComplete, Pages!StartTime, Pages!EndTime
<1>. QED BY <1>3, <1>4 DEF Pages!PagesComplete

\* The pages that end an iteration leave nothing out, whatever the archive, the
\* range and the size of a page are, and each further fetch is for older records
\* (BackwardSeekingPaginator.__iter__).
THEOREM PagesAlwaysComplete == PartsSpec => PagesComplete
<1>1. ASSUME PagesInvariant, [PartsNext]_allVars
      PROVE  [pc = "yielding" /\ pc' = "fetching" => cursor' < cursor]_allVars
  <2>1. CASE part = "pages" /\ Pages!Yield
    BY <1>1, <2>1, YieldIs DEF PagesInvariant
  <2>2. CASE part = "pages" /\ (Pages!Fetch \/ \E r \in Records : Pages!Arrive(r))
    BY <2>2 DEF Pages!Fetch, Pages!Arrive
  <2>3. CASE pc' = pc
    BY <2>3
  <2>. QED BY <1>1, <2>1, <2>2, <2>3 DEF PartsNext, Frozen, allVars, pageVars, Pages!Next
<1>. QED BY <1>1, PagesInvariantHolds, PagesAreComplete, PTL DEF PartsSpec, PagesComplete
=============================================================================

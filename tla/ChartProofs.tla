------------------------------ MODULE ChartProofs ------------------------------
(***************************************************************************)
(* Proofs about the chart transforms, for any prices, bars, brick size and *)
(* percentage.  They rest on facts about least numbers and the extremes of *)
(* finite sets, which come first, and on what the greatest common divisor  *)
(* of a fraction divides.                                                  *)
(***************************************************************************)
EXTENDS MCMarketData, FiniteSetTheorems, SequenceTheorems, TLAPS

-----------------------------------------------------------------------------
(***************************************************************************)
(* Least elements: induction over the natural numbers in the form that the *)
(* provers can instantiate.                                                *)
(***************************************************************************)
LEMMA Least ==
  ASSUME NEW T \in SUBSET Nat, T # {}
  PROVE  \E n \in T : \A m \in T : n =< m
<1>. DEFINE R == OpToRel(<, Nat)
<1>1. IsWellFoundedOn(R, Nat)
  BY NatLessThanWellFounded
<1>2. \A m, n \in Nat : <<m, n>> \in R <=> m < n
  BY DEF OpToRel
<1>. HIDE DEF R
<1>3. PICK n \in T : \A m \in T : <<m, n>> \notin R
  BY <1>1, WFMin
<1>4. ASSUME NEW m \in T PROVE n =< m
  <2>1. m \in Nat /\ n \in Nat
    OBVIOUS
  <2>2. ~(m < n)
    BY <1>2, <1>3, <2>1
  <2>. QED BY <2>1, <2>2
<1>. QED BY <1>4

\* A finite set that is not empty has an element that no other one precedes.
LEMMA First ==
  ASSUME NEW S, IsFiniteSet(S), S # {}, NEW R,
         \A x \in S : <<x, x>> \notin R,
         \A x, y, z \in S : <<x, y>> \in R /\ <<y, z>> \in R => <<x, z>> \in R
  PROVE  \E x \in S : \A y \in S : <<y, x>> \notin R
<1>. DEFINE Before(x) == {y \in S : <<y, x>> \in R}
            N == {Cardinality(Before(x)) : x \in S}
<1>1. \A x \in S : IsFiniteSet(Before(x)) /\ Cardinality(Before(x)) \in Nat
  <2>1. \A x \in S : Before(x) \in SUBSET S
    OBVIOUS
  <2>. HIDE DEF Before
  <2>. QED BY <2>1, FS_Subset, FS_CardinalityType
<1>2. PICK n \in N : \A m \in N : n =< m
  <2>1. N \in SUBSET Nat /\ N # {}
    <3>. HIDE DEF Before
    <3>. QED BY <1>1
  <2>. HIDE DEF N
  <2>. QED BY <2>1, Least
<1>3. PICK x \in S : n = Cardinality(Before(x))
  BY <1>2
<1>4. ASSUME NEW y \in S, <<y, x>> \in R PROVE FALSE
  <2>1. Before(y) \subseteq Before(x) /\ y \in Before(x) /\ y \notin Before(y)
    BY <1>4
  <2>2. Cardinality(Before(y)) =< Cardinality(Before(x))
        /\ (Cardinality(Before(x)) = Cardinality(Before(y)) => Before(x) = Before(y))
    <3>. HIDE DEF Before
    <3>. QED BY <1>1, <2>1, FS_Subset
  <2>3. n =< Cardinality(Before(y))
    <3>. HIDE DEF Before
    <3>1. Cardinality(Before(y)) \in N
      OBVIOUS
    <3>. HIDE DEF N
    <3>. QED BY <1>2, <3>1
  <2>4. Before(x) # Before(y)
    <3>. HIDE DEF Before
    <3>. QED BY <2>1
  <2>. HIDE DEF Before, N
  <2>. QED BY <1>1, <1>3, <2>2, <2>3, <2>4
<1>. QED BY <1>4

\* The greatest of finitely many numbers.
LEMMA Greatest ==
  ASSUME NEW S \in SUBSET Int, IsFiniteSet(S), S # {}
  PROVE  \E m \in S : \A x \in S : x =< m
<1>. DEFINE R == {p \in S \X S : p[1] > p[2]}
<1>1. /\ \A x \in S : <<x, x>> \notin R
      /\ \A x, y, z \in S : <<x, y>> \in R /\ <<y, z>> \in R => <<x, z>> \in R
      /\ \A x, y \in S : <<x, y>> \in R <=> x > y
  OBVIOUS
<1>. HIDE DEF R
<1>2. PICK m \in S : \A y \in S : <<y, m>> \notin R
  BY <1>1, First
<1>3. \A y \in S : ~(y > m)
  BY <1>1, <1>2
<1>4. \A y \in S : y \in Int /\ m \in Int
  OBVIOUS
<1>. QED BY <1>3, <1>4

LEMMA Extreme ==
  ASSUME NEW S \in SUBSET Int, NEW m \in S
  PROVE  /\ (\A p \in S : m >= p) => Max(S) = m
         /\ (\A p \in S : m =< p) => Min(S) = m
<1>1. ASSUME \A p \in S : m >= p PROVE Max(S) = m
  <2>1. \E x \in S : \A y \in S : x >= y
    BY <1>1
  <2>2. Max(S) \in S /\ \A y \in S : Max(S) >= y
    BY <2>1 DEF Max
  <2>3. m \in Int /\ Max(S) \in Int
    BY <2>2
  <2>4. m >= Max(S) /\ Max(S) >= m
    BY <1>1, <2>2
  <2>. QED BY <2>3, <2>4
<1>2. ASSUME \A p \in S : m =< p PROVE Min(S) = m
  <2>1. \E x \in S : \A y \in S : x =< y
    BY <1>2
  <2>2. Min(S) \in S /\ \A y \in S : Min(S) =< y
    BY <2>1 DEF Min
  <2>3. m \in Int /\ Min(S) \in Int
    BY <2>2
  <2>4. m =< Min(S) /\ Min(S) =< m
    BY <1>2, <2>2
  <2>. QED BY <2>3, <2>4
<1>. QED BY <1>1, <1>2

LEMMA Lowest ==
  ASSUME NEW S \in SUBSET Int, IsFiniteSet(S), S # {}
  PROVE  \E m \in S : \A x \in S : m =< x
<1>. DEFINE R == {p \in S \X S : p[1] < p[2]}
<1>1. /\ \A x \in S : <<x, x>> \notin R
      /\ \A x, y, z \in S : <<x, y>> \in R /\ <<y, z>> \in R => <<x, z>> \in R
      /\ \A x, y \in S : <<x, y>> \in R <=> x < y
  OBVIOUS
<1>. HIDE DEF R
<1>2. PICK m \in S : \A y \in S : <<y, m>> \notin R
  BY <1>1, First
<1>3. \A y \in S : ~(y < m)
  BY <1>1, <1>2
<1>4. \A y \in S : y \in Int /\ m \in Int
  OBVIOUS
<1>. QED BY <1>3, <1>4

LEMMA Extremes ==
  ASSUME NEW S \in SUBSET Int, IsFiniteSet(S), S # {}
  PROVE  /\ Max(S) \in S /\ \A x \in S : x =< Max(S)
         /\ Min(S) \in S /\ \A x \in S : Min(S) =< x
<1>1. PICK m \in S : \A x \in S : x =< m
  BY Greatest
<1>2. Max(S) = m
  <2>1. \A x \in S : m >= x
    BY <1>1
  <2>. QED BY <2>1, Extreme
<1>3. PICK n \in S : \A x \in S : n =< x
  BY Lowest
<1>4. Min(S) = n
  BY <1>3, Extreme
<1>. QED BY <1>1, <1>2, <1>3, <1>4

\* An extreme of a set and one more number.
LEMMA OneMore ==
  ASSUME NEW S \in SUBSET Int, IsFiniteSet(S), S # {}, NEW p \in Int
  PROVE  Max(S \cup {p}) = Max({Max(S), p}) /\ Min(S \cup {p}) = Min({Min(S), p})
<1>1. /\ Max(S) \in S /\ \A x \in S : x =< Max(S)
      /\ Min(S) \in S /\ \A x \in S : Min(S) =< x
  BY Extremes
<1>2. Max(S) \in Int /\ Min(S) \in Int /\ \A x \in S : x \in Int
  BY <1>1
<1>3. ASSUME p > Max(S) PROVE Max(S \cup {p}) = Max({Max(S), p})
  <2>1. \A x \in S \cup {p} : p >= x
    BY <1>1, <1>2, <1>3
  <2>2. Max(S \cup {p}) = p
    BY <2>1, Extreme
  <2>3. \A x \in {Max(S), p} : p >= x
    BY <1>2, <1>3
  <2>4. Max({Max(S), p}) = p
    BY <1>2, <2>3, Extreme
  <2>. QED BY <2>2, <2>4
<1>4. ASSUME ~(p > Max(S)) PROVE Max(S \cup {p}) = Max({Max(S), p})
  <2>1. \A x \in S \cup {p} : Max(S) >= x
    BY <1>1, <1>2, <1>4
  <2>2. Max(S \cup {p}) = Max(S)
    BY <1>1, <2>1, Extreme
  <2>3. \A x \in {Max(S), p} : Max(S) >= x
    BY <1>2, <1>4
  <2>4. Max({Max(S), p}) = Max(S)
    BY <1>2, <2>3, Extreme
  <2>. QED BY <2>2, <2>4
<1>5. ASSUME p < Min(S) PROVE Min(S \cup {p}) = Min({Min(S), p})
  <2>1. \A x \in S \cup {p} : p =< x
    BY <1>1, <1>2, <1>5
  <2>2. Min(S \cup {p}) = p
    BY <2>1, Extreme
  <2>3. \A x \in {Min(S), p} : p =< x
    BY <1>2, <1>5
  <2>4. Min({Min(S), p}) = p
    BY <1>2, <2>3, Extreme
  <2>. QED BY <2>2, <2>4
<1>6. ASSUME ~(p < Min(S)) PROVE Min(S \cup {p}) = Min({Min(S), p})
  <2>1. \A x \in S \cup {p} : Min(S) =< x
    BY <1>1, <1>2, <1>6
  <2>2. Min(S \cup {p}) = Min(S)
    BY <1>1, <2>1, Extreme
  <2>3. \A x \in {Min(S), p} : Min(S) =< x
    BY <1>2, <1>6
  <2>4. Min({Min(S), p}) = Min(S)
    BY <1>2, <2>3, Extreme
  <2>. QED BY <2>2, <2>4
<1>. QED BY <1>3, <1>4, <1>5, <1>6

LEMMA PairExtremes ==
  ASSUME NEW x \in Int, NEW y \in Int
  PROVE  Max({x, y}) \in Int /\ Min({x, y}) \in Int
<1>1. IsFiniteSet({x}) /\ IsFiniteSet({y})
  BY FS_Singleton
<1>2. IsFiniteSet({x} \cup {y})
  BY <1>1, FS_Union
<1>3. {x, y} = {x} \cup {y} /\ {x, y} # {} /\ {x, y} \in SUBSET Int
  OBVIOUS
<1>4. Max({x, y}) \in {x, y} /\ Min({x, y}) \in {x, y}
  BY <1>2, <1>3, Extremes
<1>. QED BY <1>4

LEMMA ImageIsFinite ==
  ASSUME NEW S, IsFiniteSet(S), NEW f
  PROVE  IsFiniteSet({f[x] : x \in S})
<1>1. \E g : g = [x \in S |-> f[x]]
  OBVIOUS
<1>2. PICK g : g = [x \in S |-> f[x]]
  BY <1>1
<1>3. g \in Surjection(S, {f[x] : x \in S})
  BY <1>2 DEF Surjection
<1>. QED BY <1>3, FS_Surjection

-----------------------------------------------------------------------------
(***************************************************************************)
(* The chart transforms: first Renko.                                      *)
(***************************************************************************)
LEMMA ChartAssumptions ==
  /\ BrickSize \in Nat \ {0} /\ ReversalPct \in Nat \ {0}
  /\ CandlePrices \in SUBSET (Nat \ {0}) /\ None \notin {"UP", "DOWN"} /\ None \notin Int
BY MarketDataAssumption DEF Chart!ChartAssumption

Brick == [from : Int, to : Int]

\* The second brick goes on from the first, or back from its other end.
GoesOn(a, b) ==
  IF b.to - b.from = a.to - a.from THEN b.from = a.to ELSE b.from = a.from

Chained(bs, level) ==
  \A k \in 1 .. Len(bs) :
    /\ bs[k].to - bs[k].from \in {BrickSize, -BrickSize}
    /\ IF k = 1 THEN bs[1].from = level ELSE GoesOn(bs[k - 1], bs[k])

\* No further brick fits the price.
Reached(bs, level, p) ==
  IF bs = <<>> THEN p < level + BrickSize /\ p > level - BrickSize
  ELSE LET b == bs[Len(bs)]
       IN  /\ p < b.from + BrickSize \/ p < b.to + BrickSize
           /\ p > b.from - BrickSize \/ p > b.to - BrickSize

RenkoInvariant ==
  /\ prices \in Seq(CandlePrices) /\ bricks \in Seq(Brick)
  /\ renderer # "renko" \/ prices = <<>> => bricks = <<>>
  /\ Chained(bricks, prices[1])
  /\ renderer = "renko" /\ prices # <<>> => Reached(bricks, prices[1], prices[Len(prices)])

\* A whole number of bricks is laid in the way of the sign, up to the price.
LEMMA LaidIs ==
  ASSUME NEW level \in Int, NEW sign \in {1, -1}, NEW p \in Int, sign * (p - level) >= 0
  PROVE  LET L == Chart!Laid(level, sign, p)
         IN  /\ L \in Seq(Brick)
             /\ \A k \in 1 .. Len(L) :
                  /\ L[k].to - L[k].from = sign * BrickSize
                  /\ L[k].from = IF k = 1 THEN level ELSE L[k - 1].to
             /\ L = <<>> => sign * (p - level) < BrickSize
             /\ L # <<>> => /\ sign * (p - L[Len(L)].to) >= 0
                            /\ sign * (p - L[Len(L)].to) < BrickSize
<1>. DEFINE B == BrickSize
            x == sign * (p - level)
            n == x \div B
            L == Chart!Laid(level, sign, p)
            at(k) == level + sign * k * B
<1>1. B \in Nat /\ B > 0 /\ sign \in Int /\ x \in Int /\ x >= 0
  BY ChartAssumptions
<1>. HIDE DEF B
<1>2. n \in Int /\ n * B =< x /\ x < n * B + B
  <2>. HIDE DEF x
  <2>. QED BY <1>1
<1>3. L = [k \in 1 .. n |-> [from |-> level + sign * (k - 1) * B, to |-> level + sign * k * B]]
  BY DEF Chart!Laid, B
<1>. HIDE DEF n
<1>4. n \in Nat
  <2>1. SUFFICES ASSUME n < 0 PROVE FALSE
    BY <1>2
  <2>2. n * B + B =< 0
    BY <1>1, <1>2, <2>1
  <2>3. n * B \in Int
    BY <1>1, <1>2
  <2>. HIDE DEF x
  <2>. QED BY <1>1, <1>2, <2>2, <2>3
<1>5. \A k \in Int : /\ at(k) \in Int /\ sign * (k - 1) * B \in Int
                     /\ level + sign * (k - 1) * B = at(k - 1)
                     /\ at(k) - at(k - 1) = sign * B
  BY <1>1
<1>6. n = 0 => at(n) = level
  BY <1>1
<1>7. sign * (p - at(n)) = x - n * B
  BY <1>1, <1>4
<1>8. at(0) = level
  BY <1>1
<1>. HIDE DEF at, x
<1>9. /\ L = [k \in 1 .. n |-> [from |-> at(k - 1), to |-> at(k)]]
  BY <1>3, <1>5 DEF at
<1>. HIDE DEF L
<1>10. L \in Seq(Brick) /\ Len(L) = n
  <2>1. ASSUME NEW k \in 1 .. n PROVE [from |-> at(k - 1), to |-> at(k)] \in Brick
    <3>1. k \in Int /\ k - 1 \in Int
      BY <1>4
    <3>2. at(k) \in Int /\ at(k - 1) \in Int
      BY <1>5, <3>1
    <3>. QED BY <3>2 DEF Brick
  <2>2. L \in [1 .. n -> Brick]
    BY <1>9, <2>1
  <2>. QED BY <1>4, <2>2
<1>11. \A k \in 1 .. n : L[k].from = at(k - 1) /\ L[k].to = at(k)
  BY <1>9
<1>12. ASSUME NEW k \in 1 .. n PROVE /\ L[k].to - L[k].from = sign * B
                                     /\ L[k].from = IF k = 1 THEN level ELSE L[k - 1].to
  <2>1. L[k].from = at(k - 1) /\ L[k].to = at(k) /\ at(k) - at(k - 1) = sign * B
    BY <1>5, <1>11
  <2>2. CASE k = 1
    BY <1>8, <2>1, <2>2
  <2>3. CASE k # 1
    <3>1. k - 1 \in 1 .. n
      BY <1>4, <2>3
    <3>. QED BY <1>11, <2>1, <2>3, <3>1
  <2>. QED BY <2>2, <2>3
<1>13. L = <<>> => x < B
  <2>1. SUFFICES ASSUME n = 0 PROVE x < B
    BY <1>10
  <2>2. n * B = 0
    BY <1>1, <2>1
  <2>. QED BY <1>1, <1>2, <2>2
<1>14. ASSUME L # <<>> PROVE sign * (p - L[Len(L)].to) >= 0 /\ sign * (p - L[Len(L)].to) < B
  <2>1. L[Len(L)].to = at(n)
    BY <1>4, <1>10, <1>11, <1>14
  <2>2. n * B \in Int
    BY <1>1, <1>4
  <2>. QED BY <1>1, <1>2, <1>7, <2>1, <2>2
<1>. QED BY <1>10, <1>12, <1>13, <1>14 DEF L, B, x

LEMMA ChainGrows ==
  ASSUME NEW level \in Int, NEW bs \in Seq(Brick), NEW L \in Seq(Brick), NEW sign \in {1, -1},
         Chained(bs, level),
         \A k \in 1 .. Len(L) : /\ L[k].to - L[k].from = sign * BrickSize
                                /\ k # 1 => L[k].from = L[k - 1].to,
         L # <<>> => IF bs = <<>> THEN L[1].from = level ELSE GoesOn(bs[Len(bs)], L[1])
  PROVE  Chained(bs \o L, level) /\ bs \o L \in Seq(Brick)
<1>. DEFINE c == bs \o L
            m == Len(bs)
            n == Len(L)
<1>1. /\ m \in Nat /\ n \in Nat /\ c \in Seq(Brick) /\ Len(c) = m + n
      /\ \A k \in 1 .. m + n : c[k] = IF k =< m THEN bs[k] ELSE L[k - m]
  BY ConcatProperties
<1>2. BrickSize \in Int /\ sign * BrickSize \in {BrickSize, -BrickSize}
  BY ChartAssumptions
<1>3. bs = <<>> <=> m = 0
  BY EmptySeq
<1>4. L = <<>> <=> n = 0
  BY EmptySeq
<1>. HIDE DEF c
<1>5. SUFFICES ASSUME NEW k \in 1 .. m + n
               PROVE  /\ c[k].to - c[k].from \in {BrickSize, -BrickSize}
                      /\ IF k = 1 THEN c[1].from = level ELSE GoesOn(c[k - 1], c[k])
  BY <1>1 DEF Chained, c
<1>6. CASE k =< m
  <2>1. k \in 1 .. m /\ c[k] = bs[k] /\ (k # 1 => k - 1 \in 1 .. m + n /\ c[k - 1] = bs[k - 1])
    BY <1>1, <1>6
  <2>. QED BY <2>1 DEF Chained
<1>7. CASE k = m + 1
  <2>0. ~(k =< m) /\ k - m = 1 /\ 1 \in 1 .. n /\ n # 0
    BY <1>1, <1>7
  <2>1. c[k] = L[1] /\ 1 \in 1 .. n /\ L # <<>>
    BY <1>1, <1>4, <2>0
  <2>2. c[k].to - c[k].from \in {BrickSize, -BrickSize}
    BY <1>2, <2>1
  <2>3. CASE m = 0
    BY <1>1, <1>3, <1>7, <2>1, <2>2, <2>3
  <2>4. CASE m # 0
    <3>1. k # 1 /\ k - 1 = m /\ c[k - 1] = bs[m]
      BY <1>1, <1>7, <2>4
    <3>. QED BY <1>3, <2>1, <2>2, <2>4, <3>1
  <2>. QED BY <2>3, <2>4
<1>8. CASE k > m + 1
  <2>. DEFINE j == k - m
  <2>1. /\ j \in 1 .. n /\ j # 1 /\ j - 1 \in 1 .. n /\ k # 1 /\ k - 1 \in 1 .. m + n
        /\ ~(k =< m) /\ ~(k - 1 =< m) /\ (k - 1) - m = j - 1
    BY <1>1, <1>8
  <2>2. c[k] = L[j] /\ c[k - 1] = L[j - 1]
    BY <1>1, <2>1
  <2>. HIDE DEF j
  <2>3. /\ L[j].to - L[j].from = sign * BrickSize /\ L[j - 1].to - L[j - 1].from = sign * BrickSize
        /\ L[j].from = L[j - 1].to
    BY <2>1
  <2>. QED BY <1>2, <2>1, <2>2, <2>3 DEF GoesOn
<1>. QED BY <1>1, <1>6, <1>7, <1>8

\* Behind the bricks that were laid last no further one fits.
LEMMA LastIsReached ==
  ASSUME NEW level, NEW bs \in Seq(Brick), NEW L \in Seq(Brick), L # <<>>,
         NEW sign \in {1, -1}, NEW p \in Int,
         L[Len(L)].to - L[Len(L)].from = sign * BrickSize,
         sign * (p - L[Len(L)].to) >= 0, sign * (p - L[Len(L)].to) < BrickSize
  PROVE  Reached(bs \o L, level, p)
<1>. DEFINE c == bs \o L
            b == L[Len(L)]
<1>1. Len(L) \in Nat \ {0} /\ Len(c) = Len(bs) + Len(L) /\ Len(bs) \in Nat
  BY EmptySeq, ConcatProperties
<1>2. c[Len(c)] = b
  <2>1. \A k \in 1 .. Len(bs) + Len(L) : c[k] = IF k =< Len(bs) THEN bs[k] ELSE L[k - Len(bs)]
    BY ConcatProperties
  <2>2. /\ Len(c) \in 1 .. Len(bs) + Len(L) /\ ~(Len(c) =< Len(bs))
        /\ Len(c) - Len(bs) = Len(L)
    BY <1>1
  <2>. HIDE DEF c
  <2>. QED BY <2>1, <2>2
<1>3. c # <<>>
  <2>1. Len(c) # 0
    BY <1>1
  <2>. HIDE DEF c
  <2>. QED BY <2>1
<1>4. b \in Brick
  BY <1>1
<1>5. b.from \in Int /\ b.to \in Int /\ BrickSize \in Nat \ {0}
  BY <1>4, ChartAssumptions DEF Brick
<1>. HIDE DEF c, b
<1>6. b.to - b.from = sign * BrickSize /\ sign * (p - b.to) >= 0 /\ sign * (p - b.to) < BrickSize
  BY DEF b
<1>7. /\ p < b.from + BrickSize \/ p < b.to + BrickSize
      /\ p > b.from - BrickSize \/ p > b.to - BrickSize
  <2>1. CASE sign = 1
    BY <1>5, <1>6, <2>1
  <2>2. CASE sign = -1
    BY <1>5, <1>6, <2>2
  <2>. QED BY <2>1, <2>2
<1>. QED BY <1>2, <1>3, <1>7 DEF Reached, c

LEMMA BothFit ==
  ASSUME NEW from \in Int, NEW to \in Int, NEW p \in Int, NEW B \in Int, NEW s \in {1, -1},
         to - from = s * B, s * (p - to) < B, s * (from - p) < B
  PROVE  /\ p < from + B \/ p < to + B
         /\ p > from - B \/ p > to - B
<1>1. CASE s = 1
  BY <1>1
<1>2. CASE s = -1
  BY <1>2
<1>. QED BY <1>1, <1>2

LEMMA BricksGrow ==
  ASSUME RenkoInvariant, renderer = "renko", prices # <<>>, NEW p \in CandlePrices
  PROVE  LET c == bricks \o Chart!NewBricks(p)
         IN  Chained(c, prices[1]) /\ c \in Seq(Brick) /\ Reached(c, prices[1], p)
<1>. DEFINE level == prices[1]
            N == Chart!NewBricks(p)
            B == BrickSize
<1>1. level \in Int /\ p \in Int /\ B \in Nat \ {0} /\ bricks \in Seq(Brick) /\ Chained(bricks, level)
  <2>1. level \in CandlePrices /\ bricks \in Seq(Brick) /\ Chained(bricks, level)
    BY EmptySeq DEF RenkoInvariant
  <2>. HIDE DEF level
  <2>2. level \in Int /\ p \in Int /\ BrickSize \in Nat \ {0}
    BY <2>1, ChartAssumptions
  <2>. QED BY <2>1, <2>2
\* Every way to lay bricks continues the chain and ends at the price.
<1>2. ASSUME NEW from \in Int, NEW sign \in {1, -1}, sign * (p - from) >= 0,
             N = Chart!Laid(from, sign, p),
             N # <<>> => IF bricks = <<>> THEN from = level
                         ELSE LET b == bricks[Len(bricks)]
                              IN from = IF b.to - b.from = sign * B THEN b.to ELSE b.from,
             N = <<>> => Reached(bricks, level, p)
      PROVE  Chained(bricks \o N, level) /\ bricks \o N \in Seq(Brick) /\ Reached(bricks \o N, level, p)
  <2>1. /\ N \in Seq(Brick)
        /\ \A k \in 1 .. Len(N) :
             /\ N[k].to - N[k].from = sign * B
             /\ N[k].from = IF k = 1 THEN from ELSE N[k - 1].to
        /\ N # <<>> => sign * (p - N[Len(N)].to) >= 0 /\ sign * (p - N[Len(N)].to) < B
    <3>1. from \in Int /\ p \in Int /\ sign \in {1, -1} /\ sign * (p - from) >= 0
      BY <1>1, <1>2
    <3>. DEFINE L == Chart!Laid(from, sign, p)
    <3>2. /\ L \in Seq(Brick)
          /\ \A k \in 1 .. Len(L) :
               /\ L[k].to - L[k].from = sign * BrickSize
               /\ L[k].from = IF k = 1 THEN from ELSE L[k - 1].to
          /\ L # <<>> => /\ sign * (p - L[Len(L)].to) >= 0
                         /\ sign * (p - L[Len(L)].to) < BrickSize
      BY <3>1, LaidIs, Zenon
    <3>3. N = L
      BY <1>2
    <3>. HIDE DEF N, L
    <3>. QED BY <3>2, <3>3
  <2>. HIDE DEF N, level, B
  <2>2. Len(N) \in Nat /\ (N # <<>> => Len(N) # 0)
    BY <2>1, EmptySeq
  <2>3. ASSUME N # <<>> PROVE IF bricks = <<>> THEN N[1].from = level ELSE GoesOn(bricks[Len(bricks)], N[1])
    <3>1. N[1].to - N[1].from = sign * B /\ N[1].from = from
      BY <2>1, <2>2, <2>3
    <3>2. CASE bricks = <<>>
      BY <1>2, <2>3, <3>1, <3>2
    <3>3. CASE bricks # <<>>
      BY <1>2, <2>3, <3>1, <3>3 DEF GoesOn
    <3>. QED BY <3>2, <3>3
  <2>4. Chained(bricks \o N, level) /\ bricks \o N \in Seq(Brick)
    <3>1. \A k \in 1 .. Len(N) : /\ N[k].to - N[k].from = sign * BrickSize
                                 /\ k # 1 => N[k].from = N[k - 1].to
      BY <2>1 DEF B
    <3>. QED BY <1>1, <2>1, <2>3, <3>1, ChainGrows
  <2>5. CASE N = <<>>
    <3>1. bricks \o N = bricks
      BY <1>1, <2>5, ConcatEmptySeq
    <3>. QED BY <1>2, <2>4, <2>5, <3>1
  <2>6. CASE N # <<>>
    <3>1. Len(N) \in 1 .. Len(N)
      BY <2>2, <2>6
    <3>2. N[Len(N)].to - N[Len(N)].from = sign * BrickSize
      BY <2>1, <3>1 DEF B
    <3>3. Reached(bricks \o N, level, p)
      BY <1>1, <2>1, <2>6, <3>2, LastIsReached DEF B
    <3>. QED BY <2>4, <3>3
  <2>. QED BY <2>5, <2>6
<1>3. CASE bricks = <<>>
  <2>1. /\ p >= level => N = Chart!Laid(level, 1, p)
        /\ ~(p >= level) => N = Chart!Laid(level, -1, p)
    BY <1>3 DEF Chart!NewBricks
  <2>2. PICK sign \in {1, -1} : sign * (p - level) >= 0 /\ N = Chart!Laid(level, sign, p)
    <3>1. CASE p >= level
      <4>1. 1 * (p - level) >= 0
        BY <1>1, <3>1
      <4>. QED BY <2>1, <3>1, <4>1
    <3>2. CASE ~(p >= level)
      <4>1. (-1) * (p - level) >= 0
        BY <1>1, <3>2
      <4>. QED BY <2>1, <3>2, <4>1
    <3>. QED BY <3>1, <3>2
  <2>3. N = <<>> => sign * (p - level) < B
    BY <1>1, <2>2, LaidIs
  <2>. HIDE DEF N, level, B
  <2>4. sign * (p - level) < B => p < level + B /\ p > level - B
    BY <1>1, <2>2
  <2>5. N = <<>> => Reached(bricks, level, p)
    BY <1>3, <2>3, <2>4 DEF Reached, B
  <2>. QED BY <1>1, <1>2, <1>3, <2>2, <2>5 DEF N, level
<1>4. CASE bricks # <<>>
  <2>. DEFINE b == bricks[Len(bricks)]
              s == IF b.to > b.from THEN 1 ELSE -1
  <2>1. Len(bricks) \in 1 .. Len(bricks)
    BY <1>1, <1>4, EmptySeq
  <2>2. b \in Brick /\ b.to - b.from \in {B, -B}
    BY <1>1, <2>1 DEF Chained
  <2>3. b.from \in Int /\ b.to \in Int /\ s \in {1, -1} /\ -s \in {1, -1}
    <3>1. b.from \in Int /\ b.to \in Int
      <4>. HIDE DEF b
      <4>. QED BY <2>2 DEF Brick
    <3>2. s = 1 \/ s = -1
      OBVIOUS
    <3>. HIDE DEF s
    <3>3. -s \in {1, -1}
      BY <3>2
    <3>. QED BY <3>1, <3>2, <3>3
  <2>4. /\ s * (p - b.to) >= B => N = Chart!Laid(b.to, s, p)
        /\ ~(s * (p - b.to) >= B) /\ s * (b.from - p) >= B => N = Chart!Laid(b.from, -s, p)
        /\ ~(s * (p - b.to) >= B) /\ ~(s * (b.from - p) >= B) => N = <<>>
    BY <1>4 DEF Chart!NewBricks, Chart!Last
  <2>5. b.to - b.from = s * B /\ b.to - b.from # (-s) * B
    BY <1>1, <2>2, <2>3
  <2>6. /\ s * (p - b.to) \in Int /\ s * (b.from - p) \in Int
        /\ (-s) * (p - b.from) = s * (b.from - p)
    BY <1>1, <2>3
  <2>. HIDE DEF N, level, B, s
  <2>7. CASE s * (p - b.to) >= B
    <3>1. N = Chart!Laid(b.to, s, p) /\ s * (p - b.to) >= 0
      BY <1>1, <2>4, <2>6, <2>7
    <3>2. N # <<>>
      <4>1. N = <<>> => s * (p - b.to) < B
        BY <1>1, <2>3, <3>1, LaidIs DEF B
      <4>. QED BY <1>1, <2>6, <2>7, <4>1
    <3>3. \A from, sign : from = b.to /\ sign = s =>
            from = IF b.to - b.from = sign * B THEN b.to ELSE b.from
      BY <2>5
    <3>. QED BY <1>2, <1>4, <2>3, <2>5, <3>1, <3>2, <3>3 DEF N, level
  <2>8. CASE ~(s * (p - b.to) >= B) /\ s * (b.from - p) >= B
    <3>1. N = Chart!Laid(b.from, -s, p) /\ (-s) * (p - b.from) >= 0
      BY <1>1, <2>4, <2>6, <2>8
    <3>2. N # <<>>
      <4>1. N = <<>> => (-s) * (p - b.from) < B
        BY <1>1, <2>3, <3>1, LaidIs DEF B
      <4>. QED BY <1>1, <2>6, <2>8, <4>1
    <3>. QED BY <1>2, <1>4, <2>3, <2>5, <3>1, <3>2 DEF N, level
  <2>9. CASE ~(s * (p - b.to) >= B) /\ ~(s * (b.from - p) >= B)
    <3>1. N = <<>>
      BY <2>4, <2>9
    <3>2. /\ p < b.from + B \/ p < b.to + B
          /\ p > b.from - B \/ p > b.to - B
      <4>1. s * (p - b.to) < B /\ s * (b.from - p) < B
        BY <1>1, <2>6, <2>9
      <4>. HIDE DEF b
      <4>2. b.from \in Int /\ b.to \in Int /\ p \in Int /\ B \in Int /\ s \in {1, -1}
        BY <1>1, <2>3
      <4>3. b.to - b.from = s * B
        BY <2>5
      <4>. QED BY <4>1, <4>2, <4>3, BothFit
    <3>3. Reached(bricks, level, p)
      BY <1>4, <3>2 DEF Reached, B
    <3>4. bricks \o N = bricks
      BY <1>1, <3>1, ConcatEmptySeq
    <3>. QED BY <1>1, <3>3, <3>4 DEF N, level
  <2>. QED BY <2>7, <2>8, <2>9
<1>. QED BY <1>3, <1>4

-----------------------------------------------------------------------------
(***************************************************************************)
(* Kagi lines.                                                             *)
(***************************************************************************)
Prices == Nat \ {0}
Ways == {"UP", "DOWN"}
States2 == {"YANG", "YIN"}
KagiLines == [from : Prices, to : Prices, state : States2]

\* The variables of the loop once it has a direction.
Kagis ==
  [direction : Ways, extreme : Prices, start : Prices, state : States2,
   swing : [Ways -> Prices \cup {None}], segments : Seq(KagiLines)]

\* One of a series of lines, by those before it.
LineHolds(lines, k) ==
  LET line == lines[k]
      beyond == k > 2 /\ Chart!Sign(IF Chart!Upward(line) THEN "UP" ELSE "DOWN")
                           * (line.to - lines[k - 2].to) > 0
  IN  /\ Chart!Moved(line.from, line.to, IF Chart!Upward(line) THEN 1 ELSE -1)
      /\ k > 1 => line.from = lines[k - 1].to /\ Chart!Upward(line) # Chart!Upward(lines[k - 1])
      /\ line.state = IF k = 1 \/ beyond THEN IF Chart!Upward(line) THEN "YANG" ELSE "YIN"
                      ELSE lines[k - 1].state

\* The line under way goes on from the finished ones, and the last swing of its
\* kind is the end of the line before the last.
UnderWay(k) ==
  LET segs == k.segments
      n == Len(segs)
      s == Chart!Sign(k.direction)
  IN  /\ Chart!Moved(k.start, k.extreme, s)
      /\ n > 0 => /\ k.start = segs[n].to
                  /\ Chart!Upward(segs[n]) <=> k.direction = "DOWN"
      /\ k.swing[k.direction] = IF n > 1 THEN segs[n - 1].to ELSE None
      /\ k.swing[Chart!Opposite(k.direction)] = IF n > 0 THEN segs[n].to ELSE None
      /\ k.state = IF n = 0 \/ (n > 1 /\ s * (k.extreme - segs[n - 1].to) > 0)
                   THEN Chart!StateOf(k.direction) ELSE segs[n].state

PathOf(k) == UnderWay(k) /\ \A i \in 1 .. Len(k.segments) : LineHolds(k.segments, i)

\* The price has not turned the line.
NotTurned(k, p) ==
  /\ ~Chart!Moved(k.extreme, p, -Chart!Sign(k.direction))
  /\ Chart!Sign(k.direction) * (p - k.extreme) <= 0

KagiInvariant ==
  IF kagi.direction = None THEN kagi = Chart!NoTrend
  ELSE /\ renderer = "kagi" /\ prices # <<>>
       /\ kagi \in Kagis /\ PathOf(kagi) /\ NotTurned(kagi, prices[Len(prices)])

\* How far a price has moved.
LEMMA MovedIs ==
  /\ \A from, p \in Prices : Chart!Moved(from, p, 1) => p > from
  /\ \A from, p \in Prices : Chart!Moved(from, p, -1) => p < from
  /\ \A from, p, q \in Prices : \A s \in {1, -1} :
       Chart!Moved(from, p, s) /\ s * (q - p) >= 0 => Chart!Moved(from, q, s)
  /\ \A p \in Prices : \A s \in {1, -1} : ~Chart!Moved(p, p, s)
<1>1. ASSUME NEW from \in Prices PROVE ReversalPct * from \in Int /\ ReversalPct * from > 0
  BY ChartAssumptions DEF Prices
<1>2. ASSUME NEW from \in Prices, NEW p \in Prices
      PROVE  /\ Chart!Moved(from, p, 1) => p > from
             /\ Chart!Moved(from, p, -1) => p < from
  <2>. DEFINE m == ReversalPct * from
  <2>1. m \in Int /\ m > 0 /\ from \in Int /\ p \in Int
    BY <1>1 DEF Prices
  <2>2. /\ Chart!Moved(from, p, 1) => 1 * (p - from) * 100 >= m
        /\ Chart!Moved(from, p, -1) => (-1) * (p - from) * 100 >= m
    BY DEF Chart!Moved
  <2>. HIDE DEF m
  <2>. QED BY <2>1, <2>2
<1>3. ASSUME NEW from \in Prices, NEW p \in Prices, NEW q \in Prices, NEW s \in {1, -1},
             Chart!Moved(from, p, s), s * (q - p) >= 0
      PROVE  Chart!Moved(from, q, s)
  <2>. DEFINE m == ReversalPct * from
  <2>1. m \in Int /\ from \in Int /\ p \in Int /\ q \in Int
    BY <1>1 DEF Prices
  <2>2. s * (p - from) * 100 >= m
    BY <1>3 DEF Chart!Moved
  <2>. HIDE DEF m
  <2>3. s * (q - from) * 100 >= m
    <3>1. CASE s = 1
      BY <1>3, <2>1, <2>2, <3>1
    <3>2. CASE s = -1
      BY <1>3, <2>1, <2>2, <3>2
    <3>. QED BY <3>1, <3>2
  <2>. QED BY <2>3 DEF Chart!Moved, m
<1>4. ASSUME NEW p \in Prices, NEW s \in {1, -1} PROVE ~Chart!Moved(p, p, s)
  <2>. DEFINE m == ReversalPct * p
  <2>1. m \in Int /\ m > 0 /\ s * (p - p) * 100 = 0
    BY <1>1 DEF Prices
  <2>2. Chart!Moved(p, p, s) => s * (p - p) * 100 >= m
    BY DEF Chart!Moved
  <2>. HIDE DEF m
  <2>. QED BY <2>1, <2>2
<1>. QED BY <1>2, <1>3, <1>4

LEMMA WaysAre ==
  ASSUME NEW d \in Ways
  PROVE  /\ Chart!Opposite(d) \in Ways /\ Chart!Opposite(d) # d
         /\ Chart!Opposite(Chart!Opposite(d)) = d
         /\ Chart!Sign(d) \in {1, -1} /\ Chart!Sign(Chart!Opposite(d)) = -Chart!Sign(d)
         /\ Chart!StateOf(d) \in States2
         /\ d = "DOWN" <=> Chart!Opposite(d) = "UP"
         /\ d = "UP" <=> Chart!Sign(d) = 1
BY DEF Ways, States2, Chart!Opposite, Chart!Sign, Chart!StateOf

\* The finished lines and the one under way.
LineOf(k) == [from |-> k.start, to |-> k.extreme, state |-> k.state]

LEMMA LineIs ==
  ASSUME NEW lines, NEW k, NEW line, lines[k] = line,
         Chart!Moved(line.from, line.to, IF Chart!Upward(line) THEN 1 ELSE -1),
         k > 1 => line.from = lines[k - 1].to /\ Chart!Upward(line) # Chart!Upward(lines[k - 1]),
         line.state = IF k = 1
                         \/ (k > 2 /\ Chart!Sign(IF Chart!Upward(line) THEN "UP" ELSE "DOWN")
                                        * (line.to - lines[k - 2].to) > 0)
                      THEN IF Chart!Upward(line) THEN "YANG" ELSE "YIN" ELSE lines[k - 1].state
  PROVE  LineHolds(lines, k)
<1>1. LET beyond == k > 2 /\ Chart!Sign(IF Chart!Upward(lines[k]) THEN "UP" ELSE "DOWN")
                               * (lines[k].to - lines[k - 2].to) > 0
      IN  /\ Chart!Moved(lines[k].from, lines[k].to, IF Chart!Upward(lines[k]) THEN 1 ELSE -1)
          /\ k > 1 => lines[k].from = lines[k - 1].to
                      /\ Chart!Upward(lines[k]) # Chart!Upward(lines[k - 1])
          /\ lines[k].state = IF k = 1 \/ beyond
                              THEN IF Chart!Upward(lines[k]) THEN "YANG" ELSE "YIN"
                              ELSE lines[k - 1].state
  OBVIOUS
<1>. QED BY <1>1, Zenon DEF LineHolds

LEMMA LinesHold ==
  ASSUME NEW k \in Kagis, PathOf(k)
  PROVE  LET ls == Append(k.segments, LineOf(k))
             n == Len(k.segments)
         IN  /\ ls \in Seq(KagiLines) /\ Len(ls) = n + 1 /\ n \in Nat
             /\ \A i \in 1 .. n : ls[i] = k.segments[i]
             /\ ls[n + 1] = LineOf(k)
             /\ Chart!Upward(LineOf(k)) <=> k.direction = "UP"
             /\ \A i \in 1 .. Len(ls) : LineHolds(ls, i)
<1>. DEFINE segs == k.segments
            ls == Append(segs, LineOf(k))
            n == Len(segs)
            l == LineOf(k)
            s == Chart!Sign(k.direction)
<1>1. /\ segs \in Seq(KagiLines) /\ l \in KagiLines /\ k.direction \in Ways
      /\ k.start \in Prices /\ k.extreme \in Prices
      /\ l.from = k.start /\ l.to = k.extreme /\ l.state = k.state
  BY DEF Kagis, LineOf, KagiLines
<1>2. /\ ls \in Seq(KagiLines) /\ Len(ls) = n + 1 /\ n \in Nat
      /\ \A i \in 1 .. n : ls[i] = segs[i]
      /\ ls[n + 1] = l
  BY <1>1, AppendProperties, LenProperties
<1>3. /\ Chart!Moved(k.start, k.extreme, s)
      /\ n > 0 => k.start = segs[n].to /\ (Chart!Upward(segs[n]) <=> k.direction = "DOWN")
      /\ k.state = IF n = 0 \/ (n > 1 /\ s * (k.extreme - segs[n - 1].to) > 0)
                   THEN Chart!StateOf(k.direction) ELSE segs[n].state
      /\ \A i \in 1 .. n : LineHolds(segs, i)
  BY DEF PathOf, UnderWay
<1>4. /\ Chart!Upward(l) <=> k.direction = "UP"
      /\ s = IF Chart!Upward(l) THEN 1 ELSE -1
      /\ k.direction = IF Chart!Upward(l) THEN "UP" ELSE "DOWN"
      /\ Chart!StateOf(k.direction) = IF Chart!Upward(l) THEN "YANG" ELSE "YIN"
  <2>1. CASE k.direction = "UP"
    <3>1. s = 1 /\ Chart!StateOf(k.direction) = "YANG"
      BY <2>1 DEF Chart!Sign, Chart!StateOf
    <3>2. k.extreme > k.start
      BY <1>1, <1>3, <3>1, MovedIs
    <3>. QED BY <1>1, <2>1, <3>1, <3>2 DEF Chart!Upward
  <2>2. CASE k.direction = "DOWN"
    <3>1. s = -1 /\ Chart!StateOf(k.direction) = "YIN"
      BY <2>2 DEF Chart!Sign, Chart!StateOf
    <3>2. k.extreme < k.start
      BY <1>1, <1>3, <3>1, MovedIs
    <3>3. ~(k.extreme > k.start)
      BY <1>1, <3>2 DEF Prices
    <3>. QED BY <1>1, <2>2, <3>1, <3>3 DEF Chart!Upward
  <2>. QED BY <1>1, <2>1, <2>2 DEF Ways
<1>. HIDE DEF ls, l, n, segs
<1>5. ASSUME NEW i \in 1 .. n PROVE LineHolds(ls, i)
  <2>1. ls[i] = segs[i] /\ (i > 1 => ls[i - 1] = segs[i - 1]) /\ (i > 2 => ls[i - 2] = segs[i - 2])
    BY <1>2
  <2>2. LineHolds(segs, i)
    BY <1>3
  <2>. QED BY <2>1, <2>2 DEF LineHolds
<1>6. LineHolds(ls, n + 1)
  <2>1. /\ Chart!Moved(l.from, l.to, IF Chart!Upward(l) THEN 1 ELSE -1)
        /\ ls[n + 1] = l
    BY <1>1, <1>2, <1>3, <1>4
  <2>2. ASSUME n + 1 > 1 PROVE l.from = ls[n].to /\ Chart!Upward(l) # Chart!Upward(ls[n])
    <3>1. n > 0 /\ n \in 1 .. n
      BY <1>2, <2>2
    <3>2. ls[n] = segs[n] /\ Chart!Upward(ls[n]) \in BOOLEAN /\ Chart!Upward(l) \in BOOLEAN
      BY <1>2, <3>1 DEF Chart!Upward
    <3>3. Chart!Upward(ls[n]) <=> k.direction = "DOWN"
      BY <1>3, <3>1, <3>2
    <3>. QED BY <1>1, <1>3, <1>4, <3>1, <3>2, <3>3
  <2>3. l.state = IF n + 1 = 1 \/ (n + 1 > 2 /\ s * (l.to - ls[n - 1].to) > 0)
                  THEN IF Chart!Upward(l) THEN "YANG" ELSE "YIN" ELSE ls[n].state
    <3>1. CASE n = 0
      BY <1>1, <1>3, <1>4, <3>1
    <3>2. CASE n = 1
      <4>1. ls[n] = segs[n] /\ ~(n + 1 > 2) /\ n + 1 # 1
        BY <1>2, <3>2
      <4>. QED BY <1>1, <1>3, <3>2, <4>1
    <3>3. CASE n > 1
      <4>1. ls[n] = segs[n] /\ ls[n - 1] = segs[n - 1] /\ n + 1 > 2 /\ n + 1 # 1 /\ n # 0
        BY <1>2, <3>3
      <4>. QED BY <1>1, <1>3, <1>4, <3>3, <4>1
    <3>. QED BY <1>2, <3>1, <3>2, <3>3
  <2>4. (n + 1) - 1 = n /\ (n + 1) - 2 = n - 1
    BY <1>2
  <2>5. s = Chart!Sign(IF Chart!Upward(l) THEN "UP" ELSE "DOWN")
    BY <1>4
  <2>. HIDE DEF s
  <2>6. l.state = IF n + 1 = 1
                     \/ (n + 1 > 2 /\ Chart!Sign(IF Chart!Upward(l) THEN "UP" ELSE "DOWN")
                                        * (l.to - ls[(n + 1) - 2].to) > 0)
                  THEN IF Chart!Upward(l) THEN "YANG" ELSE "YIN" ELSE ls[(n + 1) - 1].state
    BY <2>3, <2>4, <2>5
  <2>7. n + 1 > 1 => l.from = ls[(n + 1) - 1].to /\ Chart!Upward(l) # Chart!Upward(ls[(n + 1) - 1])
    BY <2>2, <2>4
  <2>. QED BY <2>1, <2>6, <2>7, LineIs, Zenon
<1>7. ASSUME NEW i \in 1 .. Len(ls) PROVE LineHolds(ls, i)
  <2>1. i \in 1 .. n \/ i = n + 1
    BY <1>2
  <2>. QED BY <1>5, <1>6, <2>1
<1>. QED BY <1>2, <1>4, <1>7 DEF ls, l, n, segs

\* A swing that is passed changes the state, and nothing else changes.
LEMMA RestatedIs ==
  ASSUME NEW k \in Kagis
  PROVE  LET r == Chart!Restated(k)
             w == k.swing[k.direction]
         IN  /\ r \in Kagis
             /\ r.direction = k.direction /\ r.extreme = k.extreme /\ r.start = k.start
             /\ r.swing = k.swing /\ r.segments = k.segments
             /\ r.state = IF w # None /\ Chart!Sign(k.direction) * (k.extreme - w) > 0
                          THEN Chart!StateOf(k.direction) ELSE k.state
<1>1. Chart!StateOf(k.direction) \in States2
  BY WaysAre DEF Kagis
<1>. QED BY <1>1 DEF Kagis, Chart!Restated

LEMMA ExtendKeeps ==
  ASSUME NEW k \in Kagis, PathOf(k), NEW p \in Prices, Chart!Sign(k.direction) * (p - k.extreme) >= 0
  PROVE  LET r == Chart!Restated([k EXCEPT !.extreme = p])
         IN  r \in Kagis /\ PathOf(r) /\ NotTurned(r, p)
<1>. DEFINE e == [k EXCEPT !.extreme = p]
            r == Chart!Restated(e)
            d == k.direction
            s == Chart!Sign(d)
            segs == k.segments
            n == Len(segs)
            w == k.swing[d]
<1>1. /\ e \in Kagis /\ e.direction = d /\ e.extreme = p /\ e.start = k.start
      /\ e.swing = k.swing /\ e.segments = segs /\ e.state = k.state
  BY DEF Kagis
<1>2. /\ d \in Ways /\ k.extreme \in Prices /\ k.start \in Prices /\ segs \in Seq(KagiLines)
      /\ w \in Prices \cup {None} /\ n \in Nat
  BY DEF Kagis
<1>3. s \in {1, -1} /\ -s \in {1, -1}
  BY <1>2, WaysAre
<1>. HIDE DEF e
<1>4. /\ r \in Kagis /\ r.direction = d /\ r.extreme = p /\ r.start = k.start
      /\ r.swing = k.swing /\ r.segments = segs
      /\ r.state = IF w # None /\ s * (p - w) > 0 THEN Chart!StateOf(d) ELSE k.state
  BY <1>1, RestatedIs
<1>5. /\ Chart!Moved(k.start, k.extreme, s)
      /\ n > 0 => k.start = segs[n].to /\ (Chart!Upward(segs[n]) <=> d = "DOWN")
      /\ w = IF n > 1 THEN segs[n - 1].to ELSE None
      /\ k.swing[Chart!Opposite(d)] = IF n > 0 THEN segs[n].to ELSE None
      /\ k.state = IF n = 0 \/ (n > 1 /\ s * (k.extreme - segs[n - 1].to) > 0)
                   THEN Chart!StateOf(d) ELSE segs[n].state
      /\ \A i \in 1 .. n : LineHolds(segs, i)
  BY DEF PathOf, UnderWay
<1>. HIDE DEF r, s, d, segs, n, w
<1>6. Chart!Moved(k.start, p, s)
  BY <1>2, <1>3, <1>5, MovedIs DEF s, d
<1>7. r.state = IF n = 0 \/ (n > 1 /\ s * (p - segs[n - 1].to) > 0)
                THEN Chart!StateOf(d) ELSE segs[n].state
  <2>1. CASE n > 1
    <3>1. w = segs[n - 1].to /\ n # 0
      BY <1>2, <1>5, <2>1
    <3>2. segs[n - 1].to \in Prices
      <4>1. n - 1 \in 1 .. n
        BY <1>2, <2>1
      <4>2. segs[n - 1] \in KagiLines
        BY <1>2, <4>1 DEF n
      <4>. QED BY <4>2 DEF KagiLines
    <3>3. w # None
      BY <3>1, <3>2, ChartAssumptions DEF Prices
    <3>4. s * (k.extreme - segs[n - 1].to) > 0 => s * (p - segs[n - 1].to) > 0
      <4>. DEFINE x == segs[n - 1].to
      <4>1. x \in Int /\ p \in Int /\ k.extreme \in Int /\ s * (p - k.extreme) >= 0
        BY <1>2, <3>2 DEF Prices, s, d
      <4>. HIDE DEF x
      <4>2. s * (k.extreme - x) > 0 => s * (p - x) > 0
        BY <1>3, <4>1
      <4>. QED BY <4>2 DEF x
    <3>. QED BY <1>4, <1>5, <2>1, <3>1, <3>3, <3>4
  <2>2. CASE ~(n > 1)
    BY <1>4, <1>5, <2>2
  <2>. QED BY <2>1, <2>2
<1>8. UnderWay(r)
  BY <1>4, <1>5, <1>6, <1>7 DEF UnderWay, s, n, w
<1>9. PathOf(r)
  BY <1>4, <1>5, <1>8 DEF PathOf, n
<1>10. NotTurned(r, p)
  <2>1. ~Chart!Moved(p, p, -s) /\ s * (p - p) <= 0
    BY <1>3, MovedIs DEF Prices
  <2>. QED BY <1>4, <2>1 DEF NotTurned, s
<1>. QED BY <1>4, <1>9, <1>10 DEF r, e

LEMMA TurnKeeps ==
  ASSUME NEW k \in Kagis, PathOf(k), NEW p \in Prices,
         Chart!Moved(k.extreme, p, -Chart!Sign(k.direction))
  PROVE  LET r == Chart!Restated([k EXCEPT
                    !.swing[k.direction] = k.extreme,
                    !.segments = Append(@, [from |-> k.start, to |-> k.extreme, state |-> k.state]),
                    !.direction = Chart!Opposite(k.direction), !.start = k.extreme,
                    !.extreme = p])
         IN  r \in Kagis /\ PathOf(r) /\ NotTurned(r, p)
<1>. DEFINE d == k.direction
            o == Chart!Opposite(d)
            s == Chart!Sign(d)
            segs == k.segments
            n == Len(segs)
            ls == Append(segs, LineOf(k))
            wings == [k.swing EXCEPT ![d] = k.extreme]
            e == [k EXCEPT !.swing[k.direction] = k.extreme,
                    !.segments = Append(@, [from |-> k.start, to |-> k.extreme, state |-> k.state]),
                    !.direction = Chart!Opposite(k.direction), !.start = k.extreme,
                    !.extreme = p]
            r == Chart!Restated(e)
<1>1. /\ d \in Ways /\ k.extreme \in Prices /\ k.start \in Prices /\ segs \in Seq(KagiLines)
      /\ k.swing \in [Ways -> Prices \cup {None}] /\ k.state \in States2 /\ n \in Nat
  BY DEF Kagis
<1>2. /\ o \in Ways /\ o # d /\ Chart!Opposite(o) = d /\ s \in {1, -1} /\ Chart!Sign(o) = -s
      /\ (o = "UP" <=> d = "DOWN") /\ (o = "DOWN" <=> d = "UP")
  BY <1>1, WaysAre DEF Ways
<1>3. /\ ls \in Seq(KagiLines) /\ Len(ls) = n + 1
      /\ \A i \in 1 .. n : ls[i] = segs[i]
      /\ ls[n + 1] = LineOf(k)
      /\ Chart!Upward(LineOf(k)) <=> d = "UP"
      /\ \A i \in 1 .. Len(ls) : LineHolds(ls, i)
  BY LinesHold
<1>4. /\ k.swing[o] = IF n > 0 THEN segs[n].to ELSE None
      /\ k.swing[o] \in Prices \cup {None}
  BY <1>1, <1>2 DEF PathOf, UnderWay
<1>5. /\ wings \in [Ways -> Prices \cup {None}]
      /\ wings[d] = k.extreme /\ wings[o] = k.swing[o]
  BY <1>1, <1>2
<1>. HIDE DEF ls, wings, o
<1>6. e = [k EXCEPT !.swing = wings, !.segments = ls, !.direction = o, !.start = k.extreme,
                    !.extreme = p]
  BY DEF ls, wings, o, LineOf
<1>. HIDE DEF e
<1>7. /\ e \in Kagis /\ e.direction = o /\ e.extreme = p /\ e.start = k.extreme
      /\ e.swing = wings /\ e.segments = ls /\ e.state = k.state
  BY <1>1, <1>2, <1>3, <1>5, <1>6 DEF Kagis
<1>8. /\ r \in Kagis /\ r.direction = o /\ r.extreme = p /\ r.start = k.extreme
      /\ r.swing = wings /\ r.segments = ls
      /\ r.state = IF k.swing[o] # None /\ (-s) * (p - k.swing[o]) > 0
                   THEN Chart!StateOf(o) ELSE k.state
  BY <1>2, <1>5, <1>7, RestatedIs
<1>9. LineOf(k).to = k.extreme /\ LineOf(k).state = k.state
  BY DEF LineOf
<1>. HIDE DEF r, s, d, segs, n
<1>10. /\ n + 1 > 0 /\ n + 1 # 0 /\ (n + 1) - 1 = n
       /\ (n > 0 => n + 1 > 1 /\ n \in 1 .. n) /\ (~(n > 0) => ~(n + 1 > 1))
  BY <1>1
<1>11. r.state = IF n + 1 = 0 \/ (n + 1 > 1 /\ (-s) * (p - ls[n].to) > 0)
                 THEN Chart!StateOf(o) ELSE ls[n + 1].state
  <2>1. CASE n > 0
    <3>1. k.swing[o] = ls[n].to
      BY <1>3, <1>4, <1>10, <2>1
    <3>2. k.swing[o] # None
      <4>1. ls[n] \in KagiLines
        BY <1>1, <1>3, <1>10, <2>1
      <4>2. ls[n].to \in Prices
        BY <4>1 DEF KagiLines
      <4>. QED BY <3>1, <4>2, ChartAssumptions DEF Prices
    <3>. QED BY <1>3, <1>8, <1>9, <1>10, <2>1, <3>1, <3>2
  <2>2. CASE ~(n > 0)
    BY <1>3, <1>4, <1>8, <1>9, <1>10, <2>2
  <2>. QED BY <2>1, <2>2
<1>12. UnderWay(r)
  <2>1. Chart!Moved(r.start, r.extreme, Chart!Sign(r.direction))
    BY <1>2, <1>8 DEF s, d
  <2>2. Len(r.segments) = n + 1 /\ r.segments[n + 1] = LineOf(k)
    BY <1>3, <1>8
  <2>3. r.start = r.segments[n + 1].to /\ (Chart!Upward(r.segments[n + 1]) <=> r.direction = "DOWN")
    BY <1>2, <1>3, <1>8, <1>9, <2>2
  <2>4. r.swing[r.direction] = IF n + 1 > 1 THEN r.segments[n].to ELSE None
    <3>1. CASE n > 0
      BY <1>3, <1>4, <1>5, <1>8, <1>10, <3>1
    <3>2. CASE ~(n > 0)
      BY <1>4, <1>5, <1>8, <1>10, <3>2
    <3>. QED BY <3>1, <3>2
  <2>5. r.swing[Chart!Opposite(r.direction)] = r.segments[n + 1].to
    BY <1>2, <1>5, <1>8, <1>9, <2>2
  <2>6. r.state = IF n + 1 = 0 \/ (n + 1 > 1 /\ Chart!Sign(r.direction) * (r.extreme - r.segments[n].to) > 0)
                  THEN Chart!StateOf(r.direction) ELSE r.segments[n + 1].state
    BY <1>2, <1>8, <1>11
  <2>. QED BY <1>10, <2>1, <2>2, <2>3, <2>4, <2>5, <2>6 DEF UnderWay
<1>13. PathOf(r)
  BY <1>3, <1>8, <1>12 DEF PathOf
<1>14. NotTurned(r, p)
  <2>1. s \in {1, -1} /\ -(-s) \in {1, -1}
    BY <1>2
  <2>2. ~Chart!Moved(p, p, -(-s)) /\ (-s) * (p - p) <= 0
    BY <2>1, MovedIs DEF Prices
  <2>. QED BY <1>2, <1>8, <2>2 DEF NotTurned
<1>. QED BY <1>8, <1>13, <1>14 DEF r, e

LEMMA AdvancedKeeps ==
  ASSUME NEW k \in Kagis, PathOf(k), NEW p \in Prices
  PROVE  LET r == Chart!Advanced(k, p) IN r \in Kagis /\ PathOf(r) /\ NotTurned(r, p)
<1>. DEFINE s == Chart!Sign(k.direction)
<1>1. s \in {1, -1} /\ k.extreme \in Int /\ p \in Int
  BY WaysAre DEF Kagis, Prices
<1>2. CASE s * (p - k.extreme) >= 0
  <2>1. Chart!Advanced(k, p) = Chart!Restated([k EXCEPT !.extreme = p])
    BY <1>2 DEF Chart!Advanced
  <2>. QED BY <1>2, <2>1, ExtendKeeps
<1>3. CASE ~(s * (p - k.extreme) >= 0) /\ ~Chart!Moved(k.extreme, p, -s)
  <2>1. Chart!Advanced(k, p) = k
    BY <1>3 DEF Chart!Advanced
  <2>2. s * (p - k.extreme) <= 0
    <3>. HIDE DEF s
    <3>. QED BY <1>1, <1>3
  <2>. QED BY <1>3, <2>1, <2>2 DEF NotTurned
<1>4. CASE ~(s * (p - k.extreme) >= 0) /\ Chart!Moved(k.extreme, p, -s)
  <2>1. Chart!Advanced(k, p) =
          Chart!Restated([k EXCEPT
            !.swing[k.direction] = k.extreme,
            !.segments = Append(@, [from |-> k.start, to |-> k.extreme, state |-> k.state]),
            !.direction = Chart!Opposite(k.direction), !.start = k.extreme,
            !.extreme = p])
    BY <1>4 DEF Chart!Advanced
  <2>. QED BY <1>4, <2>1, TurnKeeps
<1>. QED BY <1>2, <1>3, <1>4

\* The first price that has moved far enough begins the first line.
LEMMA FirstLine ==
  ASSUME NEW from \in Prices, NEW p \in Prices, NEW d \in Ways, Chart!Moved(from, p, Chart!Sign(d))
  PROVE  LET r == [Chart!NoTrend EXCEPT !.direction = d, !.start = from, !.extreme = p,
                                        !.state = Chart!StateOf(d)]
         IN  r \in Kagis /\ PathOf(r) /\ NotTurned(r, p)
<1>. DEFINE r == [Chart!NoTrend EXCEPT !.direction = d, !.start = from, !.extreme = p,
                                        !.state = Chart!StateOf(d)]
            wings == [UP |-> None, DOWN |-> None]
            none == [direction : {None}, extreme : {None}, start : {None}, state : {None},
                     swing : {wings}, segments : {<<>>}]
<1>1. Chart!NoTrend \in none
  BY DEF Chart!NoTrend
<1>2. wings \in [Ways -> Prices \cup {None}] /\ \A x \in Ways : wings[x] = None
  BY DEF Ways
<1>3. <<>> \in Seq(KagiLines) /\ Chart!StateOf(d) \in States2 /\ Chart!Opposite(d) \in Ways
      /\ Chart!Sign(d) \in {1, -1}
  BY WaysAre
<1>. HIDE DEF wings
<1>4. /\ r \in Kagis /\ r.direction = d /\ r.extreme = p /\ r.start = from
      /\ r.state = Chart!StateOf(d) /\ r.swing = wings /\ r.segments = <<>> /\ Len(r.segments) = 0
  BY <1>1, <1>2, <1>3 DEF Kagis
<1>. HIDE DEF r
<1>5. PathOf(r)
  BY <1>2, <1>3, <1>4 DEF PathOf, UnderWay
<1>6. NotTurned(r, p)
  <2>1. -Chart!Sign(d) \in {1, -1} /\ Chart!Sign(d) * (p - p) <= 0
    BY <1>3 DEF Prices
  <2>. QED BY <1>4, <2>1, MovedIs DEF NotTurned
<1>. QED BY <1>4, <1>5, <1>6 DEF r

-----------------------------------------------------------------------------
(***************************************************************************)
(* Fractions, which Heikin-Ashi bars are made of.                          *)
(***************************************************************************)
Divides(d, n) == \E q \in Int : n = q * d

\* A factor that is positive keeps the order, and may be cancelled.
LEMMA Scale ==
  ASSUME NEW a \in Int, NEW b \in Int, NEW c \in Nat \ {0}
  PROVE  /\ a =< b <=> a * c =< b * c
         /\ a = b <=> a * c = b * c
<1>1. ASSUME NEW x \in Int, NEW y \in Int, x < y PROVE x * c < y * c
  <2>1. (y - x) * c > 0
    BY <1>1
  <2>2. (y - x) * c = (y * c) - (x * c) /\ x * c \in Int /\ y * c \in Int
    OBVIOUS
  <2>. QED BY <2>1, <2>2
<1>2. a * c \in Int /\ b * c \in Int
  OBVIOUS
<1>3. CASE a < b
  BY <1>1, <1>2, <1>3
<1>4. CASE b < a
  BY <1>1, <1>2, <1>4
<1>5. CASE a = b
  BY <1>2, <1>5
<1>. QED BY <1>3, <1>4, <1>5

LEMMA Quotient ==
  ASSUME NEW k \in Int, NEW g \in Nat \ {0}
  PROVE  (k * g) \div g = k
<1>. DEFINE x == k * g
            y == x \div g
<1>1. x \in Int
  OBVIOUS
<1>2. y \in Int /\ y * g =< x /\ x < y * g + g
  <2>. HIDE DEF x
  <2>. QED BY <1>1
<1>. HIDE DEF y
<1>3. ~(y > k)
  <2>1. SUFFICES ASSUME y > k PROVE FALSE
    OBVIOUS
  <2>2. k + 1 =< y /\ k + 1 \in Int
    BY <1>2, <2>1
  <2>3. (k + 1) * g =< y * g
    BY <1>2, <2>2, Scale
  <2>4. (k + 1) * g = k * g + g /\ y * g \in Int
    BY <1>2
  <2>. QED BY <1>1, <1>2, <2>3, <2>4
<1>4. ~(y < k)
  <2>1. SUFFICES ASSUME y < k PROVE FALSE
    OBVIOUS
  <2>2. y + 1 =< k /\ y + 1 \in Int
    BY <1>2, <2>1
  <2>3. (y + 1) * g =< k * g
    BY <1>2, <2>2, Scale
  <2>4. (y + 1) * g = y * g + g /\ y * g \in Int
    BY <1>2
  <2>. QED BY <1>1, <1>2, <2>3, <2>4
<1>. QED BY <1>2, <1>3, <1>4 DEF y

LEMMA Remainder ==
  ASSUME NEW a \in Nat, NEW b \in Nat \ {0}
  PROVE  \E q \in Nat : a = q * b + (a % b) /\ a % b \in Nat /\ a % b < b
<1>1. a = (a \div b) * b + (a % b) /\ a \div b \in Int /\ a % b \in Nat /\ a % b < b
  OBVIOUS
<1>2. a \div b >= 0
  <2>1. SUFFICES ASSUME a \div b < 0 PROVE FALSE
    BY <1>1
  <2>. DEFINE q == a \div b
              r == a % b
  <2>2. q + 1 =< 0 /\ q \in Int /\ r \in Nat /\ r < b /\ a = q * b + r
    BY <1>1, <2>1
  <2>. HIDE DEF q, r
  <2>3. (q + 1) * b =< 0 * b
    BY <2>2, Scale
  <2>4. (q + 1) * b = q * b + b /\ 0 * b = 0 /\ q * b \in Int
    BY <2>2
  <2>. QED BY <2>2, <2>3, <2>4
<1>3. a \div b \in Nat
  BY <1>1, <1>2
<1>. QED BY <1>1, <1>3

\* What divides two numbers divides their sum and difference.
LEMMA DividesSum ==
  ASSUME NEW d \in Int, NEW a \in Int, NEW b \in Int, NEW q \in Int, NEW r \in Int,
         a = q * b + r, Divides(d, b)
  PROVE  Divides(d, a) <=> Divides(d, r)
<1>1. PICK k \in Int : b = k * d
  BY DEF Divides
<1>2. ASSUME NEW m \in Int, r = m * d PROVE Divides(d, a)
  <2>1. q * k + m \in Int /\ a = (q * k + m) * d
    BY <1>1, <1>2
  <2>. QED BY <2>1 DEF Divides
<1>3. ASSUME NEW m \in Int, a = m * d PROVE Divides(d, r)
  <2>1. m - (q * k) \in Int /\ r = (m - (q * k)) * d
    BY <1>1, <1>3
  <2>. QED BY <2>1 DEF Divides
<1>. QED BY <1>2, <1>3 DEF Divides

LEMMA DividesLess ==
  ASSUME NEW d \in Nat, NEW n \in Nat \ {0}, Divides(d, n)
  PROVE  d =< n /\ d # 0
<1>1. PICK k \in Int : n = k * d
  BY DEF Divides
<1>2. d # 0
  BY <1>1
<1>3. k > 0
  <2>1. SUFFICES ASSUME k =< 0 PROVE FALSE
    OBVIOUS
  <2>2. k * d =< 0 * d /\ 0 * d = 0
    BY <1>2, <2>1, Scale
  <2>. QED BY <1>1, <2>2
<1>4. 1 * d =< k * d /\ 1 * d = d
  <2>1. 1 =< k /\ 1 \in Int /\ d \in Nat \ {0}
    BY <1>2, <1>3
  <2>. QED BY <2>1, Scale
<1>. QED BY <1>1, <1>2, <1>4

\* There is a function that satisfies the recursion: the greatest common divisor.
CommonDivisors(a, b) == {d \in 1 .. b : Divides(d, a) /\ Divides(d, b)}

GreatestCommon ==
  [p \in Nat \X Nat |-> IF p[2] = 0 THEN p[1] ELSE Max(CommonDivisors(p[1], p[2]))]

LEMMA GcdSteps ==
  \A a, b \in Nat : Chart!Gcd[<<a, b>>] = IF b = 0 THEN a ELSE Chart!Gcd[<<b, a % b>>]
<1>. DEFINE G == GreatestCommon
<1>1. \A a, b \in Nat : G[a, b] = IF b = 0 THEN a ELSE Max(CommonDivisors(a, b))
  BY DEF GreatestCommon
<1>2. ASSUME NEW a \in Nat, NEW b \in Nat, b # 0 PROVE G[a, b] = G[b, a % b]
  <2>. DEFINE r == a % b
  <2>1. PICK q \in Nat : a = q * b + r /\ r \in Nat /\ r < b
    BY <1>2, Remainder
  <2>. HIDE DEF r
  <2>2. ASSUME NEW d \in Int, Divides(d, b) PROVE Divides(d, a) <=> Divides(d, r)
    <3>1. a \in Int /\ b \in Int /\ q \in Int /\ r \in Int /\ a = q * b + r
      BY <2>1
    <3>. QED BY <2>2, <3>1, DividesSum
  <2>3. CASE r = 0
    <3>1. Divides(b, b) /\ Divides(b, r)
      <4>1. b = 1 * b /\ r = 0 * b
        BY <2>3
      <4>. QED BY <4>1 DEF Divides
    <3>2. b \in CommonDivisors(a, b)
      BY <1>2, <2>2, <3>1 DEF CommonDivisors
    <3>3. CommonDivisors(a, b) \in SUBSET Int /\ \A d \in CommonDivisors(a, b) : b >= d
      BY DEF CommonDivisors
    <3>4. Max(CommonDivisors(a, b)) = b
      BY <3>2, <3>3, Extreme
    <3>. QED BY <1>1, <1>2, <2>1, <2>3, <3>4 DEF r
  <2>4. CASE r # 0
    <3>1. ASSUME NEW d \in CommonDivisors(a, b) PROVE d \in CommonDivisors(b, r)
      <4>1. d \in Nat /\ d >= 1 /\ Divides(d, b) /\ Divides(d, r)
        BY <2>2 DEF CommonDivisors
      <4>2. d =< r
        BY <2>1, <2>4, <4>1, DividesLess
      <4>. QED BY <2>1, <4>1, <4>2 DEF CommonDivisors
    <3>2. ASSUME NEW d \in CommonDivisors(b, r) PROVE d \in CommonDivisors(a, b)
      <4>1. d \in Nat /\ d >= 1 /\ d =< b /\ Divides(d, b) /\ Divides(d, r)
        BY <2>1 DEF CommonDivisors
      <4>. QED BY <2>2, <4>1 DEF CommonDivisors
    <3>3. CommonDivisors(a, b) = CommonDivisors(b, r)
      BY <3>1, <3>2
    <3>4. G[b, r] = Max(CommonDivisors(b, r)) /\ G[a, b] = Max(CommonDivisors(a, b))
      BY <1>1, <1>2, <2>1, <2>4
    <3>. QED BY <3>3, <3>4 DEF r
  <2>. QED BY <2>3, <2>4
<1>3. G = [p \in Nat \X Nat |-> IF p[2] = 0 THEN p[1] ELSE G[p[2], p[1] % p[2]]]
  <2>1. \A a, b \in Nat : G[a, b] = IF b = 0 THEN a ELSE G[b, a % b]
    BY <1>1, <1>2
  <2>2. ASSUME NEW p \in Nat \X Nat
        PROVE  G[p] = IF p[2] = 0 THEN p[1] ELSE G[p[2], p[1] % p[2]]
    <3>1. PICK a \in Nat, b \in Nat : p = <<a, b>>
      OBVIOUS
    <3>. HIDE DEF G
    <3>. QED BY <2>1, <3>1
  <2>3. G = [p \in Nat \X Nat |-> G[p]]
    BY DEF GreatestCommon
  <2>. HIDE DEF G
  <2>. QED BY <2>2, <2>3
<1>4. Chart!Gcd = [p \in Nat \X Nat |-> IF p[2] = 0 THEN p[1] ELSE Chart!Gcd[<<p[2], p[1] % p[2]>>]]
  BY <1>3 DEF Chart!Gcd
<1>. HIDE DEF G
<1>. QED BY <1>4

Common(a, b) ==
  Chart!Gcd[<<a, b>>] \in Nat /\ Divides(Chart!Gcd[<<a, b>>], a) /\ Divides(Chart!Gcd[<<a, b>>], b)

\* It divides both.
LEMMA GcdDivides ==
  ASSUME NEW a \in Nat, NEW b \in Nat \ {0}
  PROVE  LET g == Chart!Gcd[<<a, b>>] IN g \in Nat \ {0} /\ Divides(g, a) /\ Divides(g, b)
<1>. DEFINE T == {y \in Nat : \E x \in Nat : ~Common(x, y)}
<1>1. T = {}
  <2>1. SUFFICES ASSUME T # {} PROVE FALSE
    OBVIOUS
  <2>2. PICK y \in T : \A z \in T : y =< z
    <3>1. T \in SUBSET Nat
      OBVIOUS
    <3>. HIDE DEF T
    <3>. QED BY <2>1, <3>1, Least
  <2>3. PICK x \in Nat : ~Common(x, y)
    BY <2>2
  <2>4. y \in Nat /\ x \in Nat /\ \A u, v \in Nat : v < y => Common(u, v)
    <3>1. y \in Nat
      BY <2>2
    <3>2. ASSUME NEW u \in Nat, NEW v \in Nat, v < y PROVE Common(u, v)
      <4>1. v \notin T
        <5>. HIDE DEF T
        <5>. QED BY <2>2, <3>1, <3>2
      <4>. QED BY <4>1
    <3>. QED BY <3>1, <3>2
  <2>. HIDE DEF T
  <2>5. CASE y = 0
    <3>1. Chart!Gcd[<<x, y>>] = x
      BY <2>4, <2>5, GcdSteps
    <3>2. x = 1 * x /\ y = 0 * x
      BY <2>4, <2>5
    <3>3. Divides(x, x) /\ Divides(x, y)
      BY <2>4, <3>2 DEF Divides
    <3>. QED BY <2>3, <3>1, <3>3 DEF Common
  <2>6. CASE y # 0
    <3>. DEFINE r == x % y
                g == Chart!Gcd[<<y, r>>]
    <3>1. PICK q \in Nat : x = q * y + r /\ r \in Nat /\ r < y
      BY <2>4, <2>6, Remainder
    <3>2. Chart!Gcd[<<x, y>>] = g
      BY <2>4, <2>6, GcdSteps
    <3>. HIDE DEF r
    <3>3. Common(y, r)
      BY <2>4, <3>1
    <3>4. g \in Nat /\ Divides(g, y) /\ Divides(g, r)
      BY <3>3 DEF Common
    <3>. HIDE DEF g
    <3>5. Divides(g, x)
      <4>1. /\ g \in Int /\ x \in Int /\ y \in Int /\ q \in Int /\ r \in Int
            /\ x = q * y + r
        BY <2>4, <3>1, <3>4
      <4>. QED BY <3>4, <4>1, DividesSum
    <3>. QED BY <2>3, <3>2, <3>4, <3>5 DEF Common
  <2>. QED BY <2>5, <2>6
<1>2. Common(a, b)
  BY <1>1
<1>3. Chart!Gcd[<<a, b>>] # 0
  BY <1>2, DividesLess DEF Common
<1>. QED BY <1>2, <1>3 DEF Common
Fraction == Int \X (Nat \ {0})

\* A ratio stands for the number it is made from.
LEMMA RatioIs ==
  ASSUME NEW n \in Int, NEW d \in Nat \ {0}
  PROVE  LET q == Chart!Ratio(n, d) IN q \in Fraction /\ q[1] * d = n * q[2]
<1>1. CASE d = 1
  <2>1. Chart!Ratio(n, d) = <<n, 1>>
    BY <1>1 DEF Chart!Ratio, Chart!Whole
  <2>. QED BY <1>1, <2>1 DEF Fraction
<1>2. CASE d # 1
  <2>. DEFINE g == Chart!Gcd[<<Chart!Abs(n), d>>]
              q == Chart!Ratio(n, d)
  <2>1. Chart!Abs(d) = d /\ Chart!Abs(n) \in Nat /\ (Chart!Abs(n) = n \/ Chart!Abs(n) = -n)
    BY DEF Chart!Abs
  <2>2. q = <<(1 * n) \div g, (1 * d) \div g>>
    <3>1. ~(d < 0)
      OBVIOUS
    <3>2. Chart!Ratio(n, d)
            = <<(1 * n) \div Chart!Gcd[<<Chart!Abs(n), Chart!Abs(d)>>],
                (1 * d) \div Chart!Gcd[<<Chart!Abs(n), Chart!Abs(d)>>]>>
      BY <1>2, <3>1, Zenon DEF Chart!Ratio
    <3>. QED BY <2>1, <3>2, Zenon
  <2>3. g \in Nat \ {0} /\ Divides(g, Chart!Abs(n)) /\ Divides(g, d)
    BY <2>1, GcdDivides
  <2>. HIDE DEF g, q
  <2>4. PICK k \in Int : n = k * g
    <3>1. PICK j \in Int : Chart!Abs(n) = j * g
      BY <2>3 DEF Divides
    <3>2. n = j * g \/ n = (-j) * g
      BY <2>1, <2>3, <3>1
    <3>. QED BY <3>2
  <2>5. PICK m \in Int : d = m * g
    BY <2>3 DEF Divides
  <2>6. 1 * n = k * g /\ 1 * d = m * g
    BY <2>4, <2>5
  <2>7. q = <<k, m>>
    BY <2>2, <2>3, <2>6, Quotient
  <2>8. m > 0
    <3>1. SUFFICES ASSUME m =< 0 PROVE FALSE
      OBVIOUS
    <3>2. m * g =< 0 * g /\ 0 * g = 0
      BY <2>3, <3>1, Scale
    <3>. QED BY <2>5, <3>2
  <2>9. k * d = n * m
    <3>1. k * (m * g) = (k * g) * m
      BY <2>3
    <3>. QED BY <2>4, <2>5, <3>1
  <2>10. q \in Fraction /\ q[1] = k /\ q[2] = m
    BY <2>7, <2>8 DEF Fraction
  <2>. QED BY <2>9, <2>10 DEF q
<1>. QED BY <1>1, <1>2

\* A fraction is compared with the number a ratio is made from.
LEMMA AgainstRatio ==
  ASSUME NEW z \in Fraction, NEW n \in Int, NEW d \in Nat \ {0}
  PROVE  /\ Chart!AtMost(z, Chart!Ratio(n, d)) <=> z[1] * d =< n * z[2]
         /\ Chart!AtMost(Chart!Ratio(n, d), z) <=> n * z[2] =< z[1] * d
<1>. DEFINE q == Chart!Ratio(n, d)
<1>1. q \in Fraction /\ q[1] * d = n * q[2]
  BY RatioIs
<1>. HIDE DEF q
<1>2. PICK a \in Int, b \in Nat \ {0} : z[1] = a /\ z[2] = b
  BY DEF Fraction
<1>3. PICK x \in Int, y \in Nat \ {0} : q[1] = x /\ q[2] = y
  BY <1>1 DEF Fraction
<1>4. /\ Chart!AtMost(z, q) <=> a * y =< x * b
      /\ Chart!AtMost(q, z) <=> x * b =< a * y
  BY <1>2, <1>3 DEF Chart!AtMost
<1>5. x * d = n * y
  BY <1>1, <1>3
<1>6. /\ (a * y) * d = (a * d) * y
      /\ (x * b) * d = (n * b) * y
  <2>1. (x * b) * d = (x * d) * b /\ (n * y) * b = (n * b) * y
    OBVIOUS
  <2>. QED BY <1>5, <2>1
<1>7. a * y \in Int /\ x * b \in Int /\ a * d \in Int /\ n * b \in Int
  OBVIOUS
<1>8. a * y =< x * b <=> a * d =< n * b
  <2>1. a * y =< x * b <=> (a * y) * d =< (x * b) * d
    BY <1>7, Scale
  <2>2. a * d =< n * b <=> (a * d) * y =< (n * b) * y
    BY <1>7, Scale
  <2>. QED BY <1>6, <2>1, <2>2
<1>9. x * b =< a * y <=> n * b =< a * d
  <2>1. x * b =< a * y <=> (x * b) * d =< (a * y) * d
    BY <1>7, Scale
  <2>2. n * b =< a * d <=> (n * b) * y =< (a * d) * y
    BY <1>7, Scale
  <2>. QED BY <1>6, <2>1, <2>2
<1>. QED BY <1>2, <1>4, <1>8, <1>9 DEF q

\* Fractions are ordered.
LEMMA AtMostIsOrder ==
  ASSUME NEW x \in Fraction, NEW y \in Fraction, NEW z \in Fraction
  PROVE  /\ Chart!AtMost(x, x)
         /\ Chart!AtMost(x, y) \/ Chart!AtMost(y, x)
         /\ Chart!AtMost(x, y) /\ Chart!AtMost(y, z) => Chart!AtMost(x, z)
<1>1. PICK a \in Int, b \in Nat \ {0} : x[1] = a /\ x[2] = b
  BY DEF Fraction
<1>2. PICK c \in Int, d \in Nat \ {0} : y[1] = c /\ y[2] = d
  BY DEF Fraction
<1>3. PICK e \in Int, f \in Nat \ {0} : z[1] = e /\ z[2] = f
  BY DEF Fraction
<1>4. /\ Chart!AtMost(x, x) <=> a * b =< a * b
      /\ Chart!AtMost(x, y) <=> a * d =< c * b
      /\ Chart!AtMost(y, x) <=> c * b =< a * d
      /\ Chart!AtMost(y, z) <=> c * f =< e * d
      /\ Chart!AtMost(x, z) <=> a * f =< e * b
  BY <1>1, <1>2, <1>3 DEF Chart!AtMost
<1>5. /\ a * b \in Int /\ a * d \in Int /\ c * b \in Int /\ c * f \in Int /\ e * d \in Int
      /\ a * f \in Int /\ e * b \in Int
  OBVIOUS
<1>6. ASSUME a * d =< c * b, c * f =< e * d PROVE a * f =< e * b
  <2>1. (a * d) * f =< (c * b) * f
    BY <1>5, <1>6, Scale
  <2>2. (c * f) * b =< (e * d) * b
    BY <1>5, <1>6, Scale
  <2>3. /\ (a * d) * f = (a * f) * d /\ (c * b) * f = (c * f) * b /\ (e * d) * b = (e * b) * d
        /\ (a * f) * d \in Int /\ (c * f) * b \in Int /\ (e * b) * d \in Int
    OBVIOUS
  <2>4. (a * f) * d =< (e * b) * d
    BY <2>1, <2>2, <2>3
  <2>. QED BY <1>5, <2>4, Scale
<1>. QED BY <1>4, <1>5, <1>6

LEMMA Extent ==
  ASSUME NEW x \in Fraction, NEW y \in Fraction
  PROVE  /\ Chart!Least(x, y) \in Fraction /\ Chart!Greatest(x, y) \in Fraction
         /\ Chart!AtMost(Chart!Least(x, y), x) /\ Chart!AtMost(Chart!Least(x, y), y)
         /\ Chart!AtMost(x, Chart!Greatest(x, y)) /\ Chart!AtMost(y, Chart!Greatest(x, y))
BY AtMostIsOrder DEF Chart!Least, Chart!Greatest

\* What is half way between two fractions is between their bounds.
LEMMA HalfIs ==
  ASSUME NEW x \in Fraction, NEW y \in Fraction, NEW z \in Fraction
  PROVE  /\ Chart!Half(x, y) \in Fraction
         /\ Chart!AtMost(z, x) /\ Chart!AtMost(z, y) => Chart!AtMost(z, Chart!Half(x, y))
         /\ Chart!AtMost(x, z) /\ Chart!AtMost(y, z) => Chart!AtMost(Chart!Half(x, y), z)
<1>1. PICK a \in Int, b \in Nat \ {0} : x[1] = a /\ x[2] = b
  BY DEF Fraction
<1>2. PICK c \in Int, d \in Nat \ {0} : y[1] = c /\ y[2] = d
  BY DEF Fraction
<1>3. PICK e \in Int, f \in Nat \ {0} : z[1] = e /\ z[2] = f
  BY DEF Fraction
<1>. DEFINE n == (a * d) + (c * b)
            m == b * d
            p == Chart!Ratio(n, m)
<1>4. n \in Int /\ m \in Nat \ {0}
  OBVIOUS
<1>5. Chart!Plus(x, y) = p
  BY <1>1, <1>2 DEF Chart!Plus
<1>. HIDE DEF n, m
<1>6. p \in Fraction /\ p[1] * m = n * p[2]
  BY <1>4, RatioIs
<1>. HIDE DEF p
<1>7. PICK u \in Int, v \in Nat \ {0} : p[1] = u /\ p[2] = v
  BY <1>6 DEF Fraction
<1>8. Chart!Half(x, y) = Chart!Ratio(u * 1, v * 2)
  BY <1>5, <1>7 DEF Chart!Half, Chart!Over, Chart!Whole
<1>9. u * 1 \in Int /\ v * 2 \in Nat \ {0}
  OBVIOUS
<1>10. Chart!Half(x, y) \in Fraction
  BY <1>8, <1>9, RatioIs
<1>11. /\ Chart!AtMost(z, Chart!Half(x, y)) <=> e * (v * 2) =< (u * 1) * f
       /\ Chart!AtMost(Chart!Half(x, y), z) <=> (u * 1) * f =< e * (v * 2)
  BY <1>3, <1>8, <1>9, AgainstRatio
\* Both sides by m, and v taken out.
<1>12. /\ (e * (v * 2)) * m = ((e * 2) * m) * v
       /\ ((u * 1) * f) * m = (n * f) * v
  <2>1. ((u * 1) * f) * m = (u * m) * f /\ (n * v) * f = (n * f) * v
    BY <1>4
  <2>2. u * m = n * v
    BY <1>6, <1>7
  <2>. QED BY <1>4, <2>1, <2>2
<1>13. /\ e * (v * 2) \in Int /\ (u * 1) * f \in Int /\ (e * 2) * m \in Int /\ n * f \in Int
  BY <1>4
<1>14. /\ e * (v * 2) =< (u * 1) * f <=> (e * 2) * m =< n * f
       /\ (u * 1) * f =< e * (v * 2) <=> n * f =< (e * 2) * m
  <2>1. /\ e * (v * 2) =< (u * 1) * f <=> (e * (v * 2)) * m =< ((u * 1) * f) * m
        /\ (u * 1) * f =< e * (v * 2) <=> ((u * 1) * f) * m =< (e * (v * 2)) * m
    BY <1>4, <1>13, Scale
  <2>2. /\ (e * 2) * m =< n * f <=> ((e * 2) * m) * v =< (n * f) * v
        /\ n * f =< (e * 2) * m <=> (n * f) * v =< ((e * 2) * m) * v
    BY <1>13, Scale
  <2>. QED BY <1>12, <2>1, <2>2
<1>15. /\ (e * 2) * m = ((e * b) * d) + ((e * d) * b)
       /\ n * f = ((a * f) * d) + ((c * f) * b)
  BY DEF n, m
<1>16. /\ e * b \in Int /\ e * d \in Int /\ a * f \in Int /\ c * f \in Int
       /\ (e * b) * d \in Int /\ (e * d) * b \in Int /\ (a * f) * d \in Int /\ (c * f) * b \in Int
  OBVIOUS
<1>17. /\ Chart!AtMost(z, x) <=> e * b =< a * f
       /\ Chart!AtMost(z, y) <=> e * d =< c * f
       /\ Chart!AtMost(x, z) <=> a * f =< e * b
       /\ Chart!AtMost(y, z) <=> c * f =< e * d
  BY <1>1, <1>2, <1>3 DEF Chart!AtMost
<1>18. ASSUME Chart!AtMost(z, x), Chart!AtMost(z, y) PROVE Chart!AtMost(z, Chart!Half(x, y))
  <2>1. (e * b) * d =< (a * f) * d /\ (e * d) * b =< (c * f) * b
    BY <1>16, <1>17, <1>18, Scale
  <2>2. (e * 2) * m =< n * f
    BY <1>15, <1>16, <2>1
  <2>. QED BY <1>11, <1>14, <2>2
<1>19. ASSUME Chart!AtMost(x, z), Chart!AtMost(y, z) PROVE Chart!AtMost(Chart!Half(x, y), z)
  <2>1. (a * f) * d =< (e * b) * d /\ (c * f) * b =< (e * d) * b
    BY <1>16, <1>17, <1>19, Scale
  <2>2. n * f =< (e * 2) * m
    BY <1>15, <1>16, <2>1
  <2>. QED BY <1>11, <1>14, <2>2
<1>. QED BY <1>10, <1>18, <1>19
-----------------------------------------------------------------------------
(***************************************************************************)
(* Heikin-Ashi bars, and the three transforms together.                    *)
(***************************************************************************)
Made == [open : Fraction, close : Fraction, high : Fraction, low : Fraction, bar : CandleChoices]

Encloses(c) ==
  \A x \in {c.open, c.close, Chart!Whole(c.bar.open), Chart!Whole(c.bar.close)} :
    Chart!AtMost(c.low, x) /\ Chart!AtMost(x, c.high)

OpensInside(a, c) ==
  /\ Chart!AtMost(Chart!Least(a.open, a.close), c.open)
  /\ Chart!AtMost(c.open, Chart!Greatest(a.open, a.close))

HeikinInvariant ==
  /\ candles \in Seq(Made)
  /\ \A k \in 1 .. Len(candles) :
       Encloses(candles[k]) /\ (k > 1 => OpensInside(candles[k - 1], candles[k]))

LEMMA CandleIs ==
  ASSUME NEW c \in CandleChoices
  PROVE  LET W(n) == Chart!Whole(n)
         IN  /\ c.open \in Int /\ c.close \in Int /\ c.high \in Int /\ c.low \in Int
             /\ W(c.open) \in Fraction /\ W(c.close) \in Fraction
             /\ W(c.high) \in Fraction /\ W(c.low) \in Fraction
             /\ Chart!AtMost(W(c.low), W(c.open)) /\ Chart!AtMost(W(c.low), W(c.close))
             /\ Chart!AtMost(W(c.open), W(c.high)) /\ Chart!AtMost(W(c.close), W(c.high))
<1>1. /\ c.open \in Int /\ c.close \in Int /\ c.high \in Int /\ c.low \in Int
      /\ {c.open, c.close} \subseteq c.low .. c.high
  BY MarketDataAssumption DEF Chart!ChartAssumption
<1>2. /\ c.low =< c.open /\ c.low =< c.close /\ c.open =< c.high /\ c.close =< c.high
  BY <1>1
<1>3. \A n \in Int : Chart!Whole(n) \in Fraction
  BY DEF Chart!Whole, Fraction
<1>4. \A m, n \in Int : m =< n => Chart!AtMost(Chart!Whole(m), Chart!Whole(n))
  BY DEF Chart!Whole, Chart!AtMost
<1>. QED BY <1>1, <1>2, <1>3, <1>4

\* The bounds that are made for a bar enclose it.
LEMMA MadeEncloses ==
  ASSUME NEW c \in CandleChoices, NEW open \in Fraction, NEW close \in Fraction
  PROVE  LET r == [open |-> open, close |-> close, bar |-> c,
                   high |-> Chart!Greatest(Chart!Whole(c.high), Chart!Greatest(open, close)),
                   low |-> Chart!Least(Chart!Whole(c.low), Chart!Least(open, close))]
         IN  r \in Made /\ Encloses(r) /\ r.open = open
<1>. DEFINE h == Chart!Whole(c.high)
            l == Chart!Whole(c.low)
            top == Chart!Greatest(open, close)
            bot == Chart!Least(open, close)
            high == Chart!Greatest(h, top)
            low == Chart!Least(l, bot)
            a == Chart!Whole(c.open)
            b == Chart!Whole(c.close)
            r == [open |-> open, close |-> close, bar |-> c, high |-> high, low |-> low]
<1>1. /\ h \in Fraction /\ l \in Fraction /\ a \in Fraction /\ b \in Fraction
      /\ Chart!AtMost(l, a) /\ Chart!AtMost(l, b) /\ Chart!AtMost(a, h) /\ Chart!AtMost(b, h)
  BY CandleIs
<1>2. /\ top \in Fraction /\ bot \in Fraction
      /\ Chart!AtMost(bot, open) /\ Chart!AtMost(bot, close)
      /\ Chart!AtMost(open, top) /\ Chart!AtMost(close, top)
  BY Extent
<1>. HIDE DEF h, l, top, bot, a, b
<1>3. /\ high \in Fraction /\ low \in Fraction
      /\ Chart!AtMost(low, l) /\ Chart!AtMost(low, bot)
      /\ Chart!AtMost(h, high) /\ Chart!AtMost(top, high)
  BY <1>1, <1>2, Extent
<1>. HIDE DEF high, low
<1>4. r \in Made /\ r.open = open /\ r.close = close /\ r.bar = c /\ r.high = high /\ r.low = low
  BY <1>3 DEF Made
<1>5. \A x, y, z \in Fraction : Chart!AtMost(x, y) /\ Chart!AtMost(y, z) => Chart!AtMost(x, z)
  BY AtMostIsOrder
<1>6. /\ Chart!AtMost(low, open) /\ Chart!AtMost(low, close)
      /\ Chart!AtMost(open, high) /\ Chart!AtMost(close, high)
      /\ Chart!AtMost(low, a) /\ Chart!AtMost(low, b) /\ Chart!AtMost(a, high) /\ Chart!AtMost(b, high)
  BY <1>1, <1>2, <1>3, <1>5
<1>. HIDE DEF r
<1>7. Encloses(r)
  BY <1>4, <1>6 DEF Encloses, a, b
<1>. QED BY <1>4, <1>7 DEF r, high, low, h, l, top, bot

LEMMA MadeAppended ==
  ASSUME HeikinInvariant, NEW r \in Made, Encloses(r),
         candles # <<>> => OpensInside(candles[Len(candles)], r),
         candles' = Append(candles, r)
  PROVE  HeikinInvariant'
<1>. DEFINE n == Len(candles)
            ls == Append(candles, r)
<1>1. n \in Nat /\ candles \in Seq(Made) /\ (n > 0 => candles # <<>>)
  BY DEF HeikinInvariant
<1>2. /\ ls \in Seq(Made) /\ Len(ls) = n + 1
      /\ \A i \in 1 .. n : ls[i] = candles[i]
      /\ ls[n + 1] = r
  BY <1>1, AppendProperties
<1>. HIDE DEF ls, n
<1>3. ASSUME NEW k \in 1 .. n + 1
      PROVE  Encloses(ls[k]) /\ (k > 1 => OpensInside(ls[k - 1], ls[k]))
  <2>1. CASE k = n + 1
    <3>1. Encloses(ls[k])
      BY <1>2, <2>1
    <3>2. ASSUME k > 1 PROVE OpensInside(ls[k - 1], ls[k])
      <4>1. k - 1 = n /\ n \in 1 .. n /\ n > 0
        BY <1>1, <2>1, <3>2
      <4>2. ls[k - 1] = candles[n] /\ ls[k] = r /\ candles # <<>>
        BY <1>1, <1>2, <2>1, <4>1
      <4>. QED BY <4>2 DEF n
    <3>. QED BY <3>1, <3>2
  <2>2. CASE k # n + 1
    <3>1. k \in 1 .. n /\ (k > 1 => k - 1 \in 1 .. n)
      BY <1>1, <2>2
    <3>2. ls[k] = candles[k] /\ (k > 1 => ls[k - 1] = candles[k - 1])
      BY <1>2, <3>1
    <3>3. Encloses(candles[k]) /\ (k > 1 => OpensInside(candles[k - 1], candles[k]))
      BY <3>1 DEF HeikinInvariant, n
    <3>. QED BY <3>2, <3>3
  <2>. QED BY <2>1, <2>2
<1>4. candles' = ls
  BY DEF ls
<1>. QED BY <1>2, <1>3, <1>4 DEF HeikinInvariant

LEMMA TakeCandleKeeps ==
  ASSUME HeikinInvariant, NEW c \in CandleChoices, Chart!TakeCandle(c)
  PROVE  HeikinInvariant'
<1>. DEFINE n == Len(candles)
            a == candles[n]
            open == IF candles = <<>> THEN Chart!Half(Chart!Whole(c.open), Chart!Whole(c.close))
                    ELSE Chart!Half(a.open, a.close)
            close == Chart!Ratio(c.open + c.high + c.low + c.close, 4)
            r == [open |-> open, close |-> close, bar |-> c,
                  high |-> Chart!Greatest(Chart!Whole(c.high), Chart!Greatest(open, close)),
                  low |-> Chart!Least(Chart!Whole(c.low), Chart!Least(open, close))]
<1>1. candles' = Append(candles, r)
  BY Zenon DEF Chart!TakeCandle, Chart!Last
<1>2. /\ c.open \in Int /\ c.close \in Int /\ c.high \in Int /\ c.low \in Int
      /\ Chart!Whole(c.open) \in Fraction /\ Chart!Whole(c.close) \in Fraction
  BY CandleIs
<1>3. close \in Fraction
  <2>1. c.open + c.high + c.low + c.close \in Int /\ 4 \in Nat \ {0}
    BY <1>2
  <2>. QED BY <2>1, RatioIs
<1>4. candles # <<>> => a \in Made /\ a.open \in Fraction /\ a.close \in Fraction
  <2>1. candles # <<>> => a \in Made
    BY EmptySeq DEF HeikinInvariant
  <2>. HIDE DEF a
  <2>. QED BY <2>1 DEF Made
<1>. HIDE DEF a, close
<1>5. open \in Fraction
  BY <1>2, <1>4, HalfIs
<1>6. candles # <<>> => OpensInside(a, r)
  <2>. SUFFICES ASSUME candles # <<>> PROVE OpensInside(a, r)
    OBVIOUS
  <2>. DEFINE x == a.open
              y == a.close
  <2>1. x \in Fraction /\ y \in Fraction /\ open = Chart!Half(x, y) /\ r.open = open
    BY <1>4
  <2>. HIDE DEF x, y, open, r
  <2>2. /\ Chart!Least(x, y) \in Fraction /\ Chart!Greatest(x, y) \in Fraction
        /\ Chart!AtMost(Chart!Least(x, y), x) /\ Chart!AtMost(Chart!Least(x, y), y)
        /\ Chart!AtMost(x, Chart!Greatest(x, y)) /\ Chart!AtMost(y, Chart!Greatest(x, y))
    BY <2>1, Extent
  <2>3. /\ Chart!AtMost(Chart!Least(x, y), open)
        /\ Chart!AtMost(open, Chart!Greatest(x, y))
    BY <2>1, <2>2, HalfIs
  <2>. QED BY <2>1, <2>3 DEF OpensInside, x, y
<1>. HIDE DEF open
<1>7. r \in Made /\ Encloses(r)
  BY <1>3, <1>5, MadeEncloses
<1>. HIDE DEF r
<1>. QED BY <1>1, <1>6, <1>7, MadeAppended DEF a, n

ChartInvariant == Len(prices) <= MaxInput /\ RenkoInvariant /\ KagiInvariant /\ HeikinInvariant

LEMMA ChartStarts == PartsInit => ChartInvariant
<1>. SUFFICES ASSUME PartsInit PROVE ChartInvariant
  OBVIOUS
<1>1. prices = <<>> /\ bricks = <<>> /\ kagi = Chart!NoTrend /\ candles = <<>>
  BY DEF PartsInit, Chart!Init
<1>2. Len(prices) = 0 /\ MaxInput \in Nat
  BY <1>1, MarketDataAssumption DEF Chart!ChartAssumption
<1>3. RenkoInvariant
  BY <1>1 DEF RenkoInvariant, Chained
<1>4. KagiInvariant
  BY <1>1 DEF KagiInvariant, Chart!NoTrend
<1>5. HeikinInvariant
  BY <1>1 DEF HeikinInvariant
<1>. QED BY <1>2, <1>3, <1>4, <1>5 DEF ChartInvariant

LEMMA RenkoStep ==
  ASSUME RenkoInvariant, NEW p \in CandlePrices, Chart!TakePrice(p)
  PROVE  RenkoInvariant'
<1>. DEFINE qs == Append(prices, p)
<1>1. /\ prices \in Seq(CandlePrices) /\ bricks \in Seq(Brick)
      /\ renderer # "renko" \/ prices = <<>> => bricks = <<>>
      /\ Chained(bricks, prices[1])
  BY DEF RenkoInvariant
<1>2. /\ qs \in Seq(CandlePrices) /\ Len(qs) = Len(prices) + 1 /\ qs[Len(prices) + 1] = p
      /\ \A i \in 1 .. Len(prices) : qs[i] = prices[i]
      /\ Len(prices) \in Nat
  BY <1>1, AppendProperties
<1>3. prices' = qs /\ renderer' = renderer
      /\ bricks' = IF renderer = "renko" /\ prices # <<>> THEN bricks \o Chart!NewBricks(p) ELSE bricks
  BY DEF Chart!TakePrice
<1>. HIDE DEF qs
<1>4. prices' # <<>> /\ prices'[Len(prices')] = p
  BY <1>2, <1>3
<1>5. CASE renderer = "renko" /\ prices # <<>>
  <2>1. Len(prices) # 0
    BY <1>1, <1>5, EmptySeq
  <2>2. prices'[1] = prices[1]
    BY <1>2, <1>3, <2>1
  <2>. DEFINE c == bricks \o Chart!NewBricks(p)
  <2>3. Chained(c, prices[1]) /\ c \in Seq(Brick) /\ Reached(c, prices[1], p)
    BY <1>5, BricksGrow
  <2>4. bricks' = c
    BY <1>3, <1>5
  <2>. HIDE DEF c
  <2>5. prices' \in Seq(CandlePrices)
    BY <1>2, <1>3
  <2>6. Chained(bricks, prices[1])' /\ Reached(bricks, prices[1], prices[Len(prices)])'
    BY <1>4, <2>2, <2>3, <2>4 DEF Chained, Reached
  <2>. QED BY <1>3, <1>4, <1>5, <2>3, <2>4, <2>5, <2>6 DEF RenkoInvariant
<1>6. CASE ~(renderer = "renko" /\ prices # <<>>)
  <2>1. bricks = <<>> /\ bricks' = <<>>
    BY <1>1, <1>3, <1>6
  <2>2. ASSUME renderer' = "renko" PROVE Reached(bricks, prices[1], prices[Len(prices)])'
    <3>1. prices = <<>> /\ Len(prices) = 0
      BY <1>1, <1>3, <1>6, <2>2, EmptySeq
    <3>2. prices'[1] = p
      BY <1>2, <1>3, <3>1
    <3>3. p < p + BrickSize /\ p > p - BrickSize
      BY ChartAssumptions
    <3>. QED BY <1>4, <2>1, <3>2, <3>3 DEF Reached
  <2>3. Chained(bricks, prices[1])'
    BY <2>1 DEF Chained
  <2>. QED BY <1>1, <1>2, <1>3, <2>1, <2>2, <2>3 DEF RenkoInvariant
<1>. QED BY <1>5, <1>6

LEMMA KagiStep ==
  ASSUME RenkoInvariant, KagiInvariant, NEW p \in CandlePrices, Chart!TakePrice(p)
  PROVE  KagiInvariant'
<1>. DEFINE qs == Append(prices, p)
<1>1. prices \in Seq(CandlePrices) /\ p \in Prices
  BY ChartAssumptions DEF RenkoInvariant, Prices
<1>2. Len(qs) = Len(prices) + 1 /\ qs[Len(prices) + 1] = p /\ Len(prices) \in Nat
  BY <1>1, AppendProperties
<1>3. prices' = qs /\ renderer' = renderer
      /\ kagi' = IF renderer = "kagi" /\ prices # <<>> THEN Chart!NextKagi(p) ELSE kagi
  BY DEF Chart!TakePrice
<1>. HIDE DEF qs
<1>4. prices' # <<>> /\ prices'[Len(prices')] = p
  BY <1>2, <1>3
<1>5. None \notin Ways
  BY ChartAssumptions DEF Ways
\* A line under way, however it came about.
<1>6. ASSUME renderer = "kagi", NEW r \in Kagis, kagi' = r, PathOf(r), NotTurned(r, p)
      PROVE  KagiInvariant'
  <2>1. r.direction \in Ways
    BY <1>6 DEF Kagis
  <2>2. kagi'.direction # None /\ PathOf(kagi') /\ NotTurned(kagi', p) /\ kagi' \in Kagis
    BY <1>5, <1>6, <2>1
  <2>3. PathOf(kagi)' /\ NotTurned(kagi, prices[Len(prices)])'
    <3>1. PathOf(kagi)'
      BY <2>2 DEF PathOf, UnderWay, LineHolds, Chart!Moved, Chart!Upward, Chart!Sign,
                  Chart!Opposite, Chart!StateOf
    <3>2. NotTurned(kagi, prices[Len(prices)])'
      BY <1>4, <2>2 DEF NotTurned, Chart!Moved, Chart!Sign
    <3>. QED BY <3>1, <3>2
  <2>. QED BY <1>3, <1>4, <1>6, <2>2, <2>3 DEF KagiInvariant, Kagis, Ways, KagiLines, States2, Prices
<1>7. CASE kagi.direction # None
  <2>1. renderer = "kagi" /\ prices # <<>> /\ kagi \in Kagis /\ PathOf(kagi)
    BY <1>7 DEF KagiInvariant
  <2>. DEFINE r == Chart!Advanced(kagi, p)
  <2>2. kagi' = r
    BY <1>3, <1>7, <2>1 DEF Chart!NextKagi
  <2>3. r \in Kagis /\ PathOf(r) /\ NotTurned(r, p)
    BY <1>1, <2>1, AdvancedKeeps
  <2>. HIDE DEF r
  <2>. QED BY <1>6, <2>1, <2>2, <2>3
<1>8. CASE kagi.direction = None /\ kagi' = kagi
  BY <1>8 DEF KagiInvariant, Chart!NoTrend
<1>9. CASE kagi.direction = None /\ kagi' # kagi
  <2>1. kagi = Chart!NoTrend
    BY <1>9 DEF KagiInvariant
  <2>2. renderer = "kagi" /\ prices # <<>> /\ kagi' = Chart!NextKagi(p)
    BY <1>3, <1>9
  <2>. DEFINE d == Chart!Trend(p)
              from == prices[1]
              r == [Chart!NoTrend EXCEPT !.direction = d, !.start = from, !.extreme = p,
                                         !.state = Chart!StateOf(d)]
  <2>3. d # None /\ kagi' = r
    BY <1>9, <2>1, <2>2 DEF Chart!NextKagi
  <2>4. d \in Ways /\ Chart!Moved(from, p, Chart!Sign(d))
    BY <2>3 DEF Chart!Trend, Ways, Chart!Sign
  <2>5. from \in Prices
    <3>1. Len(prices) # 0
      BY <1>1, <2>2, EmptySeq
    <3>2. from \in CandlePrices
      BY <1>1, <1>2, <3>1
    <3>. QED BY <3>2, ChartAssumptions DEF Prices
  <2>. HIDE DEF d, from
  <2>6. r \in Kagis /\ PathOf(r) /\ NotTurned(r, p)
    BY <1>1, <2>4, <2>5, FirstLine
  <2>. HIDE DEF r
  <2>. QED BY <1>6, <2>2, <2>3, <2>6
<1>. QED BY <1>7, <1>8, <1>9

LEMMA ChartSame ==
  ASSUME ChartInvariant, UNCHANGED chartVars
  PROVE  ChartInvariant'
<1>1. /\ prices' = prices /\ bricks' = bricks /\ kagi' = kagi /\ candles' = candles
      /\ renderer' = renderer
  BY DEF chartVars
<1>2. (Len(prices) <= MaxInput)' /\ RenkoInvariant'
  BY <1>1 DEF ChartInvariant, RenkoInvariant, Chained, Reached, GoesOn, Brick
<1>3. KagiInvariant'
  BY <1>1 DEF ChartInvariant, KagiInvariant, PathOf, UnderWay, LineHolds, NotTurned, Kagis, Ways,
              KagiLines, States2, Prices, Chart!NoTrend, Chart!Moved, Chart!Upward, Chart!Sign,
              Chart!Opposite, Chart!StateOf
<1>4. HeikinInvariant'
  BY <1>1 DEF ChartInvariant, HeikinInvariant
<1>. QED BY <1>2, <1>3, <1>4 DEF ChartInvariant

LEMMA ChartStep ==
  ASSUME ChartInvariant, Chart!Next
  PROVE  ChartInvariant'
<1>1. ASSUME NEW p \in CandlePrices, Chart!TakePrice(p) PROVE ChartInvariant'
  <2>1. RenkoInvariant' /\ KagiInvariant'
    BY <1>1, RenkoStep, KagiStep DEF ChartInvariant
  <2>2. prices' = Append(prices, p) /\ Len(prices) < MaxInput /\ candles' = candles
    BY <1>1 DEF Chart!TakePrice
  <2>3. HeikinInvariant'
    BY <2>2 DEF ChartInvariant, HeikinInvariant
  <2>4. Len(prices') <= MaxInput
    <3>1. prices \in Seq(CandlePrices) /\ MaxInput \in Nat
      BY MarketDataAssumption DEF ChartInvariant, RenkoInvariant, Chart!ChartAssumption
    <3>. QED BY <2>2, <3>1
  <2>. QED BY <2>1, <2>3, <2>4 DEF ChartInvariant
<1>2. ASSUME NEW c \in CandleChoices, Chart!TakeCandle(c) PROVE ChartInvariant'
  <2>1. /\ prices' = prices /\ bricks' = bricks /\ kagi' = kagi /\ renderer' = renderer
    BY <1>2 DEF Chart!TakeCandle
  <2>2. HeikinInvariant'
    BY <1>2, TakeCandleKeeps DEF ChartInvariant
  <2>3. (Len(prices) <= MaxInput)' /\ RenkoInvariant'
    BY <2>1 DEF ChartInvariant, RenkoInvariant, Chained, Reached, GoesOn, Brick
  <2>4. KagiInvariant'
    BY <2>1 DEF ChartInvariant, KagiInvariant, PathOf, UnderWay, LineHolds, NotTurned, Kagis, Ways,
                KagiLines, States2, Prices, Chart!NoTrend, Chart!Moved, Chart!Upward, Chart!Sign,
                Chart!Opposite, Chart!StateOf
  <2>. QED BY <2>2, <2>3, <2>4 DEF ChartInvariant
<1>. QED BY <1>1, <1>2 DEF Chart!Next

LEMMA ChartInvariantHolds == PartsSpec => []ChartInvariant
<1>1. ASSUME ChartInvariant, [PartsNext]_allVars PROVE ChartInvariant'
  BY <1>1, ChartStep, ChartSame DEF PartsNext, Frozen, allVars
<1>. QED BY <1>1, ChartStarts, PTL DEF PartsSpec

LEMMA ChartExtremes ==
  /\ \A S : Chart!Max(S) = Max(S) /\ Chart!Min(S) = Min(S)
  /\ \A s : Chart!Last(s) = s[Len(s)]
BY DEF Chart!Max, Chart!Min, Chart!Last, Max, Min

\* A price within a brick of either end is within a brick of both extremes.
LEMMA WithinEnds ==
  ASSUME NEW x \in Int, NEW y \in Int, NEW p \in Int, NEW B \in Int,
         p < x + B \/ p < y + B, p > x - B \/ p > y - B
  PROVE  p < Chart!Max({x, y}) + B /\ p > Chart!Min({x, y}) - B
<1>1. {x, y} \in SUBSET Int /\ {x, y} # {} /\ IsFiniteSet({x, y})
  <2>1. IsFiniteSet({x}) /\ IsFiniteSet({y}) /\ {x, y} = {x} \cup {y}
    BY FS_Singleton
  <2>. QED BY <2>1, FS_Union
<1>2. /\ Max({x, y}) \in {x, y} /\ \A z \in {x, y} : z =< Max({x, y})
      /\ Min({x, y}) \in {x, y} /\ \A z \in {x, y} : Min({x, y}) =< z
  BY <1>1, Extremes
<1>. DEFINE u == Max({x, y})
            v == Min({x, y})
<1>3. u \in Int /\ v \in Int /\ x =< u /\ y =< u /\ v =< x /\ v =< y
  BY <1>2
<1>. HIDE DEF u, v
<1>4. p < u + B /\ p > v - B
  BY <1>3
<1>. QED BY <1>4, ChartExtremes DEF u, v

LEMMA RenkoShows == RenkoInvariant => Chart!RenkoIsChain
<1>. SUFFICES ASSUME RenkoInvariant PROVE Chart!RenkoIsChain
  OBVIOUS
<1>1. prices \in Seq(CandlePrices) /\ bricks \in Seq(Brick) /\ DOMAIN bricks = 1 .. Len(bricks)
  BY DEF RenkoInvariant
<1>2. Chained(bricks, prices[1])
  BY DEF RenkoInvariant
<1>3. ASSUME NEW k \in DOMAIN bricks
      PROVE  /\ bricks[k].to - bricks[k].from \in {BrickSize, -BrickSize}
             /\ IF k = 1 THEN bricks[1].from = prices[1]
                ELSE IF bricks[k].to - bricks[k].from = bricks[k - 1].to - bricks[k - 1].from
                THEN bricks[k].from = bricks[k - 1].to
                ELSE bricks[k].from = bricks[k - 1].from
  BY <1>1, <1>2, <1>3 DEF Chained, GoesOn
<1>4. ASSUME renderer = "renko", prices # <<>>
      PROVE  LET p == Chart!Last(prices)
                 ends == IF bricks = <<>> THEN {prices[1]}
                         ELSE {Chart!Last(bricks).from, Chart!Last(bricks).to}
             IN  p < Chart!Max(ends) + BrickSize /\ p > Chart!Min(ends) - BrickSize
  <2>. DEFINE p == prices[Len(prices)]
              level == prices[1]
              b == bricks[Len(bricks)]
  <2>1. p \in Int /\ level \in Int /\ BrickSize \in Int
    <3>1. p \in CandlePrices /\ level \in CandlePrices
      BY <1>1, <1>4, EmptySeq
    <3>. HIDE DEF p, level
    <3>. QED BY <3>1, ChartAssumptions
  <2>2. Reached(bricks, level, p)
    BY <1>4 DEF RenkoInvariant
  <2>3. Chart!Last(prices) = p /\ Chart!Last(bricks) = b
    BY ChartExtremes
  <2>4. CASE bricks = <<>>
    <3>. HIDE DEF p, level
    <3>1. p < level + BrickSize /\ p > level - BrickSize /\ {level, level} = {level}
      BY <2>2, <2>4 DEF Reached
    <3>2. p < Chart!Max({level, level}) + BrickSize /\ p > Chart!Min({level, level}) - BrickSize
      BY <2>1, <3>1, WithinEnds
    <3>3. p < Chart!Max({level}) + BrickSize /\ p > Chart!Min({level}) - BrickSize
      BY <3>1, <3>2
    <3>. QED BY <2>3, <2>4, <3>3 DEF level
  <2>5. CASE bricks # <<>>
    <3>1. b \in Brick
      BY <1>1, <2>5, EmptySeq
    <3>2. /\ p < b.from + BrickSize \/ p < b.to + BrickSize
          /\ p > b.from - BrickSize \/ p > b.to - BrickSize
      BY <2>2, <2>5 DEF Reached
    <3>. HIDE DEF p, b
    <3>3. b.from \in Int /\ b.to \in Int
      BY <3>1 DEF Brick
    <3>4. /\ p < Chart!Max({b.from, b.to}) + BrickSize
          /\ p > Chart!Min({b.from, b.to}) - BrickSize
      BY <2>1, <3>2, <3>3, WithinEnds
    <3>. QED BY <2>3, <2>5, <3>4
  <2>. QED BY <2>4, <2>5
<1>. QED BY <1>3, <1>4 DEF Chart!RenkoIsChain

LEMMA KagiShows == KagiInvariant => Chart!KagiIsPath
<1>. SUFFICES ASSUME KagiInvariant PROVE Chart!KagiIsPath
  OBVIOUS
<1>. DEFINE ls == Chart!Lines
<1>1. CASE kagi.direction = None
  <2>1. ls = <<>> /\ DOMAIN ls = {}
    BY <1>1 DEF Chart!Lines
  <2>. QED BY <2>1 DEF Chart!KagiIsPath
<1>2. CASE kagi.direction # None
  <2>1. kagi \in Kagis /\ PathOf(kagi) /\ NotTurned(kagi, prices[Len(prices)])
    BY <1>2 DEF KagiInvariant
  <2>2. ls = Append(kagi.segments, LineOf(kagi))
    BY <1>2 DEF Chart!Lines, LineOf
  <2>. HIDE DEF ls
  <2>3. ls \in Seq(KagiLines) /\ DOMAIN ls = 1 .. Len(ls) /\ \A i \in 1 .. Len(ls) : LineHolds(ls, i)
    BY <2>1, <2>2, LinesHold
  <2>4. \A k \in DOMAIN ls :
          LET line == ls[k]
              beyond == k > 2 /\ Chart!Sign(IF Chart!Upward(line) THEN "UP" ELSE "DOWN")
                                   * (line.to - ls[k - 2].to) > 0
          IN  /\ Chart!Moved(line.from, line.to, IF Chart!Upward(line) THEN 1 ELSE -1)
              /\ k > 1 => line.from = ls[k - 1].to /\ Chart!Upward(line) # Chart!Upward(ls[k - 1])
              /\ line.state = IF k = 1 \/ beyond THEN IF Chart!Upward(line) THEN "YANG" ELSE "YIN"
                              ELSE ls[k - 1].state
    BY <2>3, Zenon DEF LineHolds
  <2>5. /\ ~Chart!Moved(kagi.extreme, Chart!Last(prices), -Chart!Sign(kagi.direction))
        /\ Chart!Sign(kagi.direction) * (Chart!Last(prices) - kagi.extreme) <= 0
    BY <2>1, ChartExtremes DEF NotTurned
  <2>. QED BY <2>4, <2>5, Zenon DEF Chart!KagiIsPath, ls
<1>. QED BY <1>1, <1>2

LEMMA HeikinShows == HeikinInvariant => Chart!HeikinAshiEncloses
<1>. SUFFICES ASSUME HeikinInvariant PROVE Chart!HeikinAshiEncloses
  OBVIOUS
<1>1. DOMAIN candles = 1 .. Len(candles)
  BY DEF HeikinInvariant
<1>2. \A k \in DOMAIN candles :
        Encloses(candles[k]) /\ (k > 1 => OpensInside(candles[k - 1], candles[k]))
  BY <1>1 DEF HeikinInvariant
<1>. QED BY <1>2, Zenon DEF Encloses, OpensInside, Chart!HeikinAshiEncloses

LEMMA ChartIsTyped == ChartInvariant => Chart!TypeOK
<1>. SUFFICES ASSUME ChartInvariant PROVE Chart!TypeOK
  OBVIOUS
<1>1. ASSUME NEW k \in DOMAIN bricks PROVE bricks[k].from # bricks[k].to
  <2>1. k \in 1 .. Len(bricks) /\ bricks[k] \in Brick
    BY <1>1 DEF ChartInvariant, RenkoInvariant
  <2>2. bricks[k].to - bricks[k].from \in {BrickSize, -BrickSize}
    BY <2>1 DEF ChartInvariant, RenkoInvariant, Chained
  <2>. DEFINE b == bricks[k]
  <2>3. b.from \in Int /\ b.to \in Int
    BY <2>1 DEF Brick
  <2>. HIDE DEF b
  <2>4. b.from # b.to
    BY <2>2, <2>3, ChartAssumptions DEF b
  <2>. QED BY <2>4 DEF b
<1>2. kagi.direction \in {None, "UP", "DOWN"} /\ kagi.state \in {None, "YANG", "YIN"}
  <2>1. CASE kagi.direction = None
    BY <2>1 DEF ChartInvariant, KagiInvariant, Chart!NoTrend
  <2>2. CASE kagi.direction # None
    BY <2>2 DEF ChartInvariant, KagiInvariant, Kagis, Ways, States2
  <2>. QED BY <2>1, <2>2
<1>. QED BY <1>1, <1>2 DEF ChartInvariant, Chart!TypeOK

\* Whatever prices and bars arrive, in any order and of any number, Renko bricks
\* form one chain on a grid with room for no other, Kagi lines one alternating path
\* of reversals whose states follow from the swings before, and a Heikin-Ashi bar
\* encloses its source and opens inside the body before it (render of
\* RenkoRenderer, KagiRenderer and HeikinAshiRenderer), for any brick size and
\* reversal percentage.
THEOREM TransformsAlwaysHold == PartsSpec => []TransformsHold
<1>1. ChartInvariant => TransformsHold
  BY ChartIsTyped, RenkoShows, KagiShows, HeikinShows
  DEF ChartInvariant, TransformsHold, Chart!TransformsHold
<1>. QED BY <1>1, ChartInvariantHolds, PTL
=============================================================================

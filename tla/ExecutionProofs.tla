-------------------------- MODULE ExecutionProofs --------------------------
(***************************************************************************)
(* Proofs about the matching engine, brackets, simulated orders and        *)
(* trailing stops, for any orders, prices, quantities and timestamps, and  *)
(* any bounds on the length of a behaviour.  They rest on facts about sums *)
(* over finite sets, least numbers and initial segments, which come first. *)
(***************************************************************************)
EXTENDS MCExecution, FiniteSetsExt, FiniteSetTheorems, SequenceTheorems, TLAPS

-----------------------------------------------------------------------------
(***************************************************************************)
(* Least elements: induction over the natural numbers in the form that the *)
(* provers can instantiate.                                                *)
(***************************************************************************)
LEMMA Least ==
  ASSUME NEW T \in SUBSET Nat, T # {}
  PROVE  \E n \in T : \A m \in T : n =< m
<1>. DEFINE R == OpToRel(<, Nat)
<1>1. IsWellFoundedOn(R, Nat)
  BY NatLessThanWellFounded
<1>2. \A m, n \in Nat : <<m, n>> \in R <=> m < n
  BY DEF OpToRel
<1>. HIDE DEF R
<1>3. PICK n \in T : \A m \in T : <<m, n>> \notin R
  BY <1>1, WFMin
<1>4. ASSUME NEW m \in T PROVE n =< m
  <2>1. m \in Nat /\ n \in Nat
    OBVIOUS
  <2>2. ~(m < n)
    BY <1>2, <1>3, <2>1
  <2>. QED BY <2>1, <2>2
<1>. QED BY <1>4

\* The greatest and the least of a set that has one.
LEMMA Extreme ==
  ASSUME NEW S \in SUBSET Int, NEW m \in S
  PROVE  /\ (\A p \in S : m >= p) => Max(S) = m
         /\ (\A p \in S : m =< p) => Min(S) = m
<1>1. ASSUME \A p \in S : m >= p PROVE Max(S) = m
  <2>1. \E x \in S : \A y \in S : x >= y
    BY <1>1
  <2>2. Max(S) \in S /\ \A y \in S : Max(S) >= y
    BY <2>1 DEF Max
  <2>3. m \in Int /\ Max(S) \in Int
    BY <2>2
  <2>4. m >= Max(S) /\ Max(S) >= m
    BY <1>1, <2>2
  <2>. QED BY <2>3, <2>4
<1>2. ASSUME \A p \in S : m =< p PROVE Min(S) = m
  <2>1. \E x \in S : \A y \in S : x =< y
    BY <1>2
  <2>2. Min(S) \in S /\ \A y \in S : Min(S) =< y
    BY <2>1 DEF Min
  <2>3. m \in Int /\ Min(S) \in Int
    BY <2>2
  <2>4. m =< Min(S) /\ Min(S) =< m
    BY <1>2, <2>2
  <2>. QED BY <2>3, <2>4
<1>. QED BY <1>1, <1>2

\* A set of positions that holds whatever precedes one of its own is an initial
\* segment, as long as it has elements.
LEMMA InitialSegment ==
  ASSUME NEW n \in Nat, NEW D \in SUBSET (1 .. n),
         \A i \in D : \A j \in 1 .. i : j \in D
  PROVE  Cardinality(D) \in 0 .. n /\ D = 1 .. Cardinality(D)
<1>. DEFINE T == {i \in 1 .. n + 1 : i \notin D}
<1>1. n + 1 \in T /\ T \subseteq Nat
  OBVIOUS
<1>2. PICK t \in T : \A m \in T : t =< m
  BY <1>1, Least
<1>3. \A i \in 1 .. t - 1 : i \in D
  BY <1>2
<1>4. \A i \in D : i < t
  BY <1>2
<1>5. D = 1 .. t - 1 /\ t \in 1 .. n + 1
  <2>1. \A i \in D : i \in 1 .. t - 1
    BY <1>2, <1>4
  <2>. HIDE DEF T
  <2>2. \A i : i \in D <=> i \in 1 .. t - 1
    BY <1>3, <2>1
  <2>. QED BY <1>1, <1>2, <2>2 DEF T
<1>6. Cardinality(D) = t - 1
  BY <1>5, FS_Interval
<1>. QED BY <1>5, <1>6

-----------------------------------------------------------------------------
(***************************************************************************)
(* Sums.  The folds of the community modules are recursive functions over  *)
(* the subsets of a set; that the function exists, and that the order in   *)
(* which it takes the elements does not matter, is by induction over their *)
(* cardinality.                                                            *)
(***************************************************************************)
AnyOf(s) == CHOOSE x \in s : TRUE

\* f sums the values v over every subset of S, one element at a time.
SumOf(f, v, S) ==
  f = [s \in SUBSET S |-> IF s = {} THEN 0 ELSE v[AnyOf(s)] + f[s \ {AnyOf(s)}]]

Sum(v, S) == (CHOOSE f : SumOf(f, v, S))[S]

LEMMA AnyIsOne ==
  ASSUME NEW s, s # {}
  PROVE  AnyOf(s) \in s
BY DEF AnyOf

\* Without one of its elements a finite set has one element less.
LEMMA OneLess ==
  ASSUME NEW s, IsFiniteSet(s), NEW x \in s
  PROVE  /\ IsFiniteSet(s \ {x}) /\ Cardinality(s) \in Nat /\ Cardinality(s \ {x}) \in Nat
         /\ Cardinality(s \ {x}) = Cardinality(s) - 1
BY FS_RemoveElement, FS_CardinalityType

LEMMA SumExists ==
  ASSUME NEW S, IsFiniteSet(S), NEW v
  PROVE  \E f : SumOf(f, v, S)
<1>. DEFINE Upto(k) == {s \in SUBSET S : Cardinality(s) =< k}
            Sums(f, k) ==
              f = [s \in Upto(k) |-> IF s = {} THEN 0 ELSE v[AnyOf(s)] + f[s \ {AnyOf(s)}]]
            T == {k \in Nat : ~ \E f : Sums(f, k)}
<1>1. \A s \in SUBSET S : IsFiniteSet(s) /\ Cardinality(s) \in Nat /\ Cardinality(s) =< Cardinality(S)
  BY FS_Subset, FS_CardinalityType
<1>2. ASSUME NEW k \in Nat, \A j \in Nat : j < k => \E f : Sums(f, j)
      PROVE  \E f : Sums(f, k)
  <2>1. CASE k = 0
    <3>. DEFINE f == [s \in Upto(0) |-> 0]
    <3>1. \A s \in Upto(0) : s = {}
      BY <1>1, FS_EmptySet
    <3>2. Sums(f, 0)
      BY <3>1
    <3>. QED BY <2>1, <3>2
  <2>2. CASE k # 0
    <3>1. k - 1 \in Nat /\ k - 1 < k
      BY <2>2
    <3>2. PICK g : Sums(g, k - 1)
      BY <1>2, <3>1
    <3>. DEFINE f == [s \in Upto(k) |-> IF s = {} THEN 0 ELSE v[AnyOf(s)] + g[s \ {AnyOf(s)}]]
    <3>3. ASSUME NEW s \in Upto(k), s # {}
          PROVE  f[s \ {AnyOf(s)}] = g[s \ {AnyOf(s)}]
      <4>. DEFINE r == s \ {AnyOf(s)}
      <4>1. r \in Upto(k - 1)
        <5>1. AnyOf(s) \in s
          BY <3>3, AnyIsOne
        <5>2. Cardinality(r) = Cardinality(s) - 1 /\ Cardinality(s) \in Nat
          BY <1>1, <5>1, OneLess
        <5>. QED BY <5>2
      <4>2. r \in Upto(k)
        BY <1>1, <4>1
      <4>. HIDE DEF r
      <4>3. f[r] = IF r = {} THEN 0 ELSE v[AnyOf(r)] + g[r \ {AnyOf(r)}]
        BY <4>2
      <4>4. g[r] = IF r = {} THEN 0 ELSE v[AnyOf(r)] + g[r \ {AnyOf(r)}]
        BY <3>2, <4>1
      <4>. QED BY <4>3, <4>4 DEF r
    <3>4. Sums(f, k)
      BY <3>3
    <3>. QED BY <3>4
  <2>. QED BY <2>1, <2>2
<1>3. T = {}
  <2>. SUFFICES ASSUME T # {} PROVE FALSE
    OBVIOUS
  <2>. HIDE DEF Sums
  <2>1. PICK k \in T : \A j \in T : k =< j
    BY Least
  <2>2. \A j \in Nat : j < k => \E f : Sums(f, j)
    BY <2>1
  <2>. QED BY <1>2, <2>2
<1>4. Cardinality(S) \in Nat /\ Upto(Cardinality(S)) = SUBSET S
  BY <1>1
<1>5. PICK f : Sums(f, Cardinality(S))
  BY <1>3, <1>4
<1>. QED BY <1>4, <1>5 DEF SumOf

\* What a sum gives for a set depends on the values of its elements only.
LEMMA SumsAgree ==
  ASSUME NEW S, NEW T, NEW v, NEW w, NEW f, NEW g, SumOf(f, v, S), SumOf(g, w, T),
         NEW r, IsFiniteSet(r), r \subseteq S, r \subseteq T, \A x \in r : v[x] = w[x]
  PROVE  f[r] = g[r]
<1>. DEFINE D == {k \in Nat : \E s \in SUBSET r : Cardinality(s) = k /\ f[s] # g[s]}
<1>1. \A s \in SUBSET r : IsFiniteSet(s) /\ Cardinality(s) \in Nat
  BY FS_Subset, FS_CardinalityType
<1>2. \A s \in SUBSET r :
        /\ f[s] = IF s = {} THEN 0 ELSE v[AnyOf(s)] + f[s \ {AnyOf(s)}]
        /\ g[s] = IF s = {} THEN 0 ELSE w[AnyOf(s)] + g[s \ {AnyOf(s)}]
  BY DEF SumOf
<1>3. D = {}
  <2>. SUFFICES ASSUME D # {} PROVE FALSE
    OBVIOUS
  <2>1. PICK k \in D : \A j \in D : k =< j
    BY Least
  <2>2. PICK s \in SUBSET r : Cardinality(s) = k /\ f[s] # g[s]
    BY <2>1
  <2>3. s # {}
    BY <1>2, <2>2
  <2>. DEFINE a == AnyOf(s)
              p == s \ {AnyOf(s)}
  <2>4. a \in s /\ a \in r
    BY <2>3, AnyIsOne
  <2>5. p \in SUBSET r /\ Cardinality(p) \in Nat /\ Cardinality(p) < k
    BY <1>1, <2>2, <2>4, OneLess
  <2>6. f[p] = g[p]
    <3>. HIDE DEF p
    <3>. QED BY <2>1, <2>5
  <2>7. f[s] = v[a] + f[p] /\ g[s] = w[a] + g[p]
    BY <1>2, <2>3
  <2>. QED BY <2>2, <2>4, <2>6, <2>7
<1>4. Cardinality(r) \in Nat /\ r \in SUBSET r
  BY <1>1
<1>. QED BY <1>3, <1>4

LEMMA SumTaken ==
  ASSUME NEW S, IsFiniteSet(S), NEW v
  PROVE  \E f : SumOf(f, v, S) /\ Sum(v, S) = f[S]
<1>1. SumOf(CHOOSE f : SumOf(f, v, S), v, S)
  BY SumExists
<1>. QED BY <1>1 DEF Sum

LEMMA SumSame ==
  ASSUME NEW S, IsFiniteSet(S), NEW v, NEW w, \A x \in S : v[x] = w[x]
  PROVE  Sum(v, S) = Sum(w, S)
BY SumTaken, SumsAgree

LEMMA SumEmpty ==
  ASSUME NEW v
  PROVE  Sum(v, {}) = 0
<1>1. PICK f : SumOf(f, v, {}) /\ Sum(v, {}) = f[{}]
  BY FS_EmptySet, SumTaken
<1>. QED BY <1>1 DEF SumOf

\* Whichever element is taken first, the rest adds the rest.
Splits(f, v, S) ==
  \A s \in SUBSET S : f[s] \in Int /\ \A x \in s : f[s] = v[x] + f[s \ {x}]

\* The order in which the elements are taken does not matter.
LEMMA SumSplits ==
  ASSUME NEW S, IsFiniteSet(S), NEW v, \A x \in S : v[x] \in Int,
         NEW f, SumOf(f, v, S)
  PROVE  Splits(f, v, S)
<1>. DEFINE Good(s) == f[s] \in Int /\ \A x \in s : f[s] = v[x] + f[s \ {x}]
            D == {k \in Nat : \E s \in SUBSET S : Cardinality(s) = k /\ ~Good(s)}
<1>1. \A s \in SUBSET S : IsFiniteSet(s) /\ Cardinality(s) \in Nat
  BY FS_Subset, FS_CardinalityType
<1>2. \A s \in SUBSET S : f[s] = IF s = {} THEN 0 ELSE v[AnyOf(s)] + f[s \ {AnyOf(s)}]
  BY DEF SumOf
<1>3. ASSUME NEW s \in SUBSET S,
             \A r \in SUBSET S : Cardinality(r) < Cardinality(s) => Good(r)
      PROVE  Good(s)
  <2>1. CASE s = {}
    <3>1. f[s] = 0
      BY <1>2, <2>1
    <3>2. \A x \in s : FALSE
      BY <2>1
    <3>. QED BY <3>1, <3>2
  <2>2. CASE s # {}
    <3>. DEFINE a == AnyOf(s)
    <3>1. a \in s /\ a \in S /\ f[s] = v[a] + f[s \ {a}]
      BY <1>2, <2>2, AnyIsOne
    <3>. HIDE DEF a, Good
    <3>2. \A x \in s : s \ {x} \in SUBSET S /\ Good(s \ {x})
      BY <1>1, <1>3, OneLess
    <3>3. f[s] \in Int
      <4>1. f[s \ {a}] \in Int
        BY <3>1, <3>2 DEF Good
      <4>2. v[a] \in Int
        BY <3>1
      <4>. QED BY <3>1, <4>1, <4>2
    <3>4. ASSUME NEW x \in s PROVE f[s] = v[x] + f[s \ {x}]
      <4>1. CASE x = a
        BY <3>1, <4>1
      <4>2. CASE x # a
        <5>1. (s \ {a}) \ {x} = (s \ {x}) \ {a}
          OBVIOUS
        <5>. DEFINE rest == (s \ {a}) \ {x}
        <5>2. rest \in SUBSET S /\ Cardinality(rest) < Cardinality(s)
          <6>1. x \in s \ {a} /\ IsFiniteSet(s)
            BY <1>1, <4>2
          <6>2. /\ IsFiniteSet(s \ {a}) /\ Cardinality(s \ {a}) = Cardinality(s) - 1
                /\ Cardinality(s) \in Nat
            BY <3>1, <6>1, OneLess
          <6>3. Cardinality(rest) = Cardinality(s \ {a}) - 1
            BY <6>1, <6>2, OneLess
          <6>. QED BY <6>2, <6>3
        <5>3. f[rest] \in Int
          BY <1>3, <5>2 DEF Good
        <5>4. f[s \ {a}] = v[x] + f[rest]
          BY <3>1, <3>2, <4>2 DEF Good
        <5>5. f[s \ {x}] = v[a] + f[rest]
          BY <3>1, <3>2, <4>2, <5>1 DEF Good
        <5>6. v[a] \in Int /\ v[x] \in Int
          BY <3>1
        <5>. HIDE DEF rest
        <5>. QED BY <3>1, <5>3, <5>4, <5>5, <5>6
      <4>. QED BY <4>1, <4>2
    <3>. QED BY <3>3, <3>4 DEF Good
  <2>. QED BY <2>1, <2>2
<1>4. D = {}
  <2>. SUFFICES ASSUME D # {} PROVE FALSE
    OBVIOUS
  <2>. HIDE DEF Good
  <2>1. PICK k \in D : \A j \in D : k =< j
    BY Least
  <2>2. PICK s \in SUBSET S : Cardinality(s) = k /\ ~Good(s)
    BY <2>1
  <2>3. \A r \in SUBSET S : Cardinality(r) < Cardinality(s) => Good(r)
    BY <1>1, <2>1, <2>2
  <2>. QED BY <1>3, <2>2, <2>3
<1>. HIDE DEF Good
<1>5. \A s \in SUBSET S : Good(s)
  BY <1>1, <1>4
<1>. QED BY <1>5 DEF Good, Splits

LEMMA SumType ==
  ASSUME NEW S, IsFiniteSet(S), NEW v, \A x \in S : v[x] \in Int
  PROVE  Sum(v, S) \in Int
<1>1. PICK f : SumOf(f, v, S) /\ Sum(v, S) = f[S]
  BY SumTaken
<1>2. Splits(f, v, S)
  BY <1>1, SumSplits
<1>. QED BY <1>1, <1>2 DEF Splits

\* One more element adds its value.
LEMMA SumAdds ==
  ASSUME NEW S, IsFiniteSet(S), NEW x, x \notin S, NEW v, \A y \in S \cup {x} : v[y] \in Int
  PROVE  Sum(v, S \cup {x}) = Sum(v, S) + v[x]
<1>. DEFINE more == S \cup {x}
<1>1. IsFiniteSet(more)
  BY FS_AddElement
<1>2. PICK f : SumOf(f, v, more) /\ Sum(v, more) = f[more]
  BY <1>1, SumTaken
<1>3. PICK g : SumOf(g, v, S) /\ Sum(v, S) = g[S]
  BY SumTaken
<1>4. f[S] = g[S]
  BY <1>2, <1>3, SumsAgree
<1>5. f[more] = v[x] + f[S] /\ f[S] \in Int
  <2>1. more \ {x} = S
    OBVIOUS
  <2>2. more \in SUBSET more /\ S \in SUBSET more /\ x \in more
    OBVIOUS
  <2>3. \A y \in more : v[y] \in Int
    OBVIOUS
  <2>. HIDE DEF more
  <2>4. Splits(f, v, more)
    BY <1>1, <1>2, <2>3, SumSplits
  <2>5. f[more] = v[x] + f[more \ {x}] /\ f[S] \in Int
    BY <2>2, <2>4 DEF Splits
  <2>. QED BY <2>1, <2>5
<1>6. v[x] \in Int
  OBVIOUS
<1>. QED BY <1>2, <1>3, <1>4, <1>5, <1>6

\* One element less takes its value away.
LEMMA SumLoses ==
  ASSUME NEW S, IsFiniteSet(S), NEW x \in S, NEW v, \A y \in S : v[y] \in Int
  PROVE  Sum(v, S \ {x}) = Sum(v, S) - v[x]
<1>. DEFINE less == S \ {x}
<1>1. IsFiniteSet(less) /\ x \notin less /\ S = less \cup {x}
  BY FS_RemoveElement
<1>2. Sum(v, less) \in Int
  BY <1>1, SumType
<1>. HIDE DEF less
<1>3. Sum(v, S) = Sum(v, less) + v[x]
  BY <1>1, SumAdds
<1>. QED BY <1>2, <1>3 DEF less

\* Positive values add up to a positive sum.
LEMMA SumPositive ==
  ASSUME NEW S, IsFiniteSet(S), NEW v, \A x \in S : v[x] \in Nat \ {0}
  PROVE  Sum(v, S) \in Nat /\ (Sum(v, S) = 0 <=> S = {})
<1>. DEFINE D == {k \in Nat : \E s \in SUBSET S : /\ Cardinality(s) = k
                                                 /\ ~(Sum(v, s) \in Nat /\ (Sum(v, s) = 0 <=> s = {}))}
<1>1. \A s \in SUBSET S : IsFiniteSet(s) /\ Cardinality(s) \in Nat
  BY FS_Subset, FS_CardinalityType
<1>2. D = {}
  <2>. SUFFICES ASSUME D # {} PROVE FALSE
    OBVIOUS
  <2>1. PICK k \in D : \A j \in D : k =< j
    BY Least
  <2>2. PICK s \in SUBSET S : /\ Cardinality(s) = k
                              /\ ~(Sum(v, s) \in Nat /\ (Sum(v, s) = 0 <=> s = {}))
    BY <2>1
  <2>3. s # {}
    BY <2>2, SumEmpty
  <2>4. PICK x : x \in s
    BY <2>3
  <2>. DEFINE r == s \ {x}
  <2>5. r \in SUBSET S /\ Cardinality(r) \in Nat /\ Cardinality(r) < k
    BY <1>1, <2>2, <2>4, OneLess
  <2>6. Sum(v, r) = Sum(v, s) - v[x] /\ Sum(v, s) \in Int
    <3>1. IsFiniteSet(s) /\ \A y \in s : v[y] \in Int
      BY <1>1
    <3>. QED BY <2>4, <3>1, SumLoses, SumType
  <2>. HIDE DEF r
  <2>7. Sum(v, r) \in Nat
    BY <2>1, <2>5
  <2>8. v[x] \in Nat \ {0}
    BY <2>4
  <2>. QED BY <2>2, <2>3, <2>6, <2>7, <2>8
<1>3. Cardinality(S) \in Nat /\ S \in SUBSET S
  BY <1>1
<1>. QED BY <1>2, <1>3

-----------------------------------------------------------------------------
(***************************************************************************)
(* The matching engine.  Between and during calls each side of the book is *)
(* sorted by the order of the sort keys, which is total because no two     *)
(* orders have the same place in the arrival sequence; and of the two      *)
(* orders of a trade one has nothing left, so that no pair trades twice.   *)
(***************************************************************************)
Accepted == {o \in OrderIds : order[o] # NoOrder}

TradeRecords == [maker : OrderIds, taker : OrderIds, price : Nat, qty : Nat]

QtyOf == [tr \in TradeRecords |-> tr.qty]

\* Every accepted order has its own place in the sequence.
OwnPlaces ==
  /\ \A o \in Accepted : order[o].seq =< sequence
  /\ \A o, p \in Accepted : order[o].seq = order[p].seq => o = p
  /\ taker # NoOrder => taker \in Accepted

\* The orders on a side are accepted, of that side, have quantity left and none
\* is the one that is being submitted.
SidesHold ==
  \A s \in Matching!Sides : \A i \in DOMAIN book[s] :
    /\ book[s][i] \in Accepted /\ book[s][i] # taker
    /\ order[book[s][i]].side = s /\ order[book[s][i]].rem > 0

SidesSorted ==
  \A s \in Matching!Sides : \A i, j \in DOMAIN book[s] :
    i < j => Matching!Before(order[book[s][i]], order[book[s][j]])

\* Even during a call the book is not crossed: what is submitted is not on it.
NotCrossed ==
  \A i \in DOMAIN book["BUY"], j \in DOMAIN book["SELL"] :
    LET b == order[book["BUY"][i]]
        a == order[book["SELL"][j]]
    IN  b.price > 0 /\ a.price > 0 => b.price < a.price

\* The parties of a trade are two accepted orders, one of them used up.
TradesExhaust ==
  /\ IsFiniteSet(trades)
  /\ \A tr \in trades :
       /\ tr.maker \in Accepted /\ tr.taker \in Accepted /\ tr.maker # tr.taker /\ tr.qty > 0
       /\ order[tr.maker].rem = 0 \/ order[tr.taker].rem = 0

\* What an order lost is what its trades add up to, and its status says how
\* much is left.
Accounted(o) ==
  /\ order[o].rem + Sum(QtyOf, Matching!TradesOf(o)) = order[o].qty
  /\ order[o].status = IF order[o].rem = order[o].qty THEN "PENDING"
                       ELSE IF order[o].rem = 0 THEN "FILLED" ELSE "PARTIALLY_FILLED"

BookInvariant ==
  /\ Matching!TypeOK
  /\ OwnPlaces /\ SidesHold /\ SidesSorted /\ NotCrossed /\ TradesExhaust
  /\ \A o \in Accepted : Accounted(o)

\* The sums of the model are the sums of the lemmas.
LEMMA DoneIsSum ==
  ASSUME NEW S \in SUBSET TradeRecords, IsFiniteSet(S)
  PROVE  Matching!MapThenSumSet(LAMBDA tr : tr.qty, S) = Sum(QtyOf, S)
<1>. DEFINE v == [tr \in S |-> tr.qty]
<1>1. Matching!MapThenSumSet(LAMBDA tr : tr.qty, S) = Sum(v, S)
  BY ZenonT(60) DEF Matching!MapThenSumSet, Matching!MapThenFoldSet, Sum, SumOf, AnyOf
<1>2. \A tr \in S : v[tr] = QtyOf[tr]
  BY DEF QtyOf
<1>. HIDE DEF v
<1>3. Sum(v, S) = Sum(QtyOf, S)
  BY <1>2, SumSame
<1>. QED BY <1>1, <1>3

\* The order of the sort keys.
LEMMA BeforeIsOrder ==
  ASSUME NEW a \in Matching!OrderRecords, NEW b \in Matching!OrderRecords,
         NEW c \in Matching!OrderRecords, a.side = b.side, b.side = c.side
  PROVE  /\ ~Matching!Before(a, a)
         /\ Matching!Before(a, b) /\ Matching!Before(b, c) => Matching!Before(a, c)
         /\ a.seq # b.seq => Matching!Before(a, b) \/ Matching!Before(b, a)
<1>1. \A r \in {a, b, c} : r.price \in Nat /\ r.stamp \in Nat /\ r.seq \in Nat
  BY ExecutionAssumption DEF Matching!EngineAssumption, Matching!OrderRecords
<1>. QED BY <1>1 DEF Matching!Before

\* What is left of an order after a fill.
LEMMA FillLeaves ==
  ASSUME NEW r \in Matching!OrderRecords, NEW q \in 1 .. r.rem
  PROVE  LET f == Matching!Fill(r, q) IN
           /\ f \in Matching!OrderRecords
           /\ f.side = r.side /\ f.price = r.price /\ f.qty = r.qty
           /\ f.stamp = r.stamp /\ f.seq = r.seq /\ f.rem = r.rem - q
           /\ f.status = IF r.rem = q THEN "FILLED" ELSE "PARTIALLY_FILLED"
<1>. DEFINE st == IF r.rem = q THEN "FILLED" ELSE "PARTIALLY_FILLED"
            f == [side |-> r.side, price |-> r.price, qty |-> r.qty, rem |-> r.rem - q,
                  stamp |-> r.stamp, seq |-> r.seq, status |-> st]
<1>1. Matching!Fill(r, q) = f
  <2>. DEFINE g == [r EXCEPT !.rem = r.rem - q]
              h == [side |-> r.side, price |-> r.price, qty |-> r.qty, rem |-> r.rem - q,
                    stamp |-> r.stamp, seq |-> r.seq, status |-> r.status]
  <2>1. g = h
    BY DEF Matching!OrderRecords
  <2>2. Matching!Fill(r, q) = [g EXCEPT !.status = st]
    BY DEF Matching!Fill
  <2>. HIDE DEF g
  <2>3. [h EXCEPT !.status = st] = f
    OBVIOUS
  <2>. QED BY <2>1, <2>2, <2>3
<1>2. r.rem - q \in Nat
  BY DEF Matching!OrderRecords
<1>3. f \in Matching!OrderRecords
  BY <1>2 DEF Matching!OrderRecords
<1>. QED BY <1>1, <1>3

LEMMA BookStarts == Matching!Init => BookInvariant
<1>. SUFFICES ASSUME Matching!Init PROVE BookInvariant
  OBVIOUS
<1>. USE DEF Matching!Init
<1>1. Accepted = {} /\ IsFiniteSet(trades)
  BY FS_EmptySet DEF Accepted
<1>2. Matching!TypeOK
  BY DEF Matching!TypeOK
<1>. QED BY <1>1, <1>2
   DEF BookInvariant, OwnPlaces, SidesHold, SidesSorted, NotCrossed, TradesExhaust, Matching!Sides

\* What a step that is no submission keeps of the accepted orders, and of the
\* order in which the sides were sorted.
Kept(o) ==
  /\ order'[o] \in Matching!OrderRecords
  /\ order'[o].side = order[o].side /\ order'[o].price = order[o].price
  /\ order'[o].qty = order[o].qty /\ order'[o].stamp = order[o].stamp
  /\ order'[o].seq = order[o].seq

\* A side after a step is the side before it, or that without its first d.
Shifted(s, d) ==
  /\ DOMAIN book'[s] = 1 .. Len(book[s]) - d
  /\ \A i \in 1 .. Len(book[s]) - d : book'[s][i] = book[s][i + d]

LEMMA AcceptedRecord ==
  ASSUME Matching!TypeOK, NEW o \in Accepted
  PROVE  /\ o \in OrderIds /\ order[o] \in Matching!OrderRecords
         /\ order[o].side \in Matching!Sides /\ order[o].price \in Nat /\ order[o].qty \in Nat \ {0}
         /\ order[o].rem \in Nat /\ order[o].stamp \in Nat /\ order[o].seq \in Nat
BY ExecutionAssumption
   DEF Accepted, Matching!TypeOK, Matching!EngineAssumption, Matching!OrderRecords

LEMMA SideIndices ==
  ASSUME Matching!TypeOK, NEW s \in Matching!Sides
  PROVE  /\ book[s] \in Seq(OrderIds) /\ Len(book[s]) \in Nat
         /\ DOMAIN book[s] = 1 .. Len(book[s])
         /\ \A i \in 1 .. Len(book[s]) : book[s][i] \in OrderIds
BY DEF Matching!TypeOK

LEMMA OrderKept ==
  ASSUME NEW a \in Accepted, NEW b \in Accepted, Kept(a), Kept(b)
  PROVE  Matching!Before(order'[a], order'[b]) <=> Matching!Before(order[a], order[b])
BY DEF Kept, Matching!Before

\* A shift leaves the sides sorted and the book uncrossed.
LEMMA ShiftKeeps ==
  ASSUME BookInvariant, \A o \in Accepted : Kept(o),
         \A s \in Matching!Sides : \E d \in {0, 1} : Shifted(s, d)
  PROVE  SidesSorted' /\ NotCrossed'
<1>. USE DEF BookInvariant
<1>1. ASSUME NEW s \in Matching!Sides, NEW i \in DOMAIN book'[s], NEW j \in DOMAIN book'[s], i < j
      PROVE  Matching!Before(order'[book'[s][i]], order'[book'[s][j]])
  <2>1. PICK d \in {0, 1} : Shifted(s, d)
    OBVIOUS
  <2>2. /\ i + d \in DOMAIN book[s] /\ j + d \in DOMAIN book[s] /\ i + d < j + d
        /\ book'[s][i] = book[s][i + d] /\ book'[s][j] = book[s][j + d]
    <3>1. Len(book[s]) \in Nat /\ DOMAIN book[s] = 1 .. Len(book[s])
      BY SideIndices
    <3>2. i \in 1 .. Len(book[s]) - d /\ j \in 1 .. Len(book[s]) - d
      BY <2>1 DEF Shifted
    <3>. HIDE DEF BookInvariant
    <3>3. book'[s][i] = book[s][i + d] /\ book'[s][j] = book[s][j + d]
      BY <2>1, <3>2 DEF Shifted
    <3>4. i + d \in 1 .. Len(book[s]) /\ j + d \in 1 .. Len(book[s]) /\ i + d < j + d
      BY <1>1, <3>1, <3>2
    <3>. QED BY <3>1, <3>3, <3>4
  <2>3. Matching!Before(order[book[s][i + d]], order[book[s][j + d]])
    BY <2>2 DEF SidesSorted
  <2>4. book[s][i + d] \in Accepted /\ book[s][j + d] \in Accepted
    BY <2>2 DEF SidesHold
  <2>. HIDE DEF BookInvariant
  <2>. QED BY <2>2, <2>3, <2>4, OrderKept
<1>2. SidesSorted'
  BY <1>1 DEF SidesSorted, Matching!Sides
<1>3. ASSUME NEW i \in DOMAIN book'["BUY"], NEW j \in DOMAIN book'["SELL"],
             order'[book'["BUY"][i]].price > 0, order'[book'["SELL"][j]].price > 0
      PROVE  order'[book'["BUY"][i]].price < order'[book'["SELL"][j]].price
  <2>0. "BUY" \in Matching!Sides /\ "SELL" \in Matching!Sides
    BY DEF Matching!Sides
  <2>1. PICK d \in {0, 1} : Shifted("BUY", d)
    BY <2>0
  <2>2. PICK e \in {0, 1} : Shifted("SELL", e)
    BY <2>0
  <2>3. i + d \in DOMAIN book["BUY"] /\ book'["BUY"][i] = book["BUY"][i + d]
    BY <2>0, <2>1, SideIndices DEF Shifted
  <2>4. j + e \in DOMAIN book["SELL"] /\ book'["SELL"][j] = book["SELL"][j + e]
    BY <2>0, <2>2, SideIndices DEF Shifted
  <2>5. Kept(book["BUY"][i + d]) /\ Kept(book["SELL"][j + e])
    BY <2>0, <2>3, <2>4 DEF SidesHold
  <2>6. LET b == order[book["BUY"][i + d]]
            a == order[book["SELL"][j + e]]
        IN  b.price > 0 /\ a.price > 0 => b.price < a.price
    BY <2>3, <2>4 DEF NotCrossed
  <2>. QED BY <1>3, <2>3, <2>4, <2>5, <2>6 DEF Kept
<1>4. NotCrossed'
  BY <1>3 DEF NotCrossed
<1>. QED BY <1>2, <1>4

-----------------------------------------------------------------------------
\* An iteration of the loop: whom it pairs, and what it moves.
OppSide == Matching!Other(order[taker].side)
MatchQty == Matching!Smaller(order[taker].rem, order[Matching!Best].rem)

LEMMA Loop ==
  ASSUME BookInvariant, Matching!CanMatch
  PROVE  /\ taker \in Accepted /\ Matching!Best \in Accepted /\ Matching!Best # taker
         /\ OppSide \in Matching!Sides /\ order[taker].side # OppSide
         /\ 1 \in DOMAIN book[OppSide] /\ Matching!Best = book[OppSide][1]
         /\ order[Matching!Best].side = OppSide
         /\ order[taker].rem > 0 /\ order[Matching!Best].rem > 0
<1>. USE DEF BookInvariant
<1>1. taker \in Accepted /\ order[taker].rem > 0 /\ book[OppSide] # <<>>
  BY DEF Matching!CanMatch, Matching!Opposite, OppSide, OwnPlaces
<1>2. OppSide \in Matching!Sides /\ order[taker].side # OppSide
  BY <1>1, AcceptedRecord DEF OppSide, Matching!Other, Matching!Sides
<1>3. 1 \in DOMAIN book[OppSide] /\ Matching!Best = book[OppSide][1]
  <2>1. book[OppSide] \in Seq(OrderIds)
    BY <1>2, SideIndices
  <2>. HIDE DEF BookInvariant
  <2>. QED BY <1>1, <2>1 DEF Matching!Best, Matching!Opposite, OppSide
<1>4. /\ Matching!Best \in Accepted /\ Matching!Best # taker
      /\ order[Matching!Best].side = OppSide /\ order[Matching!Best].rem > 0
  BY <1>2, <1>3 DEF SidesHold
<1>. QED BY <1>1, <1>2, <1>3, <1>4

LEMMA MatchEffect ==
  ASSUME BookInvariant, Matching!Match
  PROVE  /\ MatchQty \in 1 .. order[taker].rem /\ MatchQty \in 1 .. order[Matching!Best].rem
         /\ MatchQty = order[taker].rem \/ MatchQty = order[Matching!Best].rem
         /\ order'[Matching!Best] = Matching!Fill(order[Matching!Best], MatchQty)
         /\ order'[taker] = Matching!Fill(order[taker], MatchQty)
         /\ \A o \in OrderIds \ {taker, Matching!Best} : order'[o] = order[o]
         /\ DOMAIN order' = OrderIds
         /\ trades' = trades \cup {Matching!TradeOf(Matching!Best, taker, MatchQty)}
         /\ sequence' = sequence /\ taker' = taker
         /\ book' = IF MatchQty = order[Matching!Best].rem
                    THEN [book EXCEPT ![OppSide] = Tail(book[OppSide])] ELSE book
<1>1. Matching!CanMatch /\ Matching!TypeOK
  BY DEF Matching!Match, BookInvariant
<1>2. /\ taker \in Accepted /\ Matching!Best \in Accepted /\ Matching!Best # taker
      /\ order[taker].rem > 0 /\ order[Matching!Best].rem > 0
  BY <1>1, Loop
<1>3. order[taker].rem \in Nat /\ order[Matching!Best].rem \in Nat
  BY <1>1, <1>2, AcceptedRecord
<1>4. /\ MatchQty \in 1 .. order[taker].rem /\ MatchQty \in 1 .. order[Matching!Best].rem
      /\ MatchQty = order[taker].rem \/ MatchQty = order[Matching!Best].rem
  BY <1>2, <1>3 DEF MatchQty, Matching!Smaller
<1>5. /\ order' = [order EXCEPT ![Matching!Best] = Matching!Fill(order[Matching!Best], MatchQty),
                               ![taker] = Matching!Fill(order[taker], MatchQty)]
      /\ trades' = trades \cup {Matching!TradeOf(Matching!Best, taker, MatchQty)}
      /\ sequence' = sequence /\ taker' = taker
      /\ book' = IF MatchQty = order[Matching!Best].rem
                 THEN [book EXCEPT ![OppSide] = Tail(book[OppSide])] ELSE book
  BY <1>2 DEF Matching!Match, MatchQty, OppSide, Matching!MakerFilled
<1>6. order \in [OrderIds -> Matching!OrderRecords \cup {NoOrder}]
  BY <1>1 DEF Matching!TypeOK
<1>7. taker \in OrderIds /\ Matching!Best \in OrderIds
  BY <1>2 DEF Accepted
<1>. QED BY <1>2, <1>4, <1>5, <1>6, <1>7

LEMMA MatchKeeps ==
  ASSUME BookInvariant, Matching!Match
  PROVE  /\ Accepted' = Accepted
         /\ \A o \in Accepted : Kept(o)
         /\ \A s \in Matching!Sides : \E d \in {0, 1} : Shifted(s, d)
         /\ book' \in [Matching!Sides -> Seq(OrderIds)]
<1>. DEFINE m == Matching!Best
<1>1. Matching!CanMatch /\ Matching!TypeOK
  BY DEF Matching!Match, BookInvariant
<1>2. taker \in Accepted /\ m \in Accepted /\ m # taker /\ OppSide \in Matching!Sides
      /\ 1 \in DOMAIN book[OppSide]
  BY <1>1, Loop
<1>3. /\ MatchQty \in 1 .. order[taker].rem /\ MatchQty \in 1 .. order[m].rem
      /\ order'[m] = Matching!Fill(order[m], MatchQty)
      /\ order'[taker] = Matching!Fill(order[taker], MatchQty)
      /\ \A o \in OrderIds \ {taker, m} : order'[o] = order[o]
      /\ book' = IF MatchQty = order[m].rem
                 THEN [book EXCEPT ![OppSide] = Tail(book[OppSide])] ELSE book
  BY MatchEffect
<1>. HIDE DEF m
<1>4. \A o \in Accepted : order[o] \in Matching!OrderRecords /\ o \in OrderIds
  BY <1>1, AcceptedRecord
<1>5. ASSUME NEW o \in {taker, m}
      PROVE  Kept(o)
  <2>1. MatchQty \in 1 .. order[o].rem /\ order[o] \in Matching!OrderRecords
        /\ order'[o] = Matching!Fill(order[o], MatchQty)
    BY <1>2, <1>3, <1>4
  <2>. QED BY <2>1, FillLeaves DEF Kept
<1>6. \A o \in Accepted : Kept(o)
  BY <1>3, <1>4, <1>5 DEF Kept
<1>7. Accepted' = Accepted
  BY <1>2, <1>3, <1>4, <1>6, ExecutionAssumption DEF Kept, Accepted, Matching!EngineAssumption
<1>8. book[OppSide] \in Seq(OrderIds) /\ book \in [Matching!Sides -> Seq(OrderIds)]
  BY <1>1, <1>2 DEF Matching!TypeOK
<1>9. /\ Tail(book[OppSide]) \in Seq(OrderIds)
      /\ Len(Tail(book[OppSide])) = Len(book[OppSide]) - 1
      /\ \A i \in 1 .. Len(book[OppSide]) - 1 : Tail(book[OppSide])[i] = book[OppSide][i + 1]
  BY <1>2, <1>8
<1>10. book' \in [Matching!Sides -> Seq(OrderIds)]
  BY <1>3, <1>8, <1>9
<1>11. ASSUME NEW s \in Matching!Sides
       PROVE  \E d \in {0, 1} : Shifted(s, d)
  <2>1. book[s] \in Seq(OrderIds) /\ Len(book[s]) \in Nat /\ DOMAIN book[s] = 1 .. Len(book[s])
    BY <1>1, SideIndices
  <2>2. CASE s = OppSide /\ MatchQty = order[m].rem
    <3>1. book'[s] = Tail(book[s])
      BY <1>3, <1>8, <2>2
    <3>2. DOMAIN Tail(book[s]) = 1 .. Len(book[s]) - 1
      <4>1. Tail(book[s]) \in Seq(OrderIds) /\ Len(Tail(book[s])) = Len(book[s]) - 1
        BY <1>9, <2>2
      <4>2. \A q \in Seq(OrderIds) : DOMAIN q = 1 .. Len(q)
        OBVIOUS
      <4>. QED BY <4>1, <4>2
    <3>3. Shifted(s, 1)
      BY <1>9, <2>2, <3>1, <3>2 DEF Shifted
    <3>. QED BY <3>3
  <2>3. CASE ~(s = OppSide /\ MatchQty = order[m].rem)
    <3>1. book'[s] = book[s]
      BY <1>3, <1>8, <2>3
    <3>2. Shifted(s, 0)
      BY <2>1, <3>1 DEF Shifted
    <3>. QED BY <3>2
  <2>. QED BY <2>2, <2>3
<1>. QED BY <1>6, <1>7, <1>10, <1>11

\* Sums over the trades of an order, before and after a trade.
LEMMA TradesOfNext ==
  ASSUME NEW tr, tr \notin trades, trades' = trades \cup {tr}, NEW o
  PROVE  Matching!TradesOf(o)' = IF o \in {tr.maker, tr.taker}
                                 THEN Matching!TradesOf(o) \cup {tr} ELSE Matching!TradesOf(o)
BY DEF Matching!TradesOf

LEMMA MatchStep ==
  ASSUME BookInvariant, Matching!Match
  PROVE  BookInvariant'
<1>. DEFINE m == Matching!Best
            tr == Matching!TradeOf(m, taker, MatchQty)
<1>1. Matching!CanMatch /\ Matching!TypeOK
  BY DEF Matching!Match, BookInvariant
<1>2. /\ taker \in Accepted /\ m \in Accepted /\ m # taker /\ OppSide \in Matching!Sides
      /\ 1 \in DOMAIN book[OppSide] /\ m = book[OppSide][1]
      /\ order[taker].rem > 0 /\ order[m].rem > 0
  BY <1>1, Loop
<1>3. /\ MatchQty \in 1 .. order[taker].rem /\ MatchQty \in 1 .. order[m].rem
      /\ MatchQty = order[taker].rem \/ MatchQty = order[m].rem
      /\ order'[m] = Matching!Fill(order[m], MatchQty)
      /\ order'[taker] = Matching!Fill(order[taker], MatchQty)
      /\ \A o \in OrderIds \ {taker, m} : order'[o] = order[o]
      /\ DOMAIN order' = OrderIds
      /\ trades' = trades \cup {tr}
      /\ sequence' = sequence /\ taker' = taker
      /\ book' = IF MatchQty = order[m].rem
                 THEN [book EXCEPT ![OppSide] = Tail(book[OppSide])] ELSE book
  BY MatchEffect
<1>4. /\ Accepted' = Accepted /\ \A o \in Accepted : Kept(o)
      /\ \A s \in Matching!Sides : \E d \in {0, 1} : Shifted(s, d)
      /\ book' \in [Matching!Sides -> Seq(OrderIds)]
  BY MatchKeeps
<1>5. tr = [maker |-> m, taker |-> taker, price |-> order[m].price, qty |-> MatchQty]
  BY DEF Matching!TradeOf
<1>. HIDE DEF m, tr
<1>6. \A o \in Accepted : /\ o \in OrderIds /\ order[o] \in Matching!OrderRecords
                          /\ order[o].rem \in Nat /\ order[o].price \in Nat
                          /\ order[o].qty \in Nat
  BY <1>1, AcceptedRecord
<1>7. \A o \in {taker, m} :
        /\ order'[o].rem = order[o].rem - MatchQty
        /\ order'[o].status = IF order[o].rem = MatchQty THEN "FILLED" ELSE "PARTIALLY_FILLED"
  BY <1>2, <1>3, <1>6, FillLeaves
<1>8. tr \in TradeRecords /\ tr.maker = m /\ tr.taker = taker /\ tr.qty = MatchQty
  BY <1>2, <1>3, <1>5, <1>6 DEF TradeRecords
<1>9. Matching!TypeOK'
  <2>1. order' \in [OrderIds -> Matching!OrderRecords \cup {NoOrder}]
    <3>1. ASSUME NEW o \in OrderIds PROVE order'[o] \in Matching!OrderRecords \cup {NoOrder}
      <4>1. CASE o \in Accepted BY <1>4, <4>1 DEF Kept
      <4>2. CASE o \notin Accepted BY <1>2, <1>3, <4>2 DEF Accepted
      <4>. QED BY <4>1, <4>2
    <3>2. order' = [o \in OrderIds |-> order'[o]]
      <4>1. order' = [order EXCEPT ![m] = order'[m], ![taker] = order'[taker]]
        BY DEF Matching!Match, m
      <4>. QED BY <1>1, <4>1 DEF Matching!TypeOK
    <3>. QED BY <3>1, <3>2
  <2>2. trades' \subseteq TradeRecords
    BY <1>1, <1>3, <1>8 DEF Matching!TypeOK, TradeRecords
  <2>. QED BY <1>1, <1>3, <1>4, <2>1, <2>2 DEF Matching!TypeOK, TradeRecords
<1>10. OwnPlaces'
  BY <1>3, <1>4 DEF BookInvariant, OwnPlaces, Kept
<1>11. SidesSorted' /\ NotCrossed'
  BY <1>4, ShiftKeeps
<1>12. SidesHold'
  <2>1. ASSUME NEW s \in Matching!Sides, NEW i \in DOMAIN book'[s]
        PROVE  /\ book'[s][i] \in Accepted /\ book'[s][i] # taker
               /\ order'[book'[s][i]].side = s /\ order'[book'[s][i]].rem > 0
    <3>. DEFINE o == book'[s][i]
    <3>1. PICK d \in {0, 1} : Shifted(s, d)
      BY <1>4
    <3>2. i + d \in DOMAIN book[s] /\ o = book[s][i + d]
      <4>1. Len(book[s]) \in Nat /\ DOMAIN book[s] = 1 .. Len(book[s])
        BY <1>1, SideIndices
      <4>. QED BY <3>1, <4>1 DEF Shifted
    <3>. HIDE DEF o
    <3>3. o \in Accepted /\ o # taker /\ order[o].side = s /\ order[o].rem > 0
      BY <3>2 DEF BookInvariant, SidesHold
    <3>4. order'[o].rem > 0
      <4>1. CASE o # m
        BY <1>3, <1>6, <3>3, <4>1
      <4>2. CASE o = m
        <5>1. MatchQty # order[m].rem
          <6>. SUFFICES ASSUME MatchQty = order[m].rem PROVE FALSE
            OBVIOUS
          <6>1. s = OppSide
            BY <1>1, <3>3, <4>2, Loop DEF m
          <6>2. book'[s] = Tail(book[s]) /\ book[s] \in Seq(OrderIds) /\ book[s] # <<>>
            BY <1>1, <1>2, <1>3, <6>1 DEF Matching!TypeOK
          <6>3. i + 1 \in DOMAIN book[s] /\ o = book[s][i + 1] /\ 1 < i + 1
            BY <6>2 DEF o
          <6>4. Matching!Before(order[m], order[m])
            BY <1>2, <4>2, <6>1, <6>3 DEF BookInvariant, SidesSorted
          <6>. QED BY <1>2, <1>6, <6>4, BeforeIsOrder
        <5>. QED BY <1>2, <1>3, <1>6, <1>7, <4>2, <5>1
      <4>. QED BY <4>1, <4>2
    <3>. QED BY <1>4, <3>3, <3>4 DEF Kept, o
  <2>2. Accepted' = Accepted /\ taker' = taker
    BY <1>3, <1>4
  <2>. QED BY <2>1, <2>2 DEF SidesHold
<1>13. tr \notin trades
  BY <1>2, <1>8 DEF BookInvariant, TradesExhaust
<1>14. TradesExhaust'
  <2>1. IsFiniteSet(trades')
    BY <1>3, FS_AddElement DEF BookInvariant, TradesExhaust
  <2>2. \A o \in Accepted : order[o].rem = 0 => order'[o].rem = 0
    BY <1>2, <1>3, <1>6
  <2>3. order'[m].rem = 0 \/ order'[taker].rem = 0
    BY <1>2, <1>3, <1>6, <1>7
  <2>4. tr.qty > 0
    BY <1>3, <1>8
  <2>. QED BY <1>2, <1>3, <1>4, <1>8, <2>1, <2>2, <2>3, <2>4 DEF BookInvariant, TradesExhaust
<1>15. ASSUME NEW o \in Accepted PROVE Accounted(o)'
  <2>. DEFINE done == Matching!TradesOf(o)
  <2>1. IsFiniteSet(done) /\ done \subseteq TradeRecords
    BY <1>1, FS_Subset DEF BookInvariant, TradesExhaust, Matching!TradesOf, Matching!TypeOK, TradeRecords
  <2>2. \A x \in TradeRecords : QtyOf[x] \in Int /\ QtyOf[x] = x.qty
    BY DEF QtyOf, TradeRecords
  <2>3. Sum(QtyOf, done) \in Int
    BY <2>1, <2>2, SumType
  <2>4. Accounted(o) /\ order'[o].qty = order[o].qty /\ order[o].rem \in Nat
    BY <1>4, <1>6 DEF BookInvariant, Kept
  <2>5. CASE o \in {taker, m}
    <3>1. done' = done \cup {tr}
      BY <1>3, <1>8, <1>13, <2>5, TradesOfNext
    <3>2. tr \notin done
      BY <1>13 DEF Matching!TradesOf
    <3>. HIDE DEF done
    <3>3. \A x \in done \cup {tr} : QtyOf[x] \in Int
      BY <1>8, <2>1, <2>2
    <3>4. Sum(QtyOf, done \cup {tr}) = Sum(QtyOf, done) + QtyOf[tr]
      BY <2>1, <3>2, <3>3, SumAdds
    <3>5. QtyOf[tr] = MatchQty
      BY <1>8, <2>2
    <3>6. order[o].rem + Sum(QtyOf, done) = order[o].qty
      BY <2>4 DEF Accounted, done
    <3>7. /\ order'[o].rem = order[o].rem - MatchQty /\ MatchQty \in 1 .. order[o].rem
          /\ order'[o].status = IF order[o].rem = MatchQty THEN "FILLED" ELSE "PARTIALLY_FILLED"
      BY <1>3, <1>7, <2>5
    <3>8. order'[o].rem + Sum(QtyOf, done') = order'[o].qty
      BY <2>3, <2>4, <3>1, <3>4, <3>5, <3>6, <3>7
    <3>9. order[o].qty \in Nat /\ order[o].rem =< order[o].qty
      <4>1. Sum(QtyOf, done) \in Nat
        <5>1. \A x \in done : QtyOf[x] \in Nat \ {0}
          BY <2>1, <2>2 DEF BookInvariant, TradesExhaust, TradeRecords, done, Matching!TradesOf
        <5>. QED BY <2>1, <5>1, SumPositive
      <4>. QED BY <1>6, <3>6, <4>1
    <3>10. order'[o].rem # order'[o].qty /\ (order'[o].rem = 0 <=> order[o].rem = MatchQty)
      BY <2>4, <3>7, <3>9
    <3>. QED BY <3>7, <3>8, <3>10 DEF Accounted, done
  <2>6. CASE o \notin {taker, m}
    <3>1. done' = done
      BY <1>3, <1>8, <1>13, <2>6, TradesOfNext
    <3>. QED BY <1>3, <1>6, <2>4, <2>6, <3>1 DEF Accounted
  <2>. QED BY <2>5, <2>6
<1>. QED BY <1>4, <1>9, <1>10, <1>11, <1>12, <1>14, <1>15 DEF BookInvariant

\* An accepted order gets the next place; nothing else is touched.
LEMMA SubmitStep ==
  ASSUME BookInvariant, NEW o \in OrderIds, NEW side \in Matching!Sides, NEW price \in Prices,
         NEW qty \in Quantities, NEW stamp \in Stamps, Matching!Submit(o, side, price, qty, stamp)
  PROVE  BookInvariant'
<1>. DEFINE new == [side |-> side, price |-> price, qty |-> qty, rem |-> qty,
                    stamp |-> stamp, seq |-> sequence', status |-> "PENDING"]
<1>1. Matching!TypeOK /\ sequence \in Nat
  BY DEF BookInvariant, Matching!TypeOK
<1>2. /\ order' = [order EXCEPT ![o] = new] /\ sequence' = sequence + 1 /\ taker' = o
      /\ book' = book /\ trades' = trades /\ taker = NoOrder /\ o \notin Accepted
  BY DEF Matching!Submit, Accepted
<1>3. /\ new \in Matching!OrderRecords /\ new # NoOrder /\ new.rem = qty /\ new.qty = qty
      /\ new.seq = sequence + 1 /\ new.status = "PENDING" /\ qty \in Nat \ {0}
  BY <1>1, <1>2, ExecutionAssumption DEF Matching!OrderRecords, Matching!EngineAssumption
<1>. HIDE DEF new
<1>4. order'[o] = new /\ \A p \in Accepted : order'[p] = order[p] /\ p # o
  BY <1>1, <1>2 DEF Matching!TypeOK, Accepted
<1>5. Accepted' = Accepted \cup {o}
  BY <1>1, <1>2, <1>3 DEF Matching!TypeOK, Accepted
<1>6. Matching!TypeOK'
  BY <1>1, <1>2, <1>3 DEF Matching!TypeOK
<1>7. OwnPlaces'
  <2>1. \A p \in Accepted : order[p].seq \in Nat /\ order[p].seq =< sequence
    BY <1>1, AcceptedRecord DEF BookInvariant, OwnPlaces
  <2>2. \A p \in Accepted' : order'[p].seq =< sequence'
    BY <1>1, <1>2, <1>3, <1>4, <1>5, <2>1
  <2>3. ASSUME NEW p \in Accepted', NEW r \in Accepted', order'[p].seq = order'[r].seq
        PROVE  p = r
    <3>1. CASE p \in Accepted /\ r \in Accepted
      BY <1>4, <2>3, <3>1 DEF BookInvariant, OwnPlaces
    <3>2. CASE ~(p \in Accepted /\ r \in Accepted)
      BY <1>1, <1>3, <1>4, <1>5, <2>1, <2>3, <3>2
    <3>. QED BY <3>1, <3>2
  <2>. QED BY <1>2, <1>5, <2>2, <2>3 DEF OwnPlaces
<1>8. \A s \in Matching!Sides : \A i \in DOMAIN book[s] :
        book[s][i] \in Accepted /\ order[book[s][i]].side = s /\ order[book[s][i]].rem > 0
  BY DEF BookInvariant, SidesHold
<1>9. SidesHold'
  <2>1. \A s \in Matching!Sides : \A i \in DOMAIN book[s] :
          /\ book[s][i] \in Accepted' /\ book[s][i] # o
          /\ order'[book[s][i]].side = s /\ order'[book[s][i]].rem > 0
    BY <1>4, <1>5, <1>8
  <2>. QED BY <1>2, <2>1 DEF SidesHold, Matching!Sides
<1>10. SidesSorted'
  <2>1. \A s \in Matching!Sides : \A i, j \in DOMAIN book[s] :
          i < j => Matching!Before(order'[book[s][i]], order'[book[s][j]])
    BY <1>4, <1>8 DEF BookInvariant, SidesSorted
  <2>. QED BY <1>2, <2>1 DEF SidesSorted, Matching!Sides
<1>11. NotCrossed'
  <2>1. "BUY" \in Matching!Sides /\ "SELL" \in Matching!Sides
    BY DEF Matching!Sides
  <2>2. /\ \A i \in DOMAIN book["BUY"] : order'[book["BUY"][i]] = order[book["BUY"][i]]
        /\ \A i \in DOMAIN book["SELL"] : order'[book["SELL"][i]] = order[book["SELL"][i]]
    BY <1>4, <1>8, <2>1
  <2>. QED BY <1>2, <2>2 DEF BookInvariant, NotCrossed
<1>12. TradesExhaust'
  BY <1>2, <1>4, <1>5 DEF BookInvariant, TradesExhaust
<1>13. ASSUME NEW p \in Accepted' PROVE Accounted(p)'
  <2>1. Matching!TradesOf(p)' = Matching!TradesOf(p)
    BY <1>2 DEF Matching!TradesOf
  <2>2. CASE p = o
    <3>1. Matching!TradesOf(p) = {}
      BY <1>2, <2>2 DEF Matching!TradesOf, BookInvariant, TradesExhaust
    <3>2. Sum(QtyOf, Matching!TradesOf(p)) = 0
      BY <3>1, SumEmpty
    <3>. QED BY <1>3, <1>4, <2>1, <2>2, <3>2 DEF Accounted
  <2>3. CASE p # o
    <3>1. p \in Accepted /\ order'[p] = order[p]
      BY <1>4, <1>5, <2>3
    <3>. QED BY <2>1, <3>1 DEF BookInvariant, Accounted
  <2>. QED BY <2>2, <2>3
<1>. QED BY <1>6, <1>7, <1>9, <1>10, <1>11, <1>12, <1>13 DEF BookInvariant

\* The call ends and the order it was for rests nowhere.
LEMMA EndStep ==
  ASSUME BookInvariant, taker' = NoOrder, UNCHANGED <<order, book, sequence, trades>>
  PROVE  BookInvariant'
<1>1. Accepted' = Accepted
  BY DEF Accepted
<1>2. \A o : Matching!TradesOf(o)' = Matching!TradesOf(o)
  BY DEF Matching!TradesOf
<1>3. NoOrder \notin Accepted
  BY ExecutionAssumption DEF Matching!EngineAssumption, Accepted
<1>4. Matching!TypeOK'
  BY DEF BookInvariant, Matching!TypeOK
<1>5. OwnPlaces'
  BY <1>1 DEF BookInvariant, OwnPlaces
<1>6. SidesHold'
  BY <1>1, <1>3 DEF BookInvariant, SidesHold, Matching!Sides
<1>7. SidesSorted'
  BY DEF BookInvariant, SidesSorted, Matching!Sides, Matching!Before
<1>8. NotCrossed' /\ TradesExhaust'
  BY <1>1 DEF BookInvariant, NotCrossed, TradesExhaust
<1>9. \A o \in Accepted : Accounted(o)'
  BY <1>2 DEF BookInvariant, Accounted
<1>. QED BY <1>1, <1>4, <1>5, <1>6, <1>7, <1>8, <1>9 DEF BookInvariant

-----------------------------------------------------------------------------
\* A sequence with e inserted behind its first k elements.
LEMMA Insertion ==
  ASSUME NEW S, NEW b \in Seq(S), NEW k \in 0 .. Len(b), NEW e \in S
  PROVE  /\ Matching!InsertAt(b, k + 1, e) \in Seq(S)
         /\ Len(Matching!InsertAt(b, k + 1, e)) = Len(b) + 1
         /\ \A i \in 1 .. Len(b) + 1 :
              Matching!InsertAt(b, k + 1, e)[i] =
                IF i =< k THEN b[i] ELSE IF i = k + 1 THEN e ELSE b[i - 1]
<1>. DEFINE left == SubSeq(b, 1, k)
            n == Len(b)
            right == SubSeq(b, k + 1, n)
<1>1. n \in Nat /\ k \in 0 .. n /\ \A i \in 1 .. n : b[i] \in S
  OBVIOUS
<1>2. left \in Seq(S) /\ Len(left) = k /\ \A i \in 1 .. k : left[i] = b[i]
  BY <1>1, SubSeqProperties
<1>3. right \in Seq(S) /\ Len(right) = n - k /\ \A i \in 1 .. n - k : right[i] = b[i + k]
  <2>1. \A i \in k + 1 .. n : b[i] \in S
    BY <1>1
  <2>2. k + 1 \in Int /\ n \in Int /\ (k + 1 =< n \/ n - k = 0) /\ n - (k + 1) + 1 = n - k
    BY <1>1
  <2>. HIDE DEF n
  <2>3. /\ right \in Seq(S) /\ Len(right) = IF k + 1 =< n THEN n - (k + 1) + 1 ELSE 0
        /\ \A i \in 1 .. n - (k + 1) + 1 : right[i] = b[(k + 1) + i - 1]
    BY <2>1, <2>2, SubSeqProperties
  <2>4. \A i \in 1 .. n - k : (k + 1) + i - 1 = i + k
    BY <1>1
  <2>. QED BY <1>1, <2>2, <2>3, <2>4
<1>4. Matching!InsertAt(b, k + 1, e) = (left \o <<e>>) \o right
  <2>1. Matching!InsertAt(b, k + 1, e) =
          (SubSeq(b, 1, (k + 1) - 1) \o <<e>>) \o SubSeq(b, k + 1, Len(b))
    BY DEF Matching!InsertAt
  <2>2. (k + 1) - 1 = k
    BY <1>1
  <2>. QED BY <2>1, <2>2
<1>. HIDE DEF left, right, n
<1>. DEFINE front == left \o <<e>>
            whole == front \o right
<1>5. <<e>> \in Seq(S) /\ Len(<<e>>) = 1 /\ <<e>>[1] = e
  OBVIOUS
<1>6. /\ front \in Seq(S) /\ Len(front) = k + 1
      /\ \A i \in 1 .. k : front[i] = b[i]
      /\ front[k + 1] = e
  <2>1. /\ front \in Seq(S) /\ Len(front) = Len(left) + Len(<<e>>)
        /\ \A i \in 1 .. Len(left) + Len(<<e>>) :
             front[i] = IF i =< Len(left) THEN left[i] ELSE <<e>>[i - Len(left)]
    BY <1>2, <1>5, ConcatProperties
  <2>2. \A i \in 1 .. k + 1 : front[i] = IF i =< k THEN left[i] ELSE <<e>>[i - k]
    BY <1>2, <1>5, <2>1
  <2>3. k + 1 \in 1 .. k + 1 /\ (k + 1) - k = 1 /\ ~(k + 1 =< k)
    BY <1>1
  <2>4. front \in Seq(S) /\ Len(front) = k + 1
    BY <1>2, <1>5, <2>1
  <2>5. ASSUME NEW i \in 1 .. k PROVE front[i] = b[i]
    <3>1. i \in 1 .. k + 1 /\ i =< k
      BY <1>1
    <3>. QED BY <1>2, <2>2, <3>1
  <2>6. front[k + 1] = e
    BY <1>5, <2>2, <2>3
  <2>. QED BY <2>4, <2>5, <2>6
<1>. HIDE DEF front
<1>7. /\ whole \in Seq(S) /\ Len(whole) = n + 1
      /\ \A i \in 1 .. k + 1 : whole[i] = front[i]
      /\ \A i \in 1 .. n - k : whole[i + (k + 1)] = right[i]
  <2>1. /\ whole \in Seq(S) /\ Len(whole) = Len(front) + Len(right)
        /\ \A i \in 1 .. Len(front) + Len(right) :
             whole[i] = IF i =< Len(front) THEN front[i] ELSE right[i - Len(front)]
    BY <1>3, <1>6, ConcatProperties
  <2>. HIDE DEF whole
  <2>2. (k + 1) + (n - k) = n + 1
    BY <1>1
  <2>3. \A i \in 1 .. n + 1 : whole[i] = IF i =< k + 1 THEN front[i] ELSE right[i - (k + 1)]
    BY <1>3, <1>6, <2>1, <2>2
  <2>4. /\ \A i \in 1 .. k + 1 : i \in 1 .. n + 1 /\ i =< k + 1
        /\ \A i \in 1 .. n - k : /\ i + (k + 1) \in 1 .. n + 1 /\ ~(i + (k + 1) =< k + 1)
                                /\ (i + (k + 1)) - (k + 1) = i
    BY <1>1
  <2>5. whole \in Seq(S) /\ Len(whole) = n + 1
    BY <1>3, <1>6, <2>1, <2>2
  <2>6. ASSUME NEW i \in 1 .. k + 1 PROVE whole[i] = front[i]
    BY <2>3, <2>4
  <2>7. ASSUME NEW i \in 1 .. n - k PROVE whole[i + (k + 1)] = right[i]
    BY <2>3, <2>4
  <2>. QED BY <2>5, <2>6, <2>7
<1>. HIDE DEF whole
<1>8. ASSUME NEW i \in 1 .. n + 1
      PROVE  whole[i] = IF i =< k THEN b[i] ELSE IF i = k + 1 THEN e ELSE b[i - 1]
  <2>1. CASE i =< k
    BY <1>1, <1>6, <1>7, <2>1
  <2>2. CASE i = k + 1
    BY <1>1, <1>6, <1>7, <2>2
  <2>3. CASE i > k + 1
    <3>. DEFINE j == i - (k + 1)
    <3>1. j \in 1 .. n - k /\ j + (k + 1) = i /\ j + k = i - 1
      BY <1>1, <2>3
    <3>. HIDE DEF j
    <3>2. whole[j + (k + 1)] = right[j] /\ right[j] = b[j + k]
      BY <1>3, <1>7, <3>1
    <3>. QED BY <1>1, <2>3, <3>1, <3>2
  <2>. QED BY <1>1, <2>1, <2>2, <2>3
<1>9. Matching!InsertAt(b, k + 1, e) = whole
  BY <1>4 DEF whole, front
<1>. QED BY <1>7, <1>8, <1>9 DEF n

\* Where the order that is submitted goes: behind exactly those that precede it.
LEMMA PlaceOfOrder ==
  ASSUME BookInvariant, taker # NoOrder
  PROVE  LET side == order[taker].side
             b == book[side]
         IN  \E k \in 0 .. Len(b) :
               /\ Matching!Placed(side, taker) = Matching!InsertAt(b, k + 1, taker)
               /\ \A i \in 1 .. k : Matching!Before(order[b[i]], order[taker])
               /\ \A i \in k + 1 .. Len(b) : Matching!Before(order[taker], order[b[i]])
<1>. DEFINE side == order[taker].side
            b == book[side]
            ahead == {i \in DOMAIN b : Matching!Before(order[b[i]], order[taker])}
            k == Cardinality(ahead)
<1>1. Matching!TypeOK /\ taker \in Accepted
  BY DEF BookInvariant, OwnPlaces
<1>2. side \in Matching!Sides /\ order[taker] \in Matching!OrderRecords
  BY <1>1, AcceptedRecord
<1>3. Len(b) \in Nat /\ DOMAIN b = 1 .. Len(b)
  BY <1>1, <1>2, SideIndices
<1>4. \A i \in 1 .. Len(b) :
        /\ b[i] \in Accepted /\ b[i] # taker /\ order[b[i]].side = side
        /\ order[b[i]] \in Matching!OrderRecords
  BY <1>1, <1>2, <1>3, AcceptedRecord DEF BookInvariant, SidesHold
<1>5. \A i, j \in 1 .. Len(b) : i < j => Matching!Before(order[b[i]], order[b[j]])
  BY <1>2, <1>3 DEF BookInvariant, SidesSorted
<1>6. Matching!Placed(side, taker) = Matching!InsertAt(b, k + 1, taker)
  <2>1. Matching!Cardinality(ahead) = Cardinality(ahead)
    BY DEF Matching!Cardinality, Cardinality
  <2>2. Matching!Placed(side, taker) = Matching!InsertAt(b, 1 + Matching!Cardinality(ahead), taker)
    BY DEF Matching!Placed
  <2>3. ahead \in SUBSET (1 .. Len(b))
    BY <1>3
  <2>4. Cardinality(ahead) \in Nat
    <3>0. \A n \in Nat : IsFiniteSet(1 .. n)
      BY FS_Interval
    <3>1. IsFiniteSet(1 .. Len(b))
      BY <1>3, <3>0
    <3>2. IsFiniteSet(ahead)
      BY <2>3, <3>1, FS_Subset
    <3>. QED BY <3>2, FS_CardinalityType
  <2>. HIDE DEF ahead
  <2>5. 1 + Cardinality(ahead) = Cardinality(ahead) + 1
    BY <2>4
  <2>. QED BY <2>1, <2>2, <2>5
<1>. HIDE DEF side, b
<1>7. ahead \in SUBSET (1 .. Len(b))
  BY <1>3
<1>8. \A i \in ahead : \A j \in 1 .. i : j \in ahead
  <2>. TAKE i \in ahead
  <2>. TAKE j \in 1 .. i
  <2>1. i \in 1 .. Len(b) /\ j \in 1 .. Len(b) /\ Matching!Before(order[b[i]], order[taker])
    BY <1>3
  <2>2. j = i \/ Matching!Before(order[b[j]], order[b[i]])
    BY <1>3, <1>5, <2>1
  <2>3. Matching!Before(order[b[j]], order[taker])
    BY <1>2, <1>4, <2>1, <2>2, BeforeIsOrder DEF side
  <2>. QED BY <1>3, <2>1, <2>3
<1>9. k \in 0 .. Len(b) /\ ahead = 1 .. k
  <2>. HIDE DEF ahead
  <2>. QED BY <1>3, <1>7, <1>8, InitialSegment
<1>10. \A i \in 1 .. k : Matching!Before(order[b[i]], order[taker])
  BY <1>9
<1>11. ASSUME NEW i \in k + 1 .. Len(b)
       PROVE  Matching!Before(order[taker], order[b[i]])
  <2>1. i \in 1 .. Len(b) /\ i \notin 1 .. k
    BY <1>3, <1>9
  <2>2. ~Matching!Before(order[b[i]], order[taker])
    BY <1>3, <1>9, <2>1
  <2>3. order[b[i]].seq # order[taker].seq
    BY <1>1, <1>4, <2>1 DEF BookInvariant, OwnPlaces
  <2>. QED BY <1>2, <1>4, <2>1, <2>2, <2>3, BeforeIsOrder DEF side
<1>. HIDE DEF ahead, k
<1>. QED BY <1>6, <1>9, <1>10, <1>11 DEF side, b

\* What the loop leaves is put in its place; it crosses nothing on the other
\* side, because it does not cross the best of it.
LEMMA RestStep ==
  ASSUME BookInvariant, Matching!Rest
  PROVE  BookInvariant'
<1>. DEFINE side == order[taker].side
            b == book[side]
<1>1. /\ Matching!TypeOK /\ taker \in Accepted /\ taker \in OrderIds /\ taker # NoOrder
      /\ NoOrder \notin Accepted
  BY ExecutionAssumption
     DEF BookInvariant, OwnPlaces, Accepted, Matching!Rest, Matching!EngineAssumption
<1>2. side \in Matching!Sides /\ order[taker] \in Matching!OrderRecords
  BY <1>1, AcceptedRecord
<1>3. /\ order' = order /\ sequence' = sequence /\ trades' = trades /\ taker' = NoOrder
      /\ order[taker].rem > 0 /\ ~Matching!CanMatch
      /\ book' = [book EXCEPT ![side] = Matching!Placed(side, taker)]
  BY DEF Matching!Rest
<1>4. PICK k \in 0 .. Len(b) :
        /\ Matching!Placed(side, taker) = Matching!InsertAt(b, k + 1, taker)
        /\ \A i \in 1 .. k : Matching!Before(order[b[i]], order[taker])
        /\ \A i \in k + 1 .. Len(b) : Matching!Before(order[taker], order[b[i]])
  BY <1>1, PlaceOfOrder
<1>5. /\ b \in Seq(OrderIds) /\ Len(b) \in Nat /\ DOMAIN b = 1 .. Len(b)
      /\ book \in [Matching!Sides -> Seq(OrderIds)]
  BY <1>1, <1>2, SideIndices DEF Matching!TypeOK
<1>6. \A s \in Matching!Sides : \A i \in DOMAIN book[s] :
        /\ book[s][i] \in Accepted /\ book[s][i] # taker
        /\ order[book[s][i]].side = s /\ order[book[s][i]].rem > 0
        /\ order[book[s][i]] \in Matching!OrderRecords
  BY <1>1, AcceptedRecord DEF BookInvariant, SidesHold
<1>7. \A s \in Matching!Sides : \A i, j \in DOMAIN book[s] :
        i < j => Matching!Before(order[book[s][i]], order[book[s][j]])
  BY DEF BookInvariant, SidesSorted
<1>. HIDE DEF side, b
<1>8. /\ book'[side] \in Seq(OrderIds) /\ DOMAIN book'[side] = 1 .. Len(b) + 1
      /\ \A i \in 1 .. Len(b) + 1 :
           book'[side][i] = IF i =< k THEN b[i] ELSE IF i = k + 1 THEN taker ELSE b[i - 1]
      /\ \A s \in Matching!Sides \ {side} : book'[s] = book[s]
      /\ book' \in [Matching!Sides -> Seq(OrderIds)]
  <2>0. b \in Seq(OrderIds) /\ k \in 0 .. Len(b) /\ taker \in OrderIds
    BY <1>1, <1>4, <1>5
  <2>. DEFINE c == Matching!InsertAt(b, k + 1, taker)
  <2>1. /\ c \in Seq(OrderIds) /\ Len(c) = Len(b) + 1
        /\ \A i \in 1 .. Len(b) + 1 :
             c[i] = IF i =< k THEN b[i] ELSE IF i = k + 1 THEN taker ELSE b[i - 1]
    BY <2>0, Insertion
  <2>. HIDE DEF c
  <2>2. book' = [book EXCEPT ![side] = c]
    BY <1>3, <1>4 DEF c
  <2>3. DOMAIN c = 1 .. Len(b) + 1
    BY <2>1, LenProperties
  <2>. QED BY <1>2, <1>5, <2>1, <2>2, <2>3
<1>9. Accepted' = Accepted
  BY <1>3 DEF Accepted
<1>10. Matching!TypeOK'
  BY <1>1, <1>3, <1>8 DEF Matching!TypeOK
<1>11. OwnPlaces'
  BY <1>3, <1>9 DEF BookInvariant, OwnPlaces
<1>12. \A i \in DOMAIN book'[side] :
         book'[side][i] = taker \/ \E j \in DOMAIN book[side] : book'[side][i] = book[side][j]
  <2>. TAKE i \in DOMAIN book'[side]
  <2>1. CASE i =< k
    BY <1>4, <1>5, <1>8, <2>1 DEF b
  <2>2. CASE i = k + 1
    BY <1>8, <2>2, <1>4
  <2>3. CASE i > k + 1
    <3>1. i \in 1 .. Len(b) + 1 /\ i - 1 \in 1 .. Len(b) /\ k \in Nat
      BY <1>4, <1>5, <1>8, <2>3
    <3>2. book'[side][i] = b[i - 1]
      BY <1>8, <2>3, <3>1
    <3>. QED BY <1>5, <3>1, <3>2 DEF b
  <2>. QED BY <1>4, <1>5, <1>8, <2>1, <2>2, <2>3
<1>13. SidesHold'
  <2>1. ASSUME NEW s \in Matching!Sides, NEW i \in DOMAIN book'[s]
        PROVE  /\ book'[s][i] \in Accepted /\ book'[s][i] # NoOrder
               /\ order[book'[s][i]].side = s /\ order[book'[s][i]].rem > 0
    <3>1. CASE s = side /\ book'[s][i] = taker
      BY <1>1, <1>3, <3>1 DEF side
    <3>2. CASE s # side \/ book'[s][i] # taker
      <4>1. \E j \in DOMAIN book[s] : book'[s][i] = book[s][j]
        BY <1>8, <1>12, <2>1, <3>2
      <4>. QED BY <1>1, <1>6, <4>1
    <3>. QED BY <3>1, <3>2
  <2>. QED BY <1>3, <1>9, <2>1 DEF SidesHold, Matching!Sides
<1>14. ASSUME NEW i \in 1 .. Len(b) + 1, NEW j \in 1 .. Len(b) + 1, i < j
       PROVE  Matching!Before(order[book'[side][i]], order[book'[side][j]])
  <2>0. \A x, y \in 1 .. Len(b) : x < y => Matching!Before(order[b[x]], order[b[y]])
    BY <1>2, <1>5, <1>7 DEF b
  <2>1. CASE j =< k
    <3>1. i =< k /\ i \in 1 .. Len(b) /\ j \in 1 .. Len(b)
      BY <1>4, <1>5, <1>14, <2>1
    <3>2. book'[side][i] = b[i] /\ book'[side][j] = b[j]
      BY <1>8, <2>1, <3>1
    <3>. QED BY <1>14, <2>0, <3>1, <3>2
  <2>2. CASE j = k + 1
    <3>1. i \in 1 .. k /\ i =< k /\ ~(j =< k)
      BY <1>4, <1>5, <1>14, <2>2
    <3>2. book'[side][i] = b[i] /\ book'[side][j] = taker
      BY <1>8, <2>2, <3>1
    <3>. QED BY <1>4, <3>1, <3>2
  <2>3. CASE j > k + 1 /\ i =< k
    <3>1. i \in 1 .. Len(b) /\ j - 1 \in 1 .. Len(b) /\ i < j - 1 /\ ~(j =< k) /\ j # k + 1
      BY <1>4, <1>5, <1>14, <2>3
    <3>2. book'[side][i] = b[i] /\ book'[side][j] = b[j - 1]
      BY <1>8, <2>3, <3>1
    <3>. QED BY <2>0, <3>1, <3>2
  <2>4. CASE j > k + 1 /\ i = k + 1
    <3>1. j - 1 \in k + 1 .. Len(b) /\ ~(j =< k) /\ j # k + 1 /\ ~(i =< k)
      BY <1>4, <1>5, <1>14, <2>4
    <3>2. book'[side][i] = taker /\ book'[side][j] = b[j - 1]
      BY <1>8, <2>4, <3>1
    <3>. QED BY <1>4, <3>1, <3>2
  <2>5. CASE j > k + 1 /\ i > k + 1
    <3>1. /\ i - 1 \in 1 .. Len(b) /\ j - 1 \in 1 .. Len(b) /\ i - 1 < j - 1
          /\ ~(j =< k) /\ j # k + 1 /\ ~(i =< k) /\ i # k + 1
      BY <1>4, <1>5, <1>14, <2>5
    <3>2. book'[side][i] = b[i - 1] /\ book'[side][j] = b[j - 1]
      BY <1>8, <3>1
    <3>. QED BY <2>0, <3>1, <3>2
  <2>. QED BY <1>4, <1>5, <1>14, <2>1, <2>2, <2>3, <2>4, <2>5
<1>15. SidesSorted'
  <2>1. ASSUME NEW s \in Matching!Sides, NEW i \in DOMAIN book'[s], NEW j \in DOMAIN book'[s], i < j
        PROVE  Matching!Before(order[book'[s][i]], order[book'[s][j]])
    <3>1. CASE s = side
      BY <1>8, <1>14, <2>1, <3>1
    <3>2. CASE s # side
      BY <1>7, <1>8, <2>1, <3>2
    <3>. QED BY <3>1, <3>2
  <2>. QED BY <1>3, <2>1 DEF SidesSorted, Matching!Sides, Matching!Before
<1>16. TradesExhaust'
  BY <1>3, <1>9 DEF BookInvariant, TradesExhaust
<1>17. \A o \in Accepted : Accounted(o)'
  BY <1>3 DEF BookInvariant, Accounted, Matching!TradesOf
<1>18. ASSUME NEW j \in DOMAIN book[OppSide]
       PROVE  LET r == order[book[OppSide][j]]
                  t == order[taker]
              IN  IF side = "BUY" THEN t.price < r.price ELSE t.price > r.price
  <2>. DEFINE m == Matching!Best
  <2>1. OppSide \in Matching!Sides /\ (side = "BUY" <=> OppSide = "SELL")
    BY <1>2 DEF OppSide, Matching!Other, Matching!Sides, side
  <2>2. /\ book[OppSide] \in Seq(OrderIds) /\ DOMAIN book[OppSide] = 1 .. Len(book[OppSide])
        /\ Len(book[OppSide]) \in Nat
    BY <1>1, <2>1, SideIndices
  <2>3. book[OppSide] # <<>> /\ 1 \in DOMAIN book[OppSide] /\ m = book[OppSide][1]
    BY <1>18, <2>2 DEF Matching!Best, Matching!Opposite, OppSide
  <2>4. ~Matching!Crosses(order[taker], order[m])
    BY <1>1, <1>3, <2>3 DEF Matching!CanMatch, Matching!Opposite, OppSide
  <2>5. \A o \in {taker, m, book[OppSide][j]} : order[o].price \in Nat
    <3>1. \A o \in {taker, m, book[OppSide][j]} : o \in Accepted
      BY <1>1, <1>6, <1>18, <2>1, <2>3
    <3>. HIDE DEF m
    <3>. QED BY <1>1, <3>1, AcceptedRecord
  <2>6. IF side = "BUY" THEN order[taker].price < order[m].price
                        ELSE order[taker].price > order[m].price
    <3>1. order[taker].price \in Nat /\ order[m].price \in Nat
      BY <2>5
    <3>. HIDE DEF m
    <3>2. ~(IF order[taker].side = "BUY" THEN order[taker].price >= order[m].price
                                         ELSE order[taker].price =< order[m].price)
      BY <2>4 DEF Matching!Crosses
    <3>. QED BY <3>1, <3>2 DEF side
  <2>7. m = book[OppSide][j] \/ Matching!Before(order[m], order[book[OppSide][j]])
    BY <1>7, <1>18, <2>1, <2>2, <2>3
  <2>8. order[m].side = OppSide
    BY <1>6, <2>1, <2>3
  <2>9. IF side = "BUY" THEN order[m].price =< order[book[OppSide][j]].price
                        ELSE order[m].price >= order[book[OppSide][j]].price
    BY <1>2, <2>1, <2>5, <2>7, <2>8 DEF Matching!Before, Matching!Sides
  <2>. HIDE DEF m
  <2>. QED BY <2>5, <2>6, <2>9
<1>19. NotCrossed'
  <2>1. ASSUME NEW i \in DOMAIN book'["BUY"], NEW j \in DOMAIN book'["SELL"],
               order[book'["BUY"][i]].price > 0, order[book'["SELL"][j]].price > 0
        PROVE  order[book'["BUY"][i]].price < order[book'["SELL"][j]].price
    <3>0. "BUY" \in Matching!Sides /\ "SELL" \in Matching!Sides
      BY DEF Matching!Sides
    <3>1. CASE side = "BUY"
      <4>1. OppSide = "SELL" /\ book'["SELL"] = book["SELL"]
        BY <1>8, <3>0, <3>1 DEF OppSide, Matching!Other, side
      <4>2. CASE book'["BUY"][i] = taker
        BY <1>18, <2>1, <3>1, <4>1, <4>2
      <4>3. CASE book'["BUY"][i] # taker
        <5>1. PICK x \in DOMAIN book["BUY"] : book'["BUY"][i] = book["BUY"][x]
          BY <1>12, <3>1, <4>3
        <5>. QED BY <2>1, <4>1, <5>1 DEF BookInvariant, NotCrossed
      <4>. QED BY <4>2, <4>3
    <3>2. CASE side # "BUY"
      <4>1. side = "SELL" /\ OppSide = "BUY" /\ book'["BUY"] = book["BUY"]
        BY <1>2, <1>8, <3>0, <3>2 DEF OppSide, Matching!Other, Matching!Sides, side
      <4>2. CASE book'["SELL"][j] = taker
        <5>1. order[taker].price > order[book["BUY"][i]].price
          BY <1>18, <2>1, <3>2, <4>1
        <5>2. order[taker].price \in Nat /\ order[book["BUY"][i]].price \in Nat
          BY <1>1, <1>6, <2>1, <3>0, <4>1, AcceptedRecord
        <5>. QED BY <4>1, <4>2, <5>1, <5>2
      <4>3. CASE book'["SELL"][j] # taker
        <5>1. PICK x \in DOMAIN book["SELL"] : book'["SELL"][j] = book["SELL"][x]
          BY <1>12, <4>1, <4>3
        <5>. QED BY <2>1, <4>1, <5>1 DEF BookInvariant, NotCrossed
      <4>. QED BY <4>2, <4>3
    <3>. QED BY <3>1, <3>2
  <2>. QED BY <1>3, <2>1 DEF NotCrossed
<1>. QED BY <1>9, <1>10, <1>11, <1>13, <1>15, <1>16, <1>17, <1>19 DEF BookInvariant

LEMMA BookStep ==
  ASSUME BookInvariant, Matching!Next
  PROVE  BookInvariant'
<1>1. CASE Matching!Raise
  BY <1>1, EndStep DEF Matching!Raise
<1>2. CASE Matching!Finish
  BY <1>2, EndStep DEF Matching!Finish
<1>. QED BY <1>1, <1>2, SubmitStep, MatchStep, RestStep DEF Matching!Next

LEMMA BookSame ==
  ASSUME BookInvariant, UNCHANGED matchingVars
  PROVE  BookInvariant'
<1>. USE DEF matchingVars
<1>1. Accepted' = Accepted /\ \A o : Matching!TradesOf(o)' = Matching!TradesOf(o)
  BY DEF Accepted, Matching!TradesOf
<1>2. Matching!TypeOK' /\ OwnPlaces' /\ NotCrossed' /\ TradesExhaust'
  BY <1>1 DEF BookInvariant, Matching!TypeOK, OwnPlaces, NotCrossed, TradesExhaust
<1>3. SidesHold' /\ SidesSorted'
  BY <1>1 DEF BookInvariant, SidesHold, SidesSorted, Matching!Sides, Matching!Before
<1>4. \A o \in Accepted : Accounted(o)'
  BY <1>1 DEF BookInvariant, Accounted
<1>. QED BY <1>1, <1>2, <1>3, <1>4 DEF BookInvariant

LEMMA BookInvariantHolds == PartsSpec => []BookInvariant
<1>1. PartsInit => BookInvariant
  BY BookStarts DEF PartsInit
<1>2. BookInvariant /\ [PartsNext]_allVars => BookInvariant'
  BY BookStep, BookSame DEF PartsNext, Frozen, allVars, matchingVars
<1>. QED BY <1>1, <1>2, PTL DEF PartsSpec

\* For any ids, prices, quantities and timestamps: quantity is conserved, and
\* what rests on a side of the book is in order and uncrossed.
THEOREM BookIsAlwaysSound == PartsSpec => []BookIsSound
<1>1. BookInvariant => BookIsSound
  <2>. SUFFICES ASSUME BookInvariant
                PROVE  Matching!Conservation /\ Matching!BookInOrder
    BY DEF BookInvariant, BookIsSound
  <2>1. Matching!TypeOK /\ Matching!Known = Accepted
    BY DEF BookInvariant, Matching!Known, Accepted
  <2>2. ASSUME NEW o \in Accepted
        PROVE  LET done == Matching!MapThenSumSet(LAMBDA tr : tr.qty, Matching!TradesOf(o))
               IN  /\ order[o].rem + done = order[o].qty
                   /\ order[o].status = IF done = 0 THEN "PENDING"
                                        ELSE IF order[o].rem = 0 THEN "FILLED"
                                        ELSE "PARTIALLY_FILLED"
    <3>. DEFINE S == Matching!TradesOf(o)
    <3>1. S \in SUBSET TradeRecords /\ IsFiniteSet(S)
      BY <2>1, FS_Subset
      DEF Matching!TradesOf, BookInvariant, TradesExhaust, Matching!TypeOK, TradeRecords
    <3>2. \A tr \in S : QtyOf[tr] \in Int
      BY <3>1 DEF QtyOf, TradeRecords
    <3>3. Accounted(o) /\ order[o].rem \in Nat /\ order[o].qty \in Nat
      BY <2>1, AcceptedRecord DEF BookInvariant
    <3>4. /\ order[o].rem + Sum(QtyOf, S) = order[o].qty
          /\ order[o].status = IF order[o].rem = order[o].qty THEN "PENDING"
                               ELSE IF order[o].rem = 0 THEN "FILLED" ELSE "PARTIALLY_FILLED"
      BY <3>3 DEF Accounted
    <3>. HIDE DEF S
    <3>5. Sum(QtyOf, S) \in Int
      BY <3>1, <3>2, SumType
    <3>6. Sum(QtyOf, S) = 0 <=> order[o].rem = order[o].qty
      BY <3>3, <3>4, <3>5
    <3>7. Matching!MapThenSumSet(LAMBDA tr : tr.qty, S) = Sum(QtyOf, S)
      BY <3>1, DoneIsSum
    <3>. QED BY <3>4, <3>6, <3>7 DEF S
  <2>3. Matching!Conservation
    BY <2>1, <2>2 DEF Matching!Conservation
  <2>4. ASSUME NEW s \in Matching!Sides
        PROVE  /\ Matching!IsInjective(book[s])
               /\ \A o \in Matching!ToSet(book[s]) : order[o].side = s /\ order[o].rem > 0
               /\ \A i, j \in DOMAIN book[s] :
                    LET a == order[book[s][i]]
                        b == order[book[s][j]]
                    IN  i < j => /\ IF s = "BUY" THEN a.price >= b.price ELSE a.price =< b.price
                                 /\ a.price = b.price => a.stamp =< b.stamp
                                 /\ a.price = b.price /\ a.stamp = b.stamp => a.seq < b.seq
    <3>1. Len(book[s]) \in Nat /\ DOMAIN book[s] = 1 .. Len(book[s])
      BY <2>1, SideIndices
    <3>2. ASSUME NEW i \in DOMAIN book[s], NEW j \in DOMAIN book[s], i < j
          PROVE  book[s][i] # book[s][j]
      <4>1. Matching!Before(order[book[s][i]], order[book[s][j]])
        BY <3>2 DEF BookInvariant, SidesSorted
      <4>2. book[s][i] \in Accepted
        BY DEF BookInvariant, SidesHold
      <4>3. order[book[s][i]] \in Matching!OrderRecords
        BY <2>1, <4>2, AcceptedRecord
      <4>. QED BY <4>1, <4>3, BeforeIsOrder
    <3>3. \A i, j \in DOMAIN book[s] : i < j \/ i = j \/ j < i
      BY <3>1
    <3>4. Matching!IsInjective(book[s])
      BY <3>2, <3>3 DEF Matching!IsInjective
    <3>5. \A o \in Matching!ToSet(book[s]) : order[o].side = s /\ order[o].rem > 0
      BY DEF Matching!ToSet, BookInvariant, SidesHold
    <3>6. ASSUME NEW i \in DOMAIN book[s], NEW j \in DOMAIN book[s], i < j
          PROVE  LET a == order[book[s][i]]
                     b == order[book[s][j]]
                 IN  /\ IF s = "BUY" THEN a.price >= b.price ELSE a.price =< b.price
                     /\ a.price = b.price => a.stamp =< b.stamp
                     /\ a.price = b.price /\ a.stamp = b.stamp => a.seq < b.seq
      <4>1. Matching!Before(order[book[s][i]], order[book[s][j]])
        BY <3>6 DEF BookInvariant, SidesSorted
      <4>2. /\ book[s][i] \in Accepted /\ book[s][j] \in Accepted
            /\ order[book[s][i]].side = s
        BY DEF BookInvariant, SidesHold
      <4>3. /\ order[book[s][i]] \in Matching!OrderRecords
            /\ order[book[s][j]] \in Matching!OrderRecords
        BY <2>1, <4>2, AcceptedRecord
      <4>4. /\ order[book[s][i]].price \in Nat /\ order[book[s][j]].price \in Nat
            /\ order[book[s][i]].stamp \in Nat /\ order[book[s][j]].stamp \in Nat
            /\ order[book[s][i]].seq \in Nat /\ order[book[s][j]].seq \in Nat
        BY <4>3, ExecutionAssumption DEF Matching!OrderRecords, Matching!EngineAssumption
      <4>. QED BY <4>1, <4>2, <4>4 DEF Matching!Before
    <3>. QED BY <3>4, <3>5, <3>6
  <2>5. ASSUME NEW x \in Matching!ToSet(book["BUY"]), NEW y \in Matching!ToSet(book["SELL"]),
               order[x].price > 0, order[y].price > 0
        PROVE  order[x].price < order[y].price
    <3>1. PICK i \in DOMAIN book["BUY"] : x = book["BUY"][i]
      BY DEF Matching!ToSet
    <3>2. PICK j \in DOMAIN book["SELL"] : y = book["SELL"][j]
      BY DEF Matching!ToSet
    <3>. QED BY <2>5, <3>1, <3>2 DEF BookInvariant, NotCrossed
  <2>. QED BY <2>3, <2>4, <2>5 DEF Matching!BookInOrder
<1>. QED BY <1>1, BookInvariantHolds, PTL

\* A trade is with the order that is first by price, time and arrival.
LEMMA TradeIsFirst ==
  ASSUME BookInvariant, Matching!Match, NEW tr \in trades' \ trades
  PROVE  LET m == order[tr.maker]
             t == order[tr.taker]
         IN  /\ tr.price = m.price
             /\ t.price > 0 => IF t.side = "BUY" THEN tr.price =< t.price
                                                 ELSE tr.price >= t.price
             /\ \A o \in Matching!ToSet(book[m.side]) \ {tr.maker} :
                  LET r == order[o]
                  IN  \/ IF m.side = "BUY" THEN r.price < m.price ELSE r.price > m.price
                      \/ r.price = m.price
                         /\ (r.stamp > m.stamp \/ (r.stamp = m.stamp /\ r.seq > m.seq))
<1>. DEFINE b == Matching!Best
<1>1. Matching!CanMatch /\ Matching!TypeOK /\ order[b].price > 0
  BY DEF Matching!Match, BookInvariant
<1>2. /\ taker \in Accepted /\ b \in Accepted /\ OppSide \in Matching!Sides
      /\ b = book[OppSide][1] /\ order[b].side = OppSide /\ 1 \in DOMAIN book[OppSide]
  BY <1>1, Loop
<1>3. tr = [maker |-> b, taker |-> taker, price |-> order[b].price, qty |-> MatchQty]
  BY MatchEffect DEF Matching!TradeOf
<1>4. Matching!Crosses(order[taker], order[b])
  BY <1>1 DEF Matching!CanMatch
<1>. HIDE DEF b
<1>5. tr.maker = b /\ tr.taker = taker /\ tr.price = order[b].price
  BY <1>3
<1>6. order[taker].price \in Nat /\ order[b].price \in Nat
  BY <1>1, <1>2, AcceptedRecord
<1>7. order[taker].price > 0 => IF order[taker].side = "BUY" THEN order[b].price =< order[taker].price
                                                          ELSE order[b].price >= order[taker].price
  BY <1>1, <1>4, <1>6 DEF Matching!Crosses
<1>8. ASSUME NEW o \in Matching!ToSet(book[OppSide]), o # b
      PROVE  Matching!Before(order[b], order[o]) /\ o \in Accepted
  <2>1. PICK i \in DOMAIN book[OppSide] : o = book[OppSide][i]
    BY DEF Matching!ToSet
  <2>2. 1 < i
    BY <1>1, <1>2, <1>8, <2>1, SideIndices
  <2>. QED BY <1>2, <2>1, <2>2 DEF BookInvariant, SidesSorted, SidesHold
<1>9. ASSUME NEW o \in Matching!ToSet(book[OppSide]), o # b
      PROVE  \/ IF order[b].side = "BUY" THEN order[o].price < order[b].price
                                         ELSE order[o].price > order[b].price
             \/ /\ order[o].price = order[b].price
                /\ \/ order[o].stamp > order[b].stamp
                   \/ order[o].stamp = order[b].stamp /\ order[o].seq > order[b].seq
  <2>1. Matching!Before(order[b], order[o]) /\ o \in Accepted
    BY <1>8, <1>9
  <2>2. \A p \in {b, o} : order[p].price \in Nat /\ order[p].stamp \in Nat /\ order[p].seq \in Nat
    BY <1>1, <1>2, <2>1, AcceptedRecord
  <2>. QED BY <2>1, <2>2 DEF Matching!Before
<1>. QED BY <1>2, <1>5, <1>7, <1>9

\* What rested on a side still rests on it, and the submitted order too.
LEMMA RestAdds ==
  ASSUME BookInvariant, Matching!Rest
  PROVE  /\ \A s \in Matching!Sides : \A i \in DOMAIN book[s] :
              \E j \in DOMAIN book'[s] : book'[s][j] = book[s][i]
         /\ order[taker].side \in Matching!Sides
         /\ \E j \in DOMAIN book'[order[taker].side] : book'[order[taker].side][j] = taker
<1>. DEFINE side == order[taker].side
            b == book[side]
<1>1. /\ Matching!TypeOK /\ taker # NoOrder /\ taker \in Accepted
      /\ book' = [book EXCEPT ![side] = Matching!Placed(side, taker)]
  BY DEF Matching!Rest, BookInvariant, OwnPlaces
<1>2. taker \in OrderIds /\ side \in Matching!Sides
  BY <1>1, AcceptedRecord
<1>3. PICK k \in 0 .. Len(b) : Matching!Placed(side, taker) = Matching!InsertAt(b, k + 1, taker)
  BY <1>1, PlaceOfOrder
<1>4. /\ b \in Seq(OrderIds) /\ Len(b) \in Nat /\ DOMAIN b = 1 .. Len(b)
      /\ book \in [Matching!Sides -> Seq(OrderIds)]
  BY <1>1, <1>2, SideIndices DEF Matching!TypeOK
<1>5. b \in Seq(OrderIds) /\ k \in 0 .. Len(b) /\ taker \in OrderIds
  BY <1>2, <1>3, <1>4
<1>. DEFINE c == Matching!InsertAt(b, k + 1, taker)
<1>. HIDE DEF side, b
<1>6. /\ c \in Seq(OrderIds) /\ Len(c) = Len(b) + 1
      /\ \A i \in 1 .. Len(b) + 1 :
           c[i] = IF i =< k THEN b[i] ELSE IF i = k + 1 THEN taker ELSE b[i - 1]
  BY <1>5, Insertion
<1>7. book'[side] = c /\ \A s \in Matching!Sides \ {side} : book'[s] = book[s]
  BY <1>1, <1>2, <1>3, <1>4
<1>. HIDE DEF c
<1>8. DOMAIN c = 1 .. Len(b) + 1
  BY <1>6, LenProperties
<1>9. ASSUME NEW i \in DOMAIN b PROVE \E j \in DOMAIN c : c[j] = b[i]
  <2>1. CASE i =< k
    <3>1. i \in DOMAIN c /\ c[i] = b[i]
      BY <1>4, <1>6, <1>8, <2>1
    <3>. QED BY <3>1
  <2>2. CASE i > k
    <3>. DEFINE j == i + 1
    <3>1. j \in 1 .. Len(b) + 1 /\ ~(j =< k) /\ j # k + 1 /\ j - 1 = i
      BY <1>4, <1>5, <2>2
    <3>. HIDE DEF j
    <3>2. j \in DOMAIN c /\ c[j] = b[i]
      BY <1>6, <1>8, <3>1
    <3>. QED BY <3>2
  <2>. QED BY <1>4, <1>5, <2>1, <2>2
<1>10. k + 1 \in DOMAIN c /\ c[k + 1] = taker
  <2>1. k + 1 \in 1 .. Len(b) + 1 /\ ~(k + 1 =< k)
    BY <1>4, <1>5
  <2>. QED BY <1>6, <1>8, <2>1
<1>11. ASSUME NEW s \in Matching!Sides, NEW i \in DOMAIN book[s]
       PROVE  \E j \in DOMAIN book'[s] : book'[s][j] = book[s][i]
  <2>1. CASE s = side
    BY <1>7, <1>9, <2>1 DEF b
  <2>2. CASE s # side
    BY <1>7, <2>2
  <2>. QED BY <2>1, <2>2
<1>12. \E j \in DOMAIN book'[side] : book'[side][j] = taker
  BY <1>7, <1>10
<1>. QED BY <1>2, <1>11, <1>12 DEF side

\* Only Raise takes an order with quantity left from the calls without putting
\* it on the book.
LEMMA LostByRaise ==
  ASSUME BookInvariant, Matching!Next, NEW o \in Matching!Lost' \ Matching!Lost
  PROVE  Matching!Opposite # <<>> /\ order[Matching!Best].price = 0
<1>1. /\ Matching!TypeOK /\ NoOrder \notin OrderIds
      /\ o \in OrderIds /\ order'[o] # NoOrder /\ order'[o].rem > 0 /\ o # taker'
      /\ \A s \in Matching!Sides : \A j \in DOMAIN book'[s] : book'[s][j] # o
  BY ExecutionAssumption
     DEF BookInvariant, Matching!Lost, Matching!Known, Matching!EngineAssumption, Matching!ToSet
<1>2. /\ order[o] # NoOrder /\ order[o].rem > 0 /\ o # taker
      => \E s \in Matching!Sides : o \in Matching!ToSet(book[s])
  BY <1>1 DEF Matching!Lost, Matching!Known
<1>3. CASE Matching!Raise
  BY <1>3 DEF Matching!Raise, Matching!CanMatch
<1>4. CASE Matching!Finish
  <2>1. o # taker
    BY <1>1, <1>4 DEF Matching!Finish
  <2>. QED BY <1>1, <1>2, <1>4, <2>1 DEF Matching!Finish, Matching!ToSet
<1>5. ASSUME NEW p \in OrderIds, NEW side \in Matching!Sides, NEW price \in Prices,
             NEW q \in Quantities, NEW stamp \in Stamps, Matching!Submit(p, side, price, q, stamp)
      PROVE  FALSE
  <2>1. o # p /\ order'[o] = order[o] /\ o # taker
    BY <1>1, <1>5 DEF Matching!Submit, Matching!TypeOK
  <2>. QED BY <1>1, <1>2, <1>5, <2>1 DEF Matching!Submit, Matching!ToSet
<1>6. CASE Matching!Rest
  <2>1. order' = order
    BY <1>6 DEF Matching!Rest
  <2>2. o # taker
    <3>1. \E s \in Matching!Sides : \E j \in DOMAIN book'[s] : book'[s][j] = taker
      BY <1>6, RestAdds
    <3>. QED BY <1>1, <3>1
  <2>3. PICK s \in Matching!Sides : o \in Matching!ToSet(book[s])
    BY <1>1, <1>2, <2>1, <2>2
  <2>4. PICK i \in DOMAIN book[s] : o = book[s][i]
    BY <2>3 DEF Matching!ToSet
  <2>5. \E j \in DOMAIN book'[s] : book'[s][j] = o
    BY <1>6, <2>4, RestAdds
  <2>. QED BY <1>1, <2>5 DEF Matching!ToSet
<1>7. CASE Matching!Match
  <2>. DEFINE m == Matching!Best
  <2>1. /\ taker' = taker /\ taker \in Accepted /\ m \in Accepted /\ OppSide \in Matching!Sides
        /\ 1 \in DOMAIN book[OppSide] /\ m = book[OppSide][1]
    BY <1>7, Loop, MatchEffect DEF Matching!Match
  <2>2. /\ order'[m] = Matching!Fill(order[m], MatchQty)
        /\ MatchQty \in 1 .. order[m].rem
        /\ \A p \in OrderIds \ {taker, m} : order'[p] = order[p]
        /\ book' = IF MatchQty = order[m].rem
                   THEN [book EXCEPT ![OppSide] = Tail(book[OppSide])] ELSE book
    BY <1>7, MatchEffect
  <2>3. order[m] \in Matching!OrderRecords /\ order[m].rem \in Nat
    BY <1>1, <2>1, AcceptedRecord
  <2>. HIDE DEF m
  <2>4. order'[m].rem = order[m].rem - MatchQty
    BY <2>2, <2>3, FillLeaves
  <2>5. o # m \/ MatchQty # order[m].rem
    BY <1>1, <2>3, <2>4
  <2>6. PICK s \in Matching!Sides : o \in Matching!ToSet(book[s])
    <3>1. CASE o = m
      <4>1. m \in Matching!ToSet(book[OppSide])
        BY <2>1 DEF Matching!ToSet
      <4>. QED BY <2>1, <3>1, <4>1
    <3>2. CASE o # m
      BY <1>1, <1>2, <2>1, <2>2, <3>2
    <3>. QED BY <3>1, <3>2
  <2>7. PICK i \in DOMAIN book[s] : o = book[s][i]
    BY <2>6 DEF Matching!ToSet
  <2>8. \E j \in DOMAIN book'[s] : book'[s][j] = o
    <3>1. CASE MatchQty = order[m].rem /\ s = OppSide
      <4>1. /\ book[s] \in Seq(OrderIds) /\ Len(book[s]) \in Nat /\ DOMAIN book[s] = 1 .. Len(book[s])
            /\ book \in [Matching!Sides -> Seq(OrderIds)]
        BY <1>1, SideIndices DEF Matching!TypeOK
      <4>2. book'[s] = Tail(book[s])
        BY <2>2, <3>1, <4>1
      <4>3. i # 1
        BY <2>1, <2>5, <2>7, <3>1
      <4>. DEFINE j == i - 1
      <4>4. j \in 1 .. Len(book[s]) - 1 /\ j + 1 = i
        BY <4>1, <4>3
      <4>. HIDE DEF j
      <4>5. /\ Tail(book[s])[j] = book[s][j + 1] /\ Tail(book[s]) \in Seq(OrderIds)
            /\ Len(Tail(book[s])) = Len(book[s]) - 1
        BY <4>1, <4>4
      <4>6. j \in DOMAIN Tail(book[s])
        <5>1. \A q \in Seq(OrderIds) : DOMAIN q = 1 .. Len(q)
          OBVIOUS
        <5>. QED BY <4>4, <4>5, <5>1
      <4>. QED BY <2>7, <4>2, <4>4, <4>5, <4>6
    <3>2. CASE ~(MatchQty = order[m].rem /\ s = OppSide)
      <4>1. book \in [Matching!Sides -> Seq(OrderIds)]
        BY <1>1 DEF Matching!TypeOK
      <4>2. book'[s] = book[s]
        BY <2>2, <3>2, <4>1
      <4>. QED BY <2>7, <4>2
    <3>. QED BY <3>1, <3>2
  <2>. QED BY <1>1, <2>8 DEF Matching!ToSet
<1>. QED BY <1>3, <1>4, <1>5, <1>6, <1>7 DEF Matching!Next

\* Every trade is with the best resting order, and an order is lost at an
\* unpriced head of the other side only: for any ids, prices and quantities.
THEOREM PriorityAlwaysHolds == PartsSpec => PriorityHolds
<1>1. BookInvariant /\ [PartsNext]_allVars =>
        [\A tr \in trades' \ trades :
           LET m == order[tr.maker]
               t == order[tr.taker]
           IN  /\ tr.price = m.price
               /\ t.price > 0 => IF t.side = "BUY" THEN tr.price =< t.price
                                                   ELSE tr.price >= t.price
               /\ \A o \in Matching!ToSet(book[m.side]) \ {tr.maker} :
                    LET r == order[o]
                    IN  \/ IF m.side = "BUY" THEN r.price < m.price ELSE r.price > m.price
                        \/ r.price = m.price
                           /\ (r.stamp > m.stamp \/ (r.stamp = m.stamp /\ r.seq > m.seq))]_matchingVars
  <2>. SUFFICES ASSUME BookInvariant, Matching!Next, NEW tr \in trades' \ trades
                PROVE  Matching!Match
    BY TradeIsFirst DEF PartsNext, Frozen, allVars, matchingVars
  <2>. QED BY DEF Matching!Next, Matching!Submit, Matching!Raise, Matching!Rest, Matching!Finish
<1>2. BookInvariant /\ [PartsNext]_allVars =>
        [\A o \in Matching!Lost' \ Matching!Lost :
           Matching!Opposite # <<>> /\ order[Matching!Best].price = 0]_matchingVars
  BY LostByRaise DEF PartsNext, Frozen, allVars, matchingVars
<1>3. PartsSpec => Matching!PriceTimePriority
  BY <1>1, BookInvariantHolds, PTL
     DEF PartsSpec, Matching!PriceTimePriority, Matching!vars, matchingVars
<1>4. PartsSpec => Matching!LostOnlyAtUnpriced
  BY <1>2, BookInvariantHolds, PTL
     DEF PartsSpec, Matching!LostOnlyAtUnpriced, Matching!vars, matchingVars
<1>. QED BY <1>3, <1>4 DEF PriorityHolds

-----------------------------------------------------------------------------
(***************************************************************************)
(* Brackets, whether or not orders are reused and the gateway may raise.   *)
(*                                                                         *)
(* The properties are inductive together with three facts about the        *)
(* reverse index and the reports: an order leads to a bracket that has it  *)
(* as a leg, the legs of a bracket never lose their entry, and an order    *)
(* that was reported has ended.                                            *)
(***************************************************************************)
OwnersHaveLegs ==
  \A o \in Orders : owner[o] # None => owner[o] \in Known /\ o \in LegsOf(owner[o])

LegsHaveOwners ==
  \A b \in Known :
    /\ bracket[b].tp # bracket[b].sl
    /\ \A o \in LegsOf(b) : owner[o] # None

ReportedHaveEnded == \A r \in reports : exch[r.order] \in Final

IInv ==
  /\ ActiveLegsOwned
  /\ OwnersHaveLegs
  /\ LegsHaveOwners
  /\ ReportedHaveEnded
  /\ NoOrphanLeg
  /\ AtMostOneCancel

\* What is known of a bracket that is known.
LEMMA KnownBracket ==
  ASSUME TypeOK, NEW b \in Known
  PROVE  /\ bracket[b] \in BracketOrders
         /\ bracket[b].tp \in Orders /\ bracket[b].sl \in Orders
         /\ LegsOf(b) \subseteq Orders
         /\ Active(b) \/ Closed(b)
         /\ ~(Active(b) /\ Closed(b))
BY DEF TypeOK, Known, BracketOrders, LegsOf, Active, Closed

LEMMA InitIInv == Init => IInv
<1>. SUFFICES ASSUME Init PROVE IInv
  OBVIOUS
<1>1. Known = {} BY DEF Init, Known
<1>2. TypeOK
  BY DEF Init, TypeOK, Final
<1>. QED
  BY <1>1, <1>2 DEF Init, IInv, ActiveLegsOwned, OwnersHaveLegs, LegsHaveOwners,
     ReportedHaveEnded, NoOrphanLeg, AtMostOneCancel, Active, Closed, Legs

\* register_bracket: no leg of an active bracket changes its owner, because it
\* is InUse.
LEMMA RegisterKeeps ==
  ASSUME IInv, NEW b \in Brackets, NEW tp \in Orders, NEW sl \in Orders,
         RegisterBracket(b, tp, sl)
  PROVE  IInv'
<1>. DEFINE new == [tp |-> tp, sl |-> sl, status |-> "ACTIVE"]
<1>1. TypeOK BY DEF IInv, ActiveLegsOwned
<1>2. /\ new \in BracketOrders /\ new # None
      /\ new.tp = tp /\ new.sl = sl /\ new.status = "ACTIVE"
  BY OCOAssumption DEF BracketOrders
<1>3. /\ bracket' = [bracket EXCEPT ![b] = new]
      /\ owner' = [owner EXCEPT ![tp] = b, ![sl] = b]
      /\ UNCHANGED <<exch, reports, cancels, calls, abandoned>>
      /\ tp # sl /\ b \notin Known
  BY DEF RegisterBracket
<1>4. bracket'[b] = new /\ \A c \in Brackets : c # b => bracket'[c] = bracket[c]
  BY <1>1, <1>3 DEF TypeOK
<1>5. /\ owner'[tp] = b /\ owner'[sl] = b
      /\ \A o \in Orders : o # tp /\ o # sl => owner'[o] = owner[o]
  BY <1>1, <1>3 DEF TypeOK
<1>6. b \in Brackets /\ b # None BY OCOAssumption
<1>7. TypeOK'
  BY <1>1, <1>2, <1>3 DEF TypeOK
<1>8. Known' = Known \cup {b}
  BY <1>2, <1>4 DEF Known
<1>9. \A c \in Known : /\ c # b
                       /\ LegsOf(c)' = LegsOf(c)
                       /\ Active(c)' = Active(c)
                       /\ Closed(c)' = Closed(c)
  BY <1>3, <1>4, <1>8 DEF Known, LegsOf, Active, Closed
<1>10. Active(b)' /\ ~Closed(b)' /\ LegsOf(b)' = {tp, sl}
  BY <1>2, <1>4, <1>8 DEF Active, Closed, LegsOf
<1>11. \A c \in Known : Active(c) => \A o \in LegsOf(c) : o # tp /\ o # sl
  <2>. SUFFICES ASSUME NEW c \in Known, Active(c), NEW o \in LegsOf(c)
                PROVE  o # tp /\ o # sl
    OBVIOUS
  <2>1. owner[o] = c /\ c \in Brackets /\ c # None
    BY OCOAssumption DEF IInv, ActiveLegsOwned, Known
  <2>2. InUse(o) BY <2>1 DEF InUse
  <2>. QED BY <2>2 DEF RegisterBracket
<1>12. ActiveLegsOwned'
  <2>. SUFFICES ASSUME NEW c \in Brackets, Active(c)', NEW o \in LegsOf(c)'
                PROVE  owner'[o] = c
    BY <1>7 DEF ActiveLegsOwned
  <2>1. CASE c = b BY <1>5, <1>10, <2>1
  <2>2. CASE c # b
    <3>1. c \in Known BY <1>8, <2>2 DEF Active
    <3>2. Active(c) /\ o \in LegsOf(c) BY <1>9, <3>1
    <3>3. o \in Orders /\ owner[o] = c
      BY <1>1, <3>1, <3>2, KnownBracket DEF IInv, ActiveLegsOwned, Known
    <3>. QED BY <1>5, <1>11, <3>1, <3>2, <3>3
  <2>. QED BY <2>1, <2>2
<1>13. OwnersHaveLegs'
  <2>. SUFFICES ASSUME NEW o \in Orders, owner'[o] # None
                PROVE  /\ owner'[o] \in Known'
                       /\ o \in {bracket'[owner'[o]].tp, bracket'[owner'[o]].sl}
    BY DEF OwnersHaveLegs, LegsOf
  <2>1. CASE o = tp \/ o = sl
    BY <1>2, <1>4, <1>5, <1>8, <2>1
  <2>2. CASE o # tp /\ o # sl
    <3>1. owner'[o] = owner[o] BY <1>5, <2>2
    <3>2. owner[o] \in Known /\ o \in {bracket[owner[o]].tp, bracket[owner[o]].sl}
      BY <3>1 DEF IInv, OwnersHaveLegs, LegsOf
    <3>. QED BY <1>3, <1>4, <1>8, <3>1, <3>2 DEF Known
  <2>. QED BY <2>1, <2>2
<1>14. LegsHaveOwners'
  <2>. SUFFICES ASSUME NEW c \in Known'
                PROVE  /\ bracket'[c].tp # bracket'[c].sl
                       /\ \A o \in LegsOf(c)' : owner'[o] # None
    BY DEF LegsHaveOwners
  <2>1. CASE c = b BY <1>2, <1>3, <1>4, <1>5, <1>6, <1>10, <2>1
  <2>2. CASE c # b
    <3>1. c \in Known /\ bracket'[c] = bracket[c] /\ LegsOf(c)' = LegsOf(c)
      BY <1>4, <1>8, <1>9, <2>2 DEF Known
    <3>2. LegsOf(c) \subseteq Orders BY <1>1, <3>1, KnownBracket
    <3>. QED BY <1>5, <1>6, <3>1, <3>2 DEF IInv, LegsHaveOwners
  <2>. QED BY <2>1, <2>2
<1>15. ReportedHaveEnded' BY <1>3 DEF IInv, ReportedHaveEnded
<1>16. NoOrphanLeg'
  <2>. SUFFICES ASSUME NEW c \in Brackets, Closed(c)', NEW o \in LegsOf(c)'
                PROVE  exch[o] \in Final \/ o \in cancels \/ o \in abandoned
    BY <1>3 DEF NoOrphanLeg
  <2>1. c # b BY <1>10
  <2>2. c \in Known BY <1>8, <2>1 DEF Closed
  <2>. QED BY <1>9, <2>2 DEF IInv, NoOrphanLeg
<1>17. AtMostOneCancel'
  <2>. SUFFICES ASSUME NEW c \in Brackets, NEW l \in Legs
                PROVE  calls[c][l] =< IF Closed(c)' THEN 1 ELSE 0
    BY <1>3 DEF AtMostOneCancel
  <2>1. calls[c][l] =< IF Closed(c) THEN 1 ELSE 0 BY DEF IInv, AtMostOneCancel
  <2>2. CASE c = b
    <3>1. ~Closed(c) BY <1>3, <2>2 DEF Closed
    <3>. QED BY <1>10, <2>1, <2>2, <3>1
  <2>3. CASE c # b
    <3>1. Closed(c)' = Closed(c) BY <1>8, <1>4, <2>3 DEF Closed, Known
    <3>. QED BY <2>1, <3>1
  <2>. QED BY <2>2, <2>3
<1>. QED BY <1>12, <1>13, <1>14, <1>15, <1>16, <1>17 DEF IInv

\* A bracket that closes and calls the gateway for some legs, whichever of
\* them it accepts, when the orders of the other legs have ended.
LEMMA ClosingKeeps ==
  ASSUME IInv, NEW b \in Brackets, Active(b), Close(b),
         NEW legs \in SUBSET Legs, NEW accepted \in SUBSET legs,
         CancelOrders(b, legs, accepted),
         UNCHANGED <<owner, exch>>, reports' \subseteq reports,
         \A l \in Legs \ legs : exch[OrderOf(b, l)] \in Final
  PROVE  IInv'
<1>. DEFINE new == [bracket[b] EXCEPT !.status = "CLOSED"]
<1>1. TypeOK /\ b \in Known BY DEF IInv, ActiveLegsOwned, Active
<1>2. /\ bracket[b] \in BracketOrders
      /\ new \in BracketOrders /\ new # None
      /\ new.tp = bracket[b].tp /\ new.sl = bracket[b].sl /\ new.status = "CLOSED"
  BY <1>1, OCOAssumption, KnownBracket DEF BracketOrders
<1>3. bracket' = [bracket EXCEPT ![b] = new]
  BY <1>1, <1>2 DEF Close, TypeOK, BracketOrders
<1>4. bracket'[b] = new /\ \A c \in Brackets : c # b => bracket'[c] = bracket[c]
  BY <1>1, <1>3 DEF TypeOK
<1>5. Known' = Known
  BY <1>1, <1>2, <1>4 DEF Known
<1>6. \A c \in Brackets : LegsOf(c)' = LegsOf(c)
  BY <1>2, <1>4 DEF LegsOf
<1>7. Closed(b)' /\ ~Active(b)' /\ ~Closed(b)
  BY <1>1, <1>2, <1>4, <1>5 DEF Closed, Active
<1>8. \A c \in Brackets : c # b => Active(c)' = Active(c) /\ Closed(c)' = Closed(c)
  BY <1>4, <1>5 DEF Active, Closed
<1>9. \A l \in Legs : OrderOf(b, l) \in Orders
  BY <1>1, KnownBracket DEF OrderOf, Legs
<1>10. /\ cancels' = cancels \cup {OrderOf(b, l) : l \in accepted}
       /\ abandoned' = abandoned \cup {OrderOf(b, l) : l \in legs \ accepted}
       /\ calls' = [calls EXCEPT ![b] =
                      [l \in Legs |-> calls[b][l] + IF l \in accepted THEN 1 ELSE 0]]
  BY DEF CancelOrders
<1>11. \A l \in Legs : calls[b][l] = 0
  <2>. SUFFICES ASSUME NEW l \in Legs PROVE calls[b][l] = 0
    OBVIOUS
  <2>1. calls[b][l] \in Nat BY <1>1 DEF TypeOK
  <2>2. calls[b][l] =< 0 BY <1>7 DEF IInv, AtMostOneCancel
  <2>. QED BY <2>1, <2>2
<1>12. TypeOK'
  <2>1. bracket' \in [Brackets -> BracketOrders \cup {None}]
    BY <1>1, <1>2, <1>3 DEF TypeOK
  <2>2. cancels' \subseteq Orders /\ abandoned' \subseteq Orders
    BY <1>1, <1>9, <1>10 DEF TypeOK
  <2>3. calls' \in [Brackets -> [Legs -> Nat]]
    <3>1. [l \in Legs |-> calls[b][l] + IF l \in accepted THEN 1 ELSE 0] \in [Legs -> Nat]
      BY <1>11
    <3>. QED BY <1>1, <1>10, <3>1 DEF TypeOK
  <2>. QED BY <1>1, <2>1, <2>2, <2>3 DEF TypeOK
<1>13. ActiveLegsOwned'
  BY <1>6, <1>7, <1>8, <1>12 DEF IInv, ActiveLegsOwned
<1>14. OwnersHaveLegs'
  BY <1>1, <1>5, <1>6 DEF IInv, OwnersHaveLegs, Known
<1>15. LegsHaveOwners'
  <2>. SUFFICES ASSUME NEW c \in Known
                PROVE  /\ bracket'[c].tp # bracket'[c].sl
                       /\ \A o \in LegsOf(c)' : owner[o] # None
    BY <1>5 DEF LegsHaveOwners
  <2>1. c \in Brackets /\ LegsOf(c)' = LegsOf(c) BY <1>6 DEF Known
  <2>2. bracket'[c].tp = bracket[c].tp /\ bracket'[c].sl = bracket[c].sl
    BY <1>2, <1>4, <2>1
  <2>. QED BY <2>1, <2>2 DEF IInv, LegsHaveOwners
<1>16. ReportedHaveEnded' BY DEF IInv, ReportedHaveEnded
<1>17. NoOrphanLeg'
  <2>. SUFFICES ASSUME NEW c \in Brackets, Closed(c)', NEW o \in LegsOf(c)
                PROVE  exch[o] \in Final \/ o \in cancels' \/ o \in abandoned'
    BY <1>6 DEF NoOrphanLeg
  <2>1. CASE c = b
    <3>1. PICK l \in Legs : o = OrderOf(b, l)
      BY <2>1 DEF LegsOf, OrderOf, Legs
    <3>. QED BY <1>10, <3>1
  <2>2. CASE c # b
    BY <1>8, <1>10, <2>2 DEF IInv, NoOrphanLeg
  <2>. QED BY <2>1, <2>2
<1>18. AtMostOneCancel'
  <2>. SUFFICES ASSUME NEW c \in Brackets, NEW l \in Legs
                PROVE  calls'[c][l] =< IF Closed(c)' THEN 1 ELSE 0
    BY DEF AtMostOneCancel
  <2>1. CASE c = b
    BY <1>1, <1>7, <1>10, <1>11, <2>1 DEF TypeOK
  <2>2. CASE c # b
    BY <1>1, <1>8, <1>10, <2>2 DEF TypeOK, IInv, AtMostOneCancel
  <2>. QED BY <2>1, <2>2
<1>. QED BY <1>13, <1>14, <1>15, <1>16, <1>17, <1>18 DEF IInv

\* cancel_bracket.
LEMMA CancelKeeps ==
  ASSUME IInv, NEW b \in Brackets, CancelBracket(b)
  PROVE  IInv'
<1>1. PICK accepted \in SUBSET Legs : CancelOrders(b, Legs, accepted)
  BY DEF CancelBracket
<1>2. accepted \in SUBSET Legs BY DEF Legs
<1>3. Legs \in SUBSET Legs /\ Legs \ Legs = {}
  OBVIOUS
<1>4. Active(b) /\ Close(b) /\ UNCHANGED <<owner, exch>> /\ reports' \subseteq reports
  BY DEF CancelBracket
<1>. QED BY <1>1, <1>2, <1>3, <1>4, ClosingKeeps

\* handle_execution_report: the reported order is a leg of the bracket it leads
\* to, and has ended, so what is left to cancel is the other leg.
LEMMA HandleKeeps ==
  ASSUME IInv, NEW r \in reports, reports' \subseteq reports, HandleExecutionReport(r)
  PROVE  IInv'
<1>. DEFINE b == owner[r.order]
<1>1. TypeOK BY DEF IInv, ActiveLegsOwned
<1>2. r.order \in Orders BY <1>1 DEF TypeOK, ReportTypes
<1>3. b \in Brackets /\ b \in Known /\ r.order \in LegsOf(b) /\ exch[r.order] \in Final
  BY <1>2 DEF HandleExecutionReport, IInv, OwnersHaveLegs, ReportedHaveEnded, Known
<1>4. CASE StillOpen(b) /\ r.status \in Closing
  <2>. DEFINE legs == {OtherLeg(b, r.order)}
  <2>1. PICK accepted \in SUBSET legs : CancelOrders(b, legs, accepted)
    BY <1>4 DEF HandleExecutionReport
  <2>2. legs \in SUBSET Legs BY DEF OtherLeg, Opposite, LegOf, Legs
  <2>3. \A l \in Legs \ legs : OrderOf(b, l) = r.order
    BY <1>3 DEF OtherLeg, Opposite, LegOf, Legs, LegsOf, OrderOf
  <2>. QED
    BY <1>3, <1>4, <2>1, <2>2, <2>3, ClosingKeeps DEF HandleExecutionReport, StillOpen
<1>5. CASE ~(StillOpen(b) /\ r.status \in Closing)
  <2>1. UNCHANGED <<bracket, owner, exch, cancels, calls, abandoned>>
    BY <1>5 DEF HandleExecutionReport
  <2>2. reports' \subseteq ReportTypes BY <1>1 DEF TypeOK
  <2>3. TypeOK' BY <1>1, <2>1, <2>2 DEF TypeOK
  <2>4. Known' = Known BY <2>1 DEF Known
  <2>5. \A c \in Brackets : /\ LegsOf(c)' = LegsOf(c)
                            /\ Active(c)' = Active(c) /\ Closed(c)' = Closed(c)
    BY <2>1, <2>4 DEF LegsOf, Active, Closed
  <2>. QED
    BY <2>1, <2>3, <2>4, <2>5 DEF IInv, ActiveLegsOwned, OwnersHaveLegs, LegsHaveOwners,
       ReportedHaveEnded, NoOrphanLeg, AtMostOneCancel, Known
<1>. QED BY <1>4, <1>5

\* The exchange only ever ends orders, and carries a cancellation out only by
\* ending the order or because it has ended.
LEMMA ExchangeKeeps ==
  ASSUME IInv, NEW o \in Orders,
         (\E status \in Final : ExchangeMoves(o, status)) \/ CarryOutCancel(o)
  PROVE  IInv'
<1>1. TypeOK BY DEF IInv, ActiveLegsOwned
<1>2. UNCHANGED <<bracket, owner, calls, abandoned>>
  BY DEF ExchangeMoves, CarryOutCancel
<1>3. cancels' \subseteq cancels /\ cancels \ {o} \subseteq cancels'
  BY DEF ExchangeMoves, CarryOutCancel
<1>4. \/ UNCHANGED <<exch, reports>>
      \/ \E status \in Final :
            /\ exch' = [exch EXCEPT ![o] = status]
            /\ reports' = reports \cup {[order |-> o, status |-> status]}
  BY DEF ExchangeMoves, CarryOutCancel, Report, Final
<1>5. exch' \in [Orders -> Final \cup {"NEW"}] /\ reports' \subseteq ReportTypes
  BY <1>1, <1>4 DEF TypeOK, ReportTypes
<1>6. \A p \in Orders : exch[p] \in Final => exch'[p] \in Final
  BY <1>1, <1>4 DEF TypeOK
<1>7. ReportedHaveEnded'
  <2>1. \A r \in reports : r.order \in Orders
    BY <1>1 DEF TypeOK, ReportTypes
  <2>. QED BY <1>1, <1>4, <1>6, <2>1 DEF IInv, ReportedHaveEnded, TypeOK
<1>8. o \in cancels => o \in cancels' \/ owner[o] = None \/ exch'[o] \in Final
  BY <1>1 DEF ExchangeMoves, CarryOutCancel, Live, Report, Final, TypeOK
<1>9. Known' = Known BY <1>2 DEF Known
<1>10. \A c \in Brackets : /\ LegsOf(c)' = LegsOf(c)
                           /\ Active(c)' = Active(c) /\ Closed(c)' = Closed(c)
  BY <1>2, <1>9 DEF LegsOf, Active, Closed
<1>11. TypeOK' BY <1>1, <1>2, <1>3, <1>5 DEF TypeOK
<1>12. NoOrphanLeg'
  <2>. SUFFICES ASSUME NEW c \in Brackets, Closed(c), NEW p \in LegsOf(c)
                PROVE  exch'[p] \in Final \/ p \in cancels' \/ p \in abandoned'
    BY <1>10 DEF NoOrphanLeg
  <2>1. p \in Orders /\ owner[p] # None
    BY <1>1, KnownBracket DEF Closed, IInv, LegsHaveOwners
  <2>2. exch[p] \in Final \/ p \in cancels \/ p \in abandoned
    BY DEF IInv, NoOrphanLeg
  <2>. QED BY <1>2, <1>3, <1>6, <1>8, <2>1, <2>2
<1>. QED
  BY <1>2, <1>7, <1>9, <1>10, <1>11, <1>12 DEF IInv, ActiveLegsOwned, OwnersHaveLegs,
     LegsHaveOwners, AtMostOneCancel, Known

LEMMA StepIInv == IInv /\ [Next]_vars => IInv'
<1>. SUFFICES ASSUME IInv, [Next]_vars PROVE IInv'
  OBVIOUS
<1>1. CASE UNCHANGED vars
  BY <1>1 DEF vars, IInv, ActiveLegsOwned, TypeOK, OwnersHaveLegs, LegsHaveOwners,
     ReportedHaveEnded, NoOrphanLeg, AtMostOneCancel, Active, Closed, Known, LegsOf
<1>2. ASSUME NEW b \in Brackets, NEW tp \in Orders, NEW sl \in Orders,
             RegisterBracket(b, tp, sl)
      PROVE  IInv'
  BY <1>2, RegisterKeeps
<1>3. ASSUME NEW b \in Brackets, CancelBracket(b) PROVE IInv'
  BY <1>3, CancelKeeps
<1>4. ASSUME NEW r \in ReportTypes, Deliver(r) \/ Duplicate(r) PROVE IInv'
  <2>1. /\ r \in reports /\ reports' \subseteq reports
        /\ HandleExecutionReport(r)
    BY <1>4 DEF Deliver, Duplicate
  <2>. QED BY <2>1, HandleKeeps
<1>5. ASSUME NEW o \in Orders,
             (\E status \in Final : ExchangeMoves(o, status)) \/ CarryOutCancel(o)
      PROVE  IInv'
  BY <1>5, ExchangeKeeps
<1>. QED BY <1>1, <1>2, <1>3, <1>4, <1>5 DEF Next

LEMMA Invariance == Spec => []IInv
BY InitIInv, StepIInv, PTL DEF Spec

\* Every leg of an active bracket leads back to it (_order_to_bracket).
THEOREM LegsAreOwned == Spec => []ActiveLegsOwned
<1>1. IInv => ActiveLegsOwned BY DEF IInv
<1>. QED BY Invariance, <1>1, PTL

\* No leg of a closed bracket is forgotten, whatever the gateway does and
\* however late or often reports arrive (handle_execution_report, cancel_bracket).
THEOREM NoLegIsOrphaned == Spec => []NoOrphanLeg
<1>1. IInv => NoOrphanLeg BY DEF IInv
<1>. QED BY Invariance, <1>1, PTL

\* The cancellation of a leg is asked for at most once per bracket.
THEOREM CancelledAtMostOnce == Spec => []AtMostOneCancel
<1>1. IInv => AtMostOneCancel BY DEF IInv
<1>. QED BY Invariance, <1>1, PTL

-----------------------------------------------------------------------------
(***************************************************************************)
(* Simulated orders.  What an order needs to remember of the prices it saw *)
(* is the best one: while it is pending its watermark is that price, and   *)
(* the order was due at none of them.                                      *)
(***************************************************************************)
WellFormed(o) ==
  /\ o \in Simulation!OrderRecords
  /\ o.type \in {"LIMIT", "STOP"} => o.level \in Int
  /\ o.type = "TRAILING_STOP" => o.delta \in Int /\ o.delta > 0

PricesOf(L) == {L[j] : j \in 1 .. Len(L)}

\* The watermark is the best price so far, None past the first one.
Tracks(o, L) ==
  IF L = <<>> THEN o.watermark = None
  ELSE /\ o.watermark \in PricesOf(L)
       /\ \A p \in PricesOf(L) : IF o.side = "SELL" THEN o.watermark >= p ELSE o.watermark =< p

NotDueBefore(o, L, n) == \A k \in 1 .. n : ~Simulation!Due(o, L, k)

\* An order together with the prices it saw.
Sound(o, L) ==
  /\ WellFormed(o)
  /\ o.status = "PENDING" /\ o.type = "TRAILING_STOP" => Tracks(o, L)
  /\ o.status # "FILLED" => NotDueBefore(o, L, Len(L))
  /\ o.status = "FILLED" =>
       /\ L # <<>> /\ o.filledPrice = L[Len(L)]
       /\ NotDueBefore(o, L, Len(L) - 1) /\ Simulation!Due(o, L, Len(L))

SimulationInvariant == part = "simulation" =>
  /\ lots = <<>> /\ entered = <<>> /\ ticks \in 0 .. MaxSimTicks
  /\ orders \in [SimIds -> Simulation!OrderRecords \cup {None}]
  /\ seen \in [SimIds -> Seq(SimPrices)]
  /\ \A i \in SimIds : IF orders[i] = None THEN seen[i] = <<>> ELSE Sound(orders[i], seen[i])

LEMMA SimulationExtreme == \A S : Simulation!Max(S) = Max(S) /\ Simulation!Min(S) = Min(S)
BY DEF Simulation!Max, Simulation!Min, Max, Min

\* What an order was due at depends on the prices up to it only, and on no
\* field that a tick changes.
LEMMA DueStays ==
  ASSUME NEW o, NEW r, NEW L \in Seq(SimPrices), NEW p \in SimPrices, NEW k \in 1 .. Len(L),
         o.type = r.type, o.side = r.side, o.level = r.level, o.delta = r.delta
  PROVE  Simulation!Due(r, Append(L, p), k) <=> Simulation!Due(o, L, k)
<1>. DEFINE M == Append(L, p)
<1>1. \A j \in 1 .. k : M[j] = L[j]
  OBVIOUS
<1>. HIDE DEF M
<1>2. {M[j] : j \in 1 .. k - 1} = {L[j] : j \in 1 .. k - 1}
  BY <1>1
<1>. DEFINE past == {L[j] : j \in 1 .. k - 1}
<1>3. M[k] = L[k] /\ {M[j] : j \in 1 .. k - 1} = past
  BY <1>1, <1>2
<1>. HIDE DEF past
<1>4. Simulation!Due(r, M, k) <=> Simulation!Due(o, L, k)
  BY <1>3 DEF Simulation!Due, past
<1>. QED BY <1>4 DEF M

\* The code's condition, from the watermark, is that of Due, from all prices.
LEMMA DueNow ==
  ASSUME NEW o, WellFormed(o), NEW L \in Seq(SimPrices), NEW p \in SimPrices,
         o.type = "TRAILING_STOP" => Tracks(o, L)
  PROVE  Simulation!Due(o, Append(L, p), Len(L) + 1) <=> Simulation!should_execute(o, p)
<1>. DEFINE M == Append(L, p)
            n == Len(L) + 1
            past == {M[j] : j \in 1 .. n - 1}
<1>1. M[n] = p /\ n - 1 = Len(L) /\ Len(L) \in Nat /\ p \in Int /\ None \notin Int
  BY SimulatedAssumption DEF Simulation!SimulationAssumption
<1>2. past = PricesOf(L) /\ PricesOf(L) \subseteq Int
  <2>1. \A j \in 1 .. Len(L) : M[j] = L[j] /\ L[j] \in SimPrices
    OBVIOUS
  <2>. HIDE DEF M
  <2>. QED BY <1>1, <2>1, SimulatedAssumption DEF PricesOf, Simulation!SimulationAssumption
<1>3. L = <<>> => PricesOf(L) = {}
  BY DEF PricesOf
<1>. HIDE DEF M, n
<1>4. CASE o.type = "TRAILING_STOP"
  <2>1. /\ o.delta \in Int /\ o.delta > 0 /\ o.side \in {"BUY", "SELL"}
    BY <1>4 DEF WellFormed, Simulation!OrderRecords
  <2>2. Simulation!Due(o, M, n) <=>
          /\ past # {}
          /\ IF o.side = "SELL" THEN Simulation!Max(past) - M[n] >= o.delta
             ELSE M[n] - Simulation!Min(past) >= o.delta
    BY <1>4 DEF Simulation!Due
  <2>3. Simulation!should_execute(o, p) <=> Simulation!evaluate_trailing_stop(o, p)
    BY <1>4 DEF Simulation!should_execute
  <2>. HIDE DEF past
  <2>4. CASE L = <<>>
    <3>1. ~Simulation!Due(o, M, n)
      BY <1>2, <1>3, <2>2, <2>4
    <3>2. o.watermark = None
      BY <1>4, <2>4 DEF Tracks
    <3>3. ~Simulation!should_execute(o, p)
      BY <2>3, <3>2 DEF Simulation!evaluate_trailing_stop, Simulation!Favourable
    <3>. QED BY <3>1, <3>3 DEF M, n
  <2>5. CASE L # <<>>
    <3>. DEFINE w == o.watermark
    <3>1. /\ w \in PricesOf(L) /\ w \in Int
          /\ \A q \in PricesOf(L) : IF o.side = "SELL" THEN w >= q ELSE w =< q
      BY <1>2, <1>4, <2>5 DEF Tracks
    <3>2. w # None
      BY <1>1, <3>1
    <3>. HIDE DEF w
    <3>3. CASE o.side = "SELL"
      <4>1. Simulation!Max(past) = w
        BY <1>2, <3>1, <3>3, Extreme, SimulationExtreme
      <4>2. Simulation!Due(o, M, n) <=> w - p >= o.delta
        BY <1>1, <1>2, <3>1, <2>2, <3>3, <4>1
      <4>3. Simulation!should_execute(o, p) <=> ~(p > w) /\ p =< w - o.delta
        BY <2>3, <3>2, <3>3 DEF Simulation!evaluate_trailing_stop, Simulation!Favourable, w
      <4>. QED BY <1>1, <2>1, <3>1, <4>2, <4>3 DEF M, n
    <3>4. CASE o.side = "BUY"
      <4>1. Simulation!Min(past) = w
        BY <1>2, <3>1, <3>4, Extreme, SimulationExtreme
      <4>2. Simulation!Due(o, M, n) <=> p - w >= o.delta
        BY <1>1, <1>2, <3>1, <2>2, <3>4, <4>1
      <4>3. Simulation!should_execute(o, p) <=> ~(p < w) /\ p >= w + o.delta
        BY <2>3, <3>2, <3>4 DEF Simulation!evaluate_trailing_stop, Simulation!Favourable, w
      <4>. QED BY <1>1, <2>1, <3>1, <4>2, <4>3 DEF M, n
    <3>. QED BY <2>1, <3>3, <3>4
  <2>. QED BY <2>4, <2>5
<1>5. CASE o.type # "TRAILING_STOP"
  <2>1. o.type \in {"MARKET", "LIMIT", "STOP"}
    BY <1>5 DEF WellFormed, Simulation!OrderRecords
  <2>. HIDE DEF past
  <2>2. Simulation!Due(o, M, n) <=> Simulation!should_execute(o, p)
    BY <1>1, <2>1 DEF Simulation!Due, Simulation!should_execute,
       Simulation!evaluate_limit, Simulation!evaluate_stop
  <2>. QED BY <2>2 DEF M, n
<1>. QED BY <1>4, <1>5

\* A tick offers a pending order a price: it fills exactly when it is due, and
\* remembers the price if it is the best so far.
LEMMA OfferedIsSound ==
  ASSUME NEW o, NEW L \in Seq(SimPrices), NEW p \in SimPrices, Sound(o, L), o.status = "PENDING"
  PROVE  /\ Sound(Simulation!Offered(o, p), Append(L, p))
         /\ Simulation!Offered(o, p) \in Simulation!OrderRecords
<1>. DEFINE M == Append(L, p)
            r == Simulation!Offered(o, p)
<1>1. /\ p \in Int /\ None \notin Int /\ o \in Simulation!OrderRecords /\ WellFormed(o)
      /\ o.side \in {"BUY", "SELL"}
  BY SimulatedAssumption
     DEF Simulation!SimulationAssumption, Sound, WellFormed, Simulation!OrderRecords
<1>2. /\ M \in Seq(SimPrices) /\ Len(M) = Len(L) + 1 /\ M[Len(M)] = p /\ M # <<>>
      /\ Len(L) \in Nat /\ Len(M) - 1 = Len(L)
  OBVIOUS
<1>3. PricesOf(M) = PricesOf(L) \cup {p} /\ PricesOf(L) \subseteq Int
  <2>1. \A j \in 1 .. Len(L) : M[j] = L[j] /\ L[j] \in Int
    BY SimulatedAssumption DEF Simulation!SimulationAssumption
  <2>2. 1 .. Len(M) = (1 .. Len(L)) \cup {Len(M)}
    BY <1>2
  <2>. HIDE DEF M
  <2>. QED BY <1>2, <2>1, <2>2 DEF PricesOf
<1>. HIDE DEF M
<1>4. Simulation!Due(o, M, Len(M)) <=> Simulation!should_execute(o, p)
  BY <1>1, <1>2, DueNow DEF M, Sound
<1>5. CASE Simulation!should_execute(o, p)
  <2>1. r = [o EXCEPT !.status = "FILLED", !.filledPrice = p]
    BY <1>5 DEF Simulation!Offered, Simulation!execute_order
  <2>2. /\ r \in Simulation!OrderRecords /\ r.status = "FILLED" /\ r.filledPrice = p
        /\ r.type = o.type /\ r.side = o.side /\ r.level = o.level /\ r.delta = o.delta
    BY <1>1, <2>1 DEF Simulation!OrderRecords
  <2>. HIDE DEF r
  <2>3. WellFormed(r)
    BY <1>1, <2>2 DEF WellFormed
  <2>4. Simulation!Due(r, M, Len(M))
    BY <1>4, <1>5, <2>2 DEF Simulation!Due
  <2>5. NotDueBefore(r, M, Len(M) - 1)
    BY <1>2, <2>2, DueStays DEF Sound, NotDueBefore, M
  <2>6. Sound(r, M)
    BY <1>2, <2>2, <2>3, <2>4, <2>5 DEF Sound
  <2>. QED BY <2>2, <2>6 DEF r, M
<1>6. CASE ~Simulation!should_execute(o, p)
  <2>1. r = IF o.type = "TRAILING_STOP" /\ Simulation!Favourable(o, p)
            THEN [o EXCEPT !.watermark = p] ELSE o
    BY <1>6 DEF Simulation!Offered
  <2>2. /\ r \in Simulation!OrderRecords /\ r.status = "PENDING"
        /\ r.type = o.type /\ r.side = o.side /\ r.level = o.level /\ r.delta = o.delta
        /\ r.watermark = IF o.type = "TRAILING_STOP" /\ Simulation!Favourable(o, p)
                         THEN p ELSE o.watermark
    BY <1>1, <2>1 DEF Simulation!OrderRecords
  <2>. HIDE DEF r
  <2>3. WellFormed(r)
    BY <1>1, <2>2 DEF WellFormed
  <2>4. ~Simulation!Due(r, M, Len(M))
    BY <1>4, <1>6, <2>2 DEF Simulation!Due
  <2>5. \A k \in 1 .. Len(L) : ~Simulation!Due(r, M, k)
    BY <2>2, DueStays DEF Sound, NotDueBefore, M
  <2>6. NotDueBefore(r, M, Len(M))
    BY <1>2, <2>4, <2>5 DEF NotDueBefore
  <2>7. ASSUME o.type = "TRAILING_STOP" PROVE Tracks(r, M)
    <3>1. Tracks(o, L)
      BY <2>7 DEF Sound
    <3>2. CASE L = <<>>
      <4>1. r.watermark = p /\ PricesOf(L) = {}
        BY <2>2, <2>7, <3>1, <3>2 DEF Tracks, Simulation!Favourable, PricesOf
      <4>. QED BY <1>1, <1>2, <1>3, <4>1 DEF Tracks
    <3>3. CASE L # <<>>
      <4>. DEFINE w == o.watermark
      <4>1. /\ w \in PricesOf(L) /\ w \in Int /\ w # None
            /\ \A q \in PricesOf(L) : IF o.side = "SELL" THEN w >= q ELSE w =< q
        BY <1>1, <1>3, <3>1, <3>3 DEF Tracks
      <4>2. r.watermark = IF (o.side = "SELL" /\ p > w) \/ (o.side = "BUY" /\ p < w)
                          THEN p ELSE w
        BY <2>2, <2>7, <4>1 DEF Simulation!Favourable
      <4>. HIDE DEF w
      <4>3. r.watermark \in PricesOf(M)
        BY <1>3, <4>1, <4>2
      <4>4. ASSUME NEW q \in PricesOf(M)
            PROVE  IF r.side = "SELL" THEN r.watermark >= q ELSE r.watermark =< q
        <5>1. q = p \/ (q \in PricesOf(L) /\ q \in Int)
          BY <1>3
        <5>2. CASE o.side = "SELL"
          BY <1>1, <2>2, <4>1, <4>2, <5>1, <5>2
        <5>3. CASE o.side = "BUY"
          BY <1>1, <2>2, <4>1, <4>2, <5>1, <5>3
        <5>. QED BY <1>1, <5>2, <5>3
      <4>. QED BY <1>2, <4>3, <4>4 DEF Tracks
    <3>. QED BY <3>2, <3>3
  <2>8. Sound(r, M)
    BY <1>2, <2>2, <2>3, <2>6, <2>7 DEF Sound
  <2>. QED BY <2>2, <2>8 DEF r, M
<1>. QED BY <1>5, <1>6

LEMMA SimulationStarts == PartsInit => SimulationInvariant
BY SimulatedAssumption
   DEF PartsInit, SimulationInvariant, Simulation!Init, Simulation!LotInit,
       Simulation!SimulationAssumption

LEMMA SubmitIsSound ==
  ASSUME NEW o \in SimOrders
  PROVE  o \in Simulation!OrderRecords /\ o # None /\ Sound(o, <<>>)
<1>1. /\ o \in Simulation!OrderRecords /\ o # None
      /\ o.status = "PENDING" /\ o.watermark = None /\ WellFormed(o)
  BY SimulatedAssumption DEF Simulation!SimulationAssumption, WellFormed
<1>2. Len(<<>>) = 0 /\ NotDueBefore(o, <<>>, 0)
  BY DEF NotDueBefore
<1>. QED BY <1>1, <1>2 DEF Sound, Tracks

\* The invariant of the next state; Sound reads no variable itself.
LEMMA InvariantPrimed ==
  ASSUME /\ lots' = <<>> /\ entered' = <<>> /\ ticks' \in 0 .. MaxSimTicks
         /\ orders' \in [SimIds -> Simulation!OrderRecords \cup {None}]
         /\ seen' \in [SimIds -> Seq(SimPrices)]
         /\ \A i \in SimIds :
              IF orders'[i] = None THEN seen'[i] = <<>> ELSE Sound(orders'[i], seen'[i])
  PROVE  SimulationInvariant'
BY DEF SimulationInvariant, Sound, WellFormed, Tracks, NotDueBefore, Simulation!Due,
   Simulation!OrderRecords, PricesOf

LEMMA SimulationStep ==
  ASSUME SimulationInvariant, part = "simulation", Simulation!Next,
         UNCHANGED <<part, lots, entered>>
  PROVE  SimulationInvariant'
<1>1. /\ lots = <<>> /\ entered = <<>> /\ ticks \in 0 .. MaxSimTicks
      /\ orders \in [SimIds -> Simulation!OrderRecords \cup {None}]
      /\ seen \in [SimIds -> Seq(SimPrices)]
      /\ \A i \in SimIds :
           IF orders[i] = None THEN seen[i] = <<>> ELSE Sound(orders[i], seen[i])
  BY DEF SimulationInvariant
<1>2. None \notin Simulation!OrderRecords
  BY SimulatedAssumption DEF Simulation!SimulationAssumption
<1>. SUFFICES
       /\ ticks' \in 0 .. MaxSimTicks
       /\ orders' \in [SimIds -> Simulation!OrderRecords \cup {None}]
       /\ seen' \in [SimIds -> Seq(SimPrices)]
       /\ \A i \in SimIds :
            IF orders'[i] = None THEN seen'[i] = <<>> ELSE Sound(orders'[i], seen'[i])
  BY <1>1, InvariantPrimed
<1>3. ASSUME NEW i \in SimIds, NEW o \in SimOrders, Simulation!submit_order(i, o)
      PROVE  /\ ticks' = ticks /\ seen' = seen
             /\ orders' \in [SimIds -> Simulation!OrderRecords \cup {None}]
             /\ \A j \in SimIds :
                  IF orders'[j] = None THEN seen[j] = <<>> ELSE Sound(orders'[j], seen[j])
  <2>1. /\ orders' = [orders EXCEPT ![i] = o] /\ orders[i] = None
        /\ ticks' = ticks /\ seen' = seen
    BY <1>3 DEF Simulation!submit_order
  <2>2. orders'[i] = o /\ \A j \in SimIds \ {i} : orders'[j] = orders[j]
    BY <1>1, <2>1
  <2>3. Sound(orders'[i], seen[i]) /\ orders'[i] # None
    BY <1>1, <2>1, <2>2, SubmitIsSound
  <2>. QED BY <1>1, <2>1, <2>2, <2>3, SubmitIsSound
<1>4. ASSUME NEW i \in SimIds, Simulation!cancel_order(i)
      PROVE  /\ ticks' = ticks /\ seen' = seen
             /\ orders' \in [SimIds -> Simulation!OrderRecords \cup {None}]
             /\ \A j \in SimIds :
                  IF orders'[j] = None THEN seen[j] = <<>> ELSE Sound(orders'[j], seen[j])
  <2>. DEFINE o == orders[i]
              r == [o EXCEPT !.status = "CANCELLED"]
  <2>1. /\ orders' = [orders EXCEPT ![i] = r] /\ o # None /\ o.status = "PENDING"
        /\ ticks' = ticks /\ seen' = seen
    BY <1>4 DEF Simulation!cancel_order, Simulation!Pending
  <2>2. Sound(o, seen[i]) /\ o \in Simulation!OrderRecords
    BY <1>1, <2>1
  <2>3. /\ r \in Simulation!OrderRecords /\ r.status = "CANCELLED"
        /\ r.type = o.type /\ r.side = o.side /\ r.level = o.level /\ r.delta = o.delta
    BY <2>2 DEF Simulation!OrderRecords
  <2>. HIDE DEF r, o
  <2>4. \A k : Simulation!Due(r, seen[i], k) <=> Simulation!Due(o, seen[i], k)
    BY <2>3 DEF Simulation!Due
  <2>5. Sound(r, seen[i])
    BY <2>1, <2>2, <2>3, <2>4 DEF Sound, WellFormed, NotDueBefore
  <2>6. orders'[i] = r /\ \A j \in SimIds \ {i} : orders'[j] = orders[j]
    BY <1>1, <2>1
  <2>7. orders' \in [SimIds -> Simulation!OrderRecords \cup {None}]
    BY <1>1, <2>1, <2>3
  <2>8. r # None
    BY <1>2, <2>3
  <2>. QED BY <1>1, <2>1, <2>5, <2>6, <2>7, <2>8
<1>5. ASSUME NEW s \in SimSymbols, NEW p \in SimPrices, Simulation!process_tick(s, p)
      PROVE  /\ ticks' \in 0 .. MaxSimTicks
             /\ orders' \in [SimIds -> Simulation!OrderRecords \cup {None}]
             /\ seen' \in [SimIds -> Seq(SimPrices)]
             /\ \A i \in SimIds :
                  IF orders'[i] = None THEN seen'[i] = <<>> ELSE Sound(orders'[i], seen'[i])
  <2>. DEFINE offered == {i \in SimIds : Simulation!Pending(i) /\ orders[i].symbol = s}
  <2>1. /\ ticks < MaxSimTicks /\ ticks' = ticks + 1
        /\ orders' = [i \in SimIds |-> IF i \in offered
                                       THEN Simulation!Offered(orders[i], p) ELSE orders[i]]
        /\ seen' = [i \in SimIds |-> IF i \in offered THEN Append(seen[i], p) ELSE seen[i]]
    BY <1>5 DEF Simulation!process_tick
  <2>2. \A i \in offered : orders[i] # None /\ orders[i].status = "PENDING"
    BY DEF Simulation!Pending
  <2>. HIDE DEF offered
  <2>3. ticks' \in 0 .. MaxSimTicks
    BY <1>1, <2>1, SimulatedAssumption DEF Simulation!SimulationAssumption
  <2>4. ASSUME NEW i \in SimIds
        PROVE  /\ orders'[i] \in Simulation!OrderRecords \cup {None}
               /\ seen'[i] \in Seq(SimPrices)
               /\ IF orders'[i] = None THEN seen'[i] = <<>> ELSE Sound(orders'[i], seen'[i])
    <3>1. CASE i \in offered
      <4>1. /\ orders'[i] = Simulation!Offered(orders[i], p) /\ seen'[i] = Append(seen[i], p)
            /\ seen[i] \in Seq(SimPrices) /\ Sound(orders[i], seen[i])
            /\ orders[i].status = "PENDING"
        BY <1>1, <2>1, <2>2, <3>1
      <4>2. Append(seen[i], p) \in Seq(SimPrices)
        BY <4>1
      <4>. QED BY <1>2, <4>1, <4>2, OfferedIsSound
    <3>2. CASE i \notin offered
      BY <1>1, <2>1, <3>2
    <3>. QED BY <3>1, <3>2
  <2>5. /\ orders' \in [SimIds -> Simulation!OrderRecords \cup {None}]
        /\ seen' \in [SimIds -> Seq(SimPrices)]
    BY <2>1, <2>4
  <2>. QED BY <2>3, <2>4, <2>5
<1>. QED BY <1>1, <1>3, <1>4, <1>5 DEF Simulation!Next

\* For any orders and prices: an order fills at the first price it is due at, at
\* that price, and a pending one was due at none (process_tick).
THEOREM FillsAreAlwaysDue == PartsSpec => []FillsAreDue
<1>1. SimulationInvariant /\ [PartsNext]_allVars => SimulationInvariant'
  <2>. SUFFICES ASSUME SimulationInvariant, [PartsNext]_allVars PROVE SimulationInvariant'
    OBVIOUS
  <2>1. part' = part
    BY DEF PartsNext, Frozen, allVars
  <2>2. CASE part # "simulation"
    BY <2>1, <2>2 DEF SimulationInvariant
  <2>3. CASE part = "simulation" /\ UNCHANGED <<simVars, lotVars>>
    <3>1. UNCHANGED <<orders, ticks, seen, lots, entered>>
      BY <2>3 DEF simVars, lotVars
    <3>. QED BY <2>3, <3>1, InvariantPrimed DEF SimulationInvariant
  <2>4. CASE part = "simulation" /\ PartsNext
    BY <2>1, <2>4, SimulationStep DEF PartsNext, Frozen, lotVars
  <2>. QED BY <2>1, <2>2, <2>3, <2>4 DEF allVars
<1>2. SimulationInvariant => FillsAreDue
  <2>. SUFFICES ASSUME SimulationInvariant, part = "simulation"
                PROVE  Simulation!TypeOK /\ Simulation!FillsAreDue
    BY DEF FillsAreDue
  <2>1. /\ lots = <<>> /\ entered = <<>> /\ ticks \in 0 .. MaxSimTicks
        /\ orders \in [SimIds -> Simulation!OrderRecords \cup {None}]
        /\ \A i \in SimIds : orders[i] # None =>
             Sound(orders[i], seen[i]) /\ Len(seen[i]) \in Nat
             /\ DOMAIN seen[i] = 1 .. Len(seen[i])
    BY DEF SimulationInvariant
  <2>2. Simulation!TypeOK
    BY <2>1, SimulatedAssumption
       DEF Simulation!TypeOK, Simulation!SimulationAssumption, Simulation!OrderRecords
  <2>3. ASSUME NEW i \in SimIds, orders[i] # None
        PROVE  LET o == orders[i]
                   L == seen[i]
                   due == {k \in DOMAIN L : Simulation!Due(o, L, k)}
               IN  IF o.status = "FILLED" THEN due = {Len(L)} /\ o.filledPrice = L[Len(L)]
                   ELSE due = {}
    <3>. DEFINE o == orders[i]
                L == seen[i]
    <3>1. Sound(o, L) /\ Len(L) \in Nat /\ DOMAIN L = 1 .. Len(L)
      BY <2>1, <2>3
    <3>2. L # <<>> => Len(L) > 0
      BY DEF SimulationInvariant
    <3>. HIDE DEF o, L
    <3>3. CASE o.status = "FILLED"
      <4>1. /\ o.filledPrice = L[Len(L)] /\ Len(L) > 0 /\ Simulation!Due(o, L, Len(L))
            /\ \A k \in 1 .. Len(L) - 1 : ~Simulation!Due(o, L, k)
        BY <3>1, <3>2, <3>3 DEF Sound, NotDueBefore
      <4>2. \A k \in DOMAIN L : Simulation!Due(o, L, k) <=> k = Len(L)
        BY <3>1, <4>1
      <4>. QED BY <3>1, <3>3, <4>1, <4>2 DEF o, L
    <3>4. CASE o.status # "FILLED"
      BY <3>1, <3>4 DEF Sound, NotDueBefore, o, L
    <3>. QED BY <3>3, <3>4
  <2>. QED BY <2>2, <2>3 DEF Simulation!FillsAreDue
<1>. QED BY <1>1, <1>2, SimulationStarts, PTL DEF PartsSpec

-----------------------------------------------------------------------------
(***************************************************************************)
(* Trailing stops.  An open order stands where the prices since its gate   *)
(* put it: its best price is the best of them, its stop the tightest of    *)
(* the stops that they allow, and none of them breached the stop of its    *)
(* time.  Nothing that the callbacks do in between can tell.               *)
(***************************************************************************)
LEMMA StopExtreme == \A S : StopLoss!Max(S) = Max(S) /\ StopLoss!Min(S) = Min(S)
BY DEF StopLoss!Max, StopLoss!Min, Max, Min

\* What a tick leaves alone.
SameTerms(x, o) ==
  /\ x.side = o.side /\ x.deltaType = o.deltaType /\ x.delta = o.delta
  /\ x.activation = o.activation /\ x.symbol = o.symbol

\* b is better than all prices of K, None if there is none.
IsBest(o, K, b) ==
  IF K = <<>> THEN b = None
  ELSE b \in PricesOf(K) /\ \A q \in PricesOf(K) : ~StopLoss!Beyond(o, q, b)

\* s is the tightest of the stops that the prices of K allow.
IsStop(o, K, s) ==
  /\ s \in {o.stopPrice} \cup {StopLoss!Candidate(o, q) : q \in PricesOf(K)}
  /\ ~StopLoss!Beyond(o, o.stopPrice, s)
  /\ \A q \in PricesOf(K) : ~StopLoss!Beyond(o, StopLoss!Candidate(o, q), s)

Hit(o, L, g, k) == ~StopLoss!Beyond(o, L[k], StopLoss!StopAfter(o, SubSeq(L, g, k - 1)))

\* An order x that was made as o and is open after the prices L.
OpenAfter(o, L, x) ==
  LET g == StopLoss!GateAt(o, L)
      K == SubSeq(L, g, Len(L))
  IN  /\ x.triggerPrice = None
      /\ \A k \in g .. Len(L) : ~Hit(o, L, g, k)
      /\ IsBest(o, K, x.best) /\ IsStop(o, K, x.stopPrice)
      /\ x.status = IF g > Len(L) THEN o.status ELSE "ACTIVE"

\* The same for an order that may have triggered or have been cancelled.
Stands(o, L, x) ==
  LET g == StopLoss!GateAt(o, L)
      hits == {k \in g .. Len(L) : Hit(o, L, g, k)}
      kept == SubSeq(L, g, IF hits = {} THEN Len(L) ELSE Len(L) - 1)
  IN  /\ hits \subseteq {Len(L)}
      /\ x.triggerPrice # None <=> hits # {}
      /\ x.stopPrice = StopLoss!StopAfter(o, kept)
      /\ x.status # "CANCELLED" =>
           x.status = IF hits # {} THEN "TRIGGERED"
                      ELSE IF g > Len(L) THEN o.status ELSE "ACTIVE"

Follows(o, L, x) ==
  /\ x \in StopLoss!OrderRecords /\ SameTerms(x, o)
  /\ IF StopLoss!Open(x) THEN OpenAfter(o, L, x) ELSE Stands(o, L, x)

LEMMA MadeOrder ==
  ASSUME NEW o \in Stops
  PROVE  /\ o \in StopLoss!OrderRecords /\ o.status \in {"ACTIVE", "PENDING"}
         /\ o.best = None /\ o.triggerPrice = None
         /\ o.side \in {"BUY", "SELL"} /\ o.stopPrice \in Int
         /\ o.deltaType \in {"AMOUNT", "PERCENTAGE"} /\ o.delta \in Int /\ o.delta > 0
         /\ o.deltaType = "PERCENTAGE" => o.delta =< 100
         /\ o.activation \in Int \cup {None} /\ None \notin Int
BY TrailingAssumption DEF StopLoss!StopsAssumption, StopLoss!OrderRecords

\* Beyond is the order of the numbers, or its reverse.
LEMMA BeyondIs ==
  ASSUME NEW o, o.side \in {"BUY", "SELL"}, NEW p \in Int, NEW q \in Int
  PROVE  StopLoss!Beyond(o, p, q) <=> IF o.side = "SELL" THEN p > q ELSE p < q
BY DEF StopLoss!Beyond, StopLoss!Sign

LEMMA TimesGrows ==
  ASSUME NEW p \in Int, NEW q \in Int, NEW c \in Int, p =< q, c >= 0
  PROVE  p * c =< q * c
<1>1. (q - p) * c >= 0
  OBVIOUS
<1>2. (q - p) * c = q * c - p * c
  OBVIOUS
<1>. QED BY <1>1, <1>2

\* A better price never allows a looser stop.
LEMMA CandidateGrows ==
  ASSUME NEW o \in Stops, NEW p \in Int, NEW q \in Int
  PROVE  /\ StopLoss!Candidate(o, p) \in Int
         /\ p =< q => StopLoss!Candidate(o, p) =< StopLoss!Candidate(o, q)
<1>1. CASE o.deltaType = "AMOUNT"
  BY <1>1, MadeOrder DEF StopLoss!Candidate, StopLoss!Sign
<1>2. CASE o.deltaType = "PERCENTAGE"
  <2>. DEFINE c == 100 - StopLoss!Sign(o) * o.delta
  <2>1. c \in Int /\ c >= 0
    BY <1>2, MadeOrder DEF StopLoss!Sign
  <2>2. /\ StopLoss!Candidate(o, p) = (p * c) \div 100
        /\ StopLoss!Candidate(o, q) = (q * c) \div 100
    BY <1>2 DEF StopLoss!Candidate
  <2>. HIDE DEF c
  <2>3. p =< q => p * c =< q * c
    BY <2>1, TimesGrows
  <2>. DEFINE a == p * c
              b == q * c
  <2>4. a \in Int /\ b \in Int /\ (p =< q => a =< b)
    BY <2>1, <2>3
  <2>5. StopLoss!Candidate(o, p) = a \div 100 /\ StopLoss!Candidate(o, q) = b \div 100
    BY <2>2
  <2>. HIDE DEF a, b
  <2>6. a \div 100 \in Int /\ (a =< b => a \div 100 =< b \div 100)
    BY <2>4
  <2>. QED BY <2>4, <2>5, <2>6
<1>. QED BY <1>1, <1>2, MadeOrder

LEMMA SameCandidate ==
  ASSUME NEW o, NEW x, SameTerms(x, o), NEW p, NEW q
  PROVE  /\ StopLoss!Candidate(x, p) = StopLoss!Candidate(o, p)
         /\ StopLoss!Beyond(x, p, q) <=> StopLoss!Beyond(o, p, q)
BY DEF SameTerms, StopLoss!Candidate, StopLoss!Beyond, StopLoss!Sign

LEMMA StopIs ==
  ASSUME NEW o \in Stops, NEW K \in Seq(StopPrices), NEW s, IsStop(o, K, s)
  PROVE  StopLoss!StopAfter(o, K) = s /\ s \in Int
<1>. DEFINE stops == {o.stopPrice} \cup {StopLoss!Candidate(o, q) : q \in PricesOf(K)}
<1>1. PricesOf(K) \subseteq Int
  <2>1. \A j \in 1 .. Len(K) : K[j] \in StopPrices
    OBVIOUS
  <2>. QED BY <2>1, TrailingAssumption DEF PricesOf, StopLoss!StopsAssumption
<1>2. /\ stops \subseteq Int /\ s \in stops
      /\ \A t \in stops : ~StopLoss!Beyond(o, t, s)
  BY <1>1, CandidateGrows, MadeOrder DEF IsStop
<1>3. {o.stopPrice} \cup {StopLoss!Candidate(o, K[k]) : k \in DOMAIN K} = stops
  <2>1. DOMAIN K = 1 .. Len(K)
    OBVIOUS
  <2>. QED BY <2>1 DEF PricesOf
<1>4. StopLoss!StopAfter(o, K) = IF o.side = "SELL" THEN StopLoss!Max(stops)
                                                    ELSE StopLoss!Min(stops)
  BY <1>3 DEF StopLoss!StopAfter
<1>. HIDE DEF stops
<1>5. s \in Int /\ \A t \in stops : t \in Int /\ IF o.side = "SELL" THEN s >= t ELSE s =< t
  <2>1. s \in Int /\ o.side \in {"BUY", "SELL"}
    BY <1>2, MadeOrder
  <2>2. ASSUME NEW t \in stops PROVE t \in Int /\ IF o.side = "SELL" THEN s >= t ELSE s =< t
    <3>1. t \in Int /\ ~StopLoss!Beyond(o, t, s)
      BY <1>2
    <3>. QED BY <2>1, <3>1, BeyondIs
  <2>. QED BY <2>1, <2>2
<1>6. CASE o.side = "SELL"
  BY <1>2, <1>4, <1>5, <1>6, Extreme, StopExtreme
<1>7. CASE o.side # "SELL"
  BY <1>2, <1>4, <1>5, <1>7, Extreme, StopExtreme
<1>. QED BY <1>5, <1>6, <1>7

LEMMA OpenStands ==
  ASSUME NEW o \in Stops, NEW L \in Seq(StopPrices), NEW x, OpenAfter(o, L, x),
         StopLoss!GateAt(o, L) \in 1 .. Len(L) + 1
  PROVE  Stands(o, L, x)
<1>. DEFINE g == StopLoss!GateAt(o, L)
            K == SubSeq(L, g, Len(L))
            hits == {k \in g .. Len(L) : Hit(o, L, g, k)}
<1>1. K \in Seq(StopPrices)
  <2>1. \A i \in g .. Len(L) : L[i] \in StopPrices
    OBVIOUS
  <2>2. g \in Int /\ Len(L) \in Int
    OBVIOUS
  <2>. HIDE DEF g
  <2>. QED BY <2>1, <2>2, SubSeqProperties
<1>2. hits = {} /\ IsStop(o, K, x.stopPrice)
  BY DEF OpenAfter
<1>3. x.stopPrice = StopLoss!StopAfter(o, K)
  <2>. HIDE DEF K
  <2>. QED BY <1>1, <1>2, StopIs
<1>. QED BY <1>2, <1>3 DEF OpenAfter, Stands

\* The gate is a position of the prices, or the next one.
LEMMA GateIs ==
  ASSUME NEW o, NEW L \in Seq(StopPrices)
  PROVE  /\ StopLoss!GateAt(o, L) \in 1 .. Len(L) + 1
         /\ \A k \in 1 .. StopLoss!GateAt(o, L) - 1 : ~StopLoss!Activates(o, L[k])
         /\ StopLoss!GateAt(o, L) =< Len(L) => StopLoss!Activates(o, L[StopLoss!GateAt(o, L)])
         /\ \A n \in 1 .. Len(L) + 1 :
              /\ \A k \in 1 .. n - 1 : ~StopLoss!Activates(o, L[k])
              /\ n =< Len(L) => StopLoss!Activates(o, L[n])
              => StopLoss!GateAt(o, L) = n
<1>. DEFINE G == {k \in DOMAIN L : StopLoss!Activates(o, L[k])} \cup {Len(L) + 1}
            g == StopLoss!GateAt(o, L)
<1>1. DOMAIN L = 1 .. Len(L) /\ Len(L) \in Nat
  OBVIOUS
<1>2. G \subseteq Nat /\ G \subseteq Int /\ Len(L) + 1 \in G
      /\ \A k : k \in G <=> k = Len(L) + 1 \/ (k \in 1 .. Len(L) /\ StopLoss!Activates(o, L[k]))
  BY <1>1
<1>3. g = Min(G)
  BY StopExtreme DEF StopLoss!GateAt
<1>. HIDE DEF G, g
<1>4. \A m \in G : (\A k \in G : m =< k) => g = m
  BY <1>2, <1>3, Extreme
<1>5. PICK m \in G : \A k \in G : m =< k
  BY <1>2, Least
<1>6. g \in G /\ \A k \in G : g =< k
  BY <1>4, <1>5
<1>7. g \in 1 .. Len(L) + 1 /\ (g =< Len(L) => StopLoss!Activates(o, L[g]))
  BY <1>1, <1>2, <1>6
<1>8. ASSUME NEW k \in 1 .. g - 1 PROVE ~StopLoss!Activates(o, L[k])
  <2>1. k \notin G
    BY <1>6, <1>7
  <2>2. k \in 1 .. Len(L)
    BY <1>1, <1>7
  <2>. QED BY <1>2, <2>1, <2>2
<1>9. ASSUME NEW n \in 1 .. Len(L) + 1,
             \A k \in 1 .. n - 1 : ~StopLoss!Activates(o, L[k]),
             n =< Len(L) => StopLoss!Activates(o, L[n])
      PROVE  g = n
  <2>1. n \in G
    BY <1>1, <1>2, <1>9
  <2>2. ASSUME NEW k \in G PROVE n =< k
    <3>1. k \in 1 .. Len(L) + 1 /\ (k \in 1 .. Len(L) => StopLoss!Activates(o, L[k]))
      BY <1>1, <1>2
    <3>2. ~(k < n)
      BY <1>1, <1>9, <3>1
    <3>. QED BY <3>1, <3>2
  <2>. QED BY <1>4, <2>1, <2>2
<1>. QED BY <1>7, <1>8, <1>9 DEF g

\* Prices come at the end.
LEMMA LongerSequence ==
  ASSUME NEW S, NEW L \in Seq(S), NEW p \in S, NEW g \in 1 .. Len(L) + 1
  PROVE  /\ \A k \in 0 .. Len(L) : SubSeq(Append(L, p), g, k) = SubSeq(L, g, k)
         /\ SubSeq(L, g, Len(L)) \in Seq(S)
         /\ SubSeq(Append(L, p), g, Len(L) + 1) = Append(SubSeq(L, g, Len(L)), p)
         /\ g = Len(L) + 1 => SubSeq(L, g, Len(L)) = <<>>
<1>. DEFINE M == Append(L, p)
            n == Len(L)
<1>1. /\ n \in Nat /\ M[n + 1] = p /\ (\A i \in 1 .. n : M[i] = L[i] /\ L[i] \in S)
      /\ g \in 1 .. n + 1 /\ p \in S
  OBVIOUS
<1>. HIDE DEF M, n
<1>2. ASSUME NEW k \in 0 .. n PROVE SubSeq(M, g, k) = SubSeq(L, g, k)
  <2>1. k \in Int /\ g \in Int /\ (\A i \in g .. k : i \in 1 .. n /\ M[i] = L[i] /\ L[i] \in S)
    BY <1>1
  <2>2. /\ SubSeq(M, g, k) \in Seq(S) /\ SubSeq(L, g, k) \in Seq(S)
        /\ Len(SubSeq(M, g, k)) = (IF g <= k THEN k - g + 1 ELSE 0)
        /\ Len(SubSeq(L, g, k)) = (IF g <= k THEN k - g + 1 ELSE 0)
        /\ \A i \in 1 .. k - g + 1 : SubSeq(M, g, k)[i] = M[g + i - 1]
        /\ \A i \in 1 .. k - g + 1 : SubSeq(L, g, k)[i] = L[g + i - 1]
    <3>1. \A i \in g .. k : M[i] \in S
      BY <2>1
    <3>2. \A i \in g .. k : L[i] \in S
      BY <2>1
    <3>. QED BY <2>1, <3>1, <3>2, SubSeqProperties
  <2>3. \A i \in 1 .. k - g + 1 : g + i - 1 \in g .. k
    BY <2>1
  <2>4. \A i \in 1 .. Len(SubSeq(M, g, k)) : i \in 1 .. k - g + 1
    BY <2>1, <2>2
  <2>. QED BY <2>1, <2>2, <2>3, <2>4, SeqEqual
<1>3. /\ SubSeq(L, g, n) \in Seq(S) /\ Len(SubSeq(L, g, n)) = n - g + 1
      /\ \A i \in 1 .. n - g + 1 : SubSeq(L, g, n)[i] = L[g + i - 1]
  <2>1. n \in Int /\ g \in Int /\ \A i \in g .. n : L[i] \in S
    BY <1>1
  <2>2. (IF g <= n THEN n - g + 1 ELSE 0) = n - g + 1
    BY <1>1
  <2>. QED BY <2>1, <2>2, SubSeqProperties
<1>4. /\ SubSeq(M, g, n + 1) \in Seq(S) /\ Len(SubSeq(M, g, n + 1)) = n - g + 2
      /\ \A i \in 1 .. n - g + 2 : SubSeq(M, g, n + 1)[i] = M[g + i - 1]
  <2>1. n + 1 \in Int /\ g \in Int /\ \A i \in g .. n + 1 : M[i] \in S
    <3>1. \A i \in g .. n + 1 : i \in 1 .. n \/ i = n + 1
      BY <1>1
    <3>. QED BY <1>1, <3>1
  <2>2. /\ (IF g <= n + 1 THEN (n + 1) - g + 1 ELSE 0) = n - g + 2
        /\ (n + 1) - g + 1 = n - g + 2
    BY <1>1
  <2>. DEFINE e == n + 1
  <2>. HIDE DEF e
  <2>3. /\ SubSeq(M, g, e) \in Seq(S)
        /\ Len(SubSeq(M, g, e)) = IF g <= e THEN e - g + 1 ELSE 0
        /\ \A i \in 1 .. e - g + 1 : SubSeq(M, g, e)[i] = M[g + i - 1]
    BY <2>1, SubSeqProperties DEF e
  <2>. QED BY <2>2, <2>3 DEF e
<1>5. SubSeq(M, g, n + 1) = Append(SubSeq(L, g, n), p)
  <2>. DEFINE A == Append(SubSeq(L, g, n), p)
  <2>1. /\ A \in Seq(S) /\ Len(A) = n - g + 2 /\ A[n - g + 2] = p
        /\ \A i \in 1 .. n - g + 1 : A[i] = SubSeq(L, g, n)[i]
    BY <1>1, <1>3
  <2>. HIDE DEF A
  <2>2. ASSUME NEW i \in 1 .. n - g + 2 PROVE SubSeq(M, g, n + 1)[i] = A[i]
    <3>1. CASE i = n - g + 2
      <4>1. g + i - 1 = n + 1
        BY <1>1, <3>1
      <4>. QED BY <1>1, <1>4, <2>1, <3>1, <4>1
    <3>2. CASE i # n - g + 2
      <4>1. i \in 1 .. n - g + 1 /\ g + i - 1 \in 1 .. n
        BY <1>1, <3>2
      <4>. QED BY <1>1, <1>3, <1>4, <2>1, <4>1
    <3>. QED BY <3>1, <3>2
  <2>3. SubSeq(M, g, n + 1) = A
    BY <1>4, <2>1, <2>2, SeqEqual
  <2>. QED BY <2>3 DEF A
<1>6. g = n + 1 => SubSeq(L, g, n) = <<>>
  BY <1>1, SubSeqEmpty
<1>. QED BY <1>2, <1>3, <1>5, <1>6 DEF M, n

\* What a price does to an order whose gate is open.
LEMMA RatchetIs ==
  ASSUME NEW o \in Stops, NEW K \in Seq(StopPrices), NEW p \in StopPrices,
         NEW x \in StopLoss!OrderRecords, SameTerms(x, o),
         IsBest(o, K, x.best), IsStop(o, K, x.stopPrice)
  PROVE  LET r == StopLoss!Ratcheted(x, p)
         IN  /\ r \in StopLoss!OrderRecords /\ SameTerms(r, x)
             /\ r.status = x.status /\ r.triggerPrice = x.triggerPrice
             /\ IsBest(o, Append(K, p), r.best) /\ IsStop(o, Append(K, p), r.stopPrice)
<1>. DEFINE r == StopLoss!Ratcheted(x, p)
            M == Append(K, p)
            best == IF x.best = None \/ StopLoss!Beyond(x, p, x.best) THEN p ELSE x.best
            stopAt == StopLoss!Candidate(x, best)
            now == IF StopLoss!Beyond(x, stopAt, x.stopPrice) THEN stopAt ELSE x.stopPrice
<1>1. /\ p \in Int /\ None \notin Int /\ x.stopPrice \in Int /\ o.side \in {"BUY", "SELL"}
      /\ o.stopPrice \in Int /\ x.best \in Int \cup {None}
  BY TrailingAssumption, MadeOrder DEF StopLoss!StopsAssumption, StopLoss!OrderRecords
<1>2. PricesOf(M) = PricesOf(K) \cup {p} /\ PricesOf(K) \subseteq Int /\ M # <<>>
  <2>1. /\ \A j \in 1 .. Len(K) : M[j] = K[j] /\ K[j] \in Int
        /\ Len(M) = Len(K) + 1 /\ M[Len(K) + 1] = p /\ Len(K) \in Nat /\ M # <<>>
    <3>1. /\ \A j \in 1 .. Len(K) : M[j] = K[j] /\ K[j] \in StopPrices
          /\ Len(M) = Len(K) + 1 /\ M[Len(K) + 1] = p /\ Len(K) \in Nat /\ M # <<>>
      OBVIOUS
    <3>. HIDE DEF M
    <3>. QED BY <3>1, TrailingAssumption DEF StopLoss!StopsAssumption
  <2>2. 1 .. Len(M) = (1 .. Len(K)) \cup {Len(K) + 1}
    BY <2>1
  <2>. HIDE DEF M
  <2>. QED BY <2>1, <2>2 DEF PricesOf
<1>3. r = [[x EXCEPT !.best = best] EXCEPT !.stopPrice = now]
  BY DEF StopLoss!Ratcheted
<1>. HIDE DEF M
<1>4. /\ best \in Int /\ best \in PricesOf(M)
      /\ \A q \in PricesOf(M) : ~StopLoss!Beyond(o, q, best)
  <2>1. \A a, b \in Int : StopLoss!Beyond(x, a, b) <=> IF o.side = "SELL" THEN a > b ELSE a < b
    BY <1>1, BeyondIs, SameCandidate
  <2>2. \A a, b \in Int : StopLoss!Beyond(o, a, b) <=> IF o.side = "SELL" THEN a > b ELSE a < b
    BY <1>1, BeyondIs
  <2>3. CASE K = <<>>
    <3>1. PricesOf(K) = {} /\ x.best = None
      BY <2>3 DEF PricesOf, IsBest
    <3>. QED BY <1>1, <1>2, <2>2, <3>1
  <2>4. CASE K # <<>>
    <3>1. x.best \in PricesOf(K) /\ \A q \in PricesOf(K) : ~StopLoss!Beyond(o, q, x.best)
      BY <2>4 DEF IsBest
    <3>2. x.best \in Int /\ x.best # None
      BY <1>1, <1>2, <3>1
    <3>3. best = p \/ best = x.best
      OBVIOUS
    <3>4. ASSUME NEW q \in PricesOf(M) PROVE ~StopLoss!Beyond(o, q, best)
      <4>1. q \in Int /\ (q = p \/ q \in PricesOf(K))
        BY <1>1, <1>2
      <4>2. q \in PricesOf(K) => ~StopLoss!Beyond(o, q, x.best)
        BY <3>1
      <4>. QED BY <1>1, <2>1, <2>2, <3>2, <4>1, <4>2
    <3>. QED BY <1>1, <1>2, <3>1, <3>2, <3>3, <3>4
  <2>. QED BY <2>3, <2>4
<1>5. x.best # None => x.best \in PricesOf(K)
  BY DEF IsBest
<1>6. best = p \/ best \in PricesOf(K)
  BY <1>5
<1>. HIDE DEF best
<1>7. /\ stopAt = StopLoss!Candidate(o, best) /\ stopAt \in Int
      /\ \A q \in PricesOf(M) : StopLoss!Candidate(o, q) \in Int
                                /\ ~StopLoss!Beyond(o, StopLoss!Candidate(o, q), stopAt)
  <2>1. stopAt = StopLoss!Candidate(o, best)
    BY SameCandidate
  <2>2. stopAt \in Int
    BY <1>4, <2>1, CandidateGrows
  <2>. HIDE DEF stopAt
  <2>3. ASSUME NEW q \in PricesOf(M)
        PROVE  /\ StopLoss!Candidate(o, q) \in Int
               /\ ~StopLoss!Beyond(o, StopLoss!Candidate(o, q), stopAt)
    <3>1. q \in Int /\ ~StopLoss!Beyond(o, q, best)
      BY <1>1, <1>2, <1>4
    <3>2. IF o.side = "SELL" THEN q =< best ELSE best =< q
      BY <1>1, <1>4, <3>1, BeyondIs
    <3>3. /\ StopLoss!Candidate(o, q) \in Int /\ StopLoss!Candidate(o, best) \in Int
          /\ (q =< best => StopLoss!Candidate(o, q) =< StopLoss!Candidate(o, best))
          /\ (best =< q => StopLoss!Candidate(o, best) =< StopLoss!Candidate(o, q))
      BY <1>4, <3>1, CandidateGrows
    <3>. QED BY <1>1, <2>1, <3>2, <3>3, BeyondIs
  <2>. QED BY <2>1, <2>2, <2>3
<1>. HIDE DEF stopAt
<1>8. now \in Int /\ (now = stopAt \/ now = x.stopPrice)
  BY <1>1, <1>7
<1>9. ~StopLoss!Beyond(o, stopAt, now) /\ ~StopLoss!Beyond(o, x.stopPrice, now)
  <2>1. StopLoss!Beyond(x, stopAt, x.stopPrice) <=> StopLoss!Beyond(o, stopAt, x.stopPrice)
    BY SameCandidate
  <2>2. \A a, b \in Int : StopLoss!Beyond(o, a, b) <=> IF o.side = "SELL" THEN a > b ELSE a < b
    BY <1>1, BeyondIs
  <2>. QED BY <1>1, <1>7, <2>1, <2>2
<1>. HIDE DEF now
<1>10. /\ r \in StopLoss!OrderRecords /\ SameTerms(r, x)
       /\ r.status = x.status /\ r.triggerPrice = x.triggerPrice
       /\ r.best = best /\ r.stopPrice = now
  BY <1>3, <1>4, <1>8 DEF StopLoss!OrderRecords, SameTerms
<1>. HIDE DEF r
<1>11. IsBest(o, M, best)
  BY <1>2, <1>4 DEF IsBest
<1>12. IsStop(o, M, now)
  <2>1. now \in {o.stopPrice} \cup {StopLoss!Candidate(o, q) : q \in PricesOf(M)}
    BY <1>2, <1>4, <1>7, <1>8 DEF IsStop
  <2>2. \A a, b \in Int : StopLoss!Beyond(o, a, b) <=> IF o.side = "SELL" THEN a > b ELSE a < b
    BY <1>1, BeyondIs
  <2>3. ~StopLoss!Beyond(o, o.stopPrice, now)
    <3>1. ~StopLoss!Beyond(o, o.stopPrice, x.stopPrice)
      BY DEF IsStop
    <3>. QED BY <1>1, <1>8, <1>9, <2>2, <3>1
  <2>4. ASSUME NEW q \in PricesOf(M) PROVE ~StopLoss!Beyond(o, StopLoss!Candidate(o, q), now)
    BY <1>1, <1>7, <1>8, <1>9, <2>2
  <2>. QED BY <2>1, <2>3, <2>4 DEF IsStop
<1>. QED BY <1>10, <1>11, <1>12 DEF r, M

LEMMA EvaluatedIs ==
  ASSUME NEW o \in Stops, NEW L \in Seq(StopPrices), NEW p \in StopPrices,
         NEW x, Follows(o, L, x), StopLoss!Open(x)
  PROVE  Follows(o, Append(L, p), StopLoss!Evaluated(x, p))
<1>. DEFINE M == Append(L, p)
            r == StopLoss!Evaluated(x, p)
            g == StopLoss!GateAt(o, L)
            h == StopLoss!GateAt(o, M)
            n == Len(L)
            K == SubSeq(L, g, n)
<1>1. /\ M \in Seq(StopPrices) /\ n \in Nat /\ Len(M) = n + 1 /\ M[n + 1] = p
      /\ (\A k \in 1 .. n : M[k] = L[k] /\ L[k] \in Int) /\ p \in Int
  <2>1. /\ M \in Seq(StopPrices) /\ n \in Nat /\ Len(M) = n + 1 /\ M[n + 1] = p
        /\ \A k \in 1 .. n : M[k] = L[k] /\ L[k] \in StopPrices
    OBVIOUS
  <2>. HIDE DEF M, n
  <2>. QED BY <2>1, TrailingAssumption DEF StopLoss!StopsAssumption
<1>2. /\ x \in StopLoss!OrderRecords /\ SameTerms(x, o) /\ OpenAfter(o, L, x)
  BY DEF Follows
<1>3. /\ g \in 1 .. n + 1 /\ (\A k \in 1 .. g - 1 : ~StopLoss!Activates(o, L[k]))
      /\ (g =< n => StopLoss!Activates(o, L[g]))
  BY GateIs
<1>4. /\ x.triggerPrice = None /\ (\A k \in g .. n : ~Hit(o, L, g, k))
      /\ IsBest(o, K, x.best) /\ IsStop(o, K, x.stopPrice)
      /\ x.status = IF g > n THEN o.status ELSE "ACTIVE"
  BY <1>2 DEF OpenAfter
<1>. HIDE DEF M, n, r
<1>5. /\ (\A k \in 1 .. h - 1 : ~StopLoss!Activates(o, M[k])) /\ h \in 1 .. n + 2
      /\ \A m \in 1 .. n + 2 :
           /\ \A k \in 1 .. m - 1 : ~StopLoss!Activates(o, M[k])
           /\ m =< n + 1 => StopLoss!Activates(o, M[m])
           => h = m
  <2>1. Len(M) + 1 = n + 2
    BY <1>1
  <2>. QED BY <1>1, <2>1, GateIs
<1>. HIDE DEF g, h
<1>6. StopLoss!Activates(x, p) <=> (g =< n \/ StopLoss!Activates(o, p))
  <2>1. StopLoss!Activates(x, p) <=> (x.status = "ACTIVE" \/ StopLoss!Activates(o, p))
    BY <1>2, <1>3, <1>4, SameCandidate DEF StopLoss!Activates, SameTerms
  <2>2. g > n /\ x.status = "ACTIVE" => StopLoss!Activates(o, p)
    BY <1>4 DEF StopLoss!Activates
  <2>. QED BY <1>1, <1>3, <1>4, <2>1, <2>2
<1>7. CASE ~StopLoss!Activates(x, p)
  <2>1. r = x
    BY <1>7 DEF StopLoss!Evaluated, r
  <2>2. g = n + 1 /\ ~StopLoss!Activates(o, p)
    BY <1>1, <1>3, <1>6, <1>7
  <2>3. h = n + 2
    <3>1. ASSUME NEW k \in 1 .. n + 1 PROVE ~StopLoss!Activates(o, M[k])
      BY <1>1, <1>3, <2>2
    <3>2. n + 2 \in 1 .. n + 2 /\ (n + 2) - 1 = n + 1 /\ ~(n + 2 =< n + 1)
      BY <1>1
    <3>. QED BY <1>5, <3>1, <3>2
  <2>4. K = <<>> /\ SubSeq(M, h, Len(M)) = <<>>
    <3>1. K = <<>>
      BY <1>1, <1>3, <2>2, LongerSequence DEF n
    <3>. QED BY <1>1, <2>3, <3>1, SubSeqEmpty
  <2>5. OpenAfter(o, M, x)
    <3>1. \A k \in h .. Len(M) : FALSE
      BY <1>1, <2>3
    <3>2. IsBest(o, <<>>, x.best) /\ IsStop(o, <<>>, x.stopPrice)
      BY <1>4, <2>4
    <3>3. h > Len(M) /\ x.status = o.status
      BY <1>1, <1>4, <2>2, <2>3
    <3>. QED BY <1>4, <2>4, <3>1, <3>2, <3>3 DEF OpenAfter, h
  <2>. QED BY <1>2, <2>1, <2>5 DEF Follows, M, r
<1>8. CASE StopLoss!Activates(x, p)
  <2>1. h = g
    <3>1. ASSUME NEW k \in 1 .. g - 1 PROVE ~StopLoss!Activates(o, M[k])
      BY <1>1, <1>3
    <3>2. StopLoss!Activates(o, M[g]) /\ g \in 1 .. n + 2
      BY <1>1, <1>3, <1>6, <1>8
    <3>. QED BY <1>5, <3>1, <3>2
  <2>2. /\ \A k \in 0 .. n : SubSeq(M, g, k) = SubSeq(L, g, k)
        /\ K \in Seq(StopPrices) /\ SubSeq(M, g, n + 1) = Append(K, p)
    <3>1. g \in 1 .. Len(L) + 1
      BY <1>3 DEF n
    <3>2. /\ \A k \in 0 .. Len(L) : SubSeq(Append(L, p), g, k) = SubSeq(L, g, k)
          /\ SubSeq(L, g, Len(L)) \in Seq(StopPrices)
          /\ SubSeq(Append(L, p), g, Len(L) + 1) = Append(SubSeq(L, g, Len(L)), p)
      BY <3>1, LongerSequence
    <3>. QED BY <3>2 DEF M, n, K
  <2>3. ASSUME NEW k \in g .. n PROVE ~Hit(o, M, g, k)
    <3>1. ~Hit(o, L, g, k) /\ M[k] = L[k] /\ k - 1 \in 0 .. n
      BY <1>1, <1>3, <1>4
    <3>. QED BY <2>2, <3>1 DEF Hit
  <2>. HIDE DEF K
  <2>4. StopLoss!StopAfter(o, K) = x.stopPrice /\ x.stopPrice \in Int
    BY <1>4, <2>2, StopIs
  <2>5. Hit(o, M, g, n + 1) <=> StopLoss!Breached(x, p)
    <3>1. (n + 1) - 1 = n /\ n \in 0 .. n /\ M[n + 1] = p
      BY <1>1
    <3>2. SubSeq(M, g, n) = K
      BY <1>1, <2>2 DEF K
    <3>3. Hit(o, M, g, n + 1) <=> ~StopLoss!Beyond(o, p, x.stopPrice)
      BY <2>4, <3>1, <3>2 DEF Hit
    <3>. QED BY <1>2, <3>3, SameCandidate DEF StopLoss!Breached
  <2>. DEFINE active == [x EXCEPT !.status = "ACTIVE"]
  <2>6. /\ active \in StopLoss!OrderRecords /\ SameTerms(active, o) /\ active.status = "ACTIVE"
        /\ active.best = x.best /\ active.stopPrice = x.stopPrice
        /\ active.triggerPrice = x.triggerPrice
    BY <1>2 DEF StopLoss!OrderRecords, SameTerms
  <2>7. StopLoss!Breached(active, p) <=> StopLoss!Breached(x, p)
    BY <1>2, <2>6, SameCandidate DEF StopLoss!Breached
  <2>8. r = IF StopLoss!Breached(active, p)
            THEN [[active EXCEPT !.status = "TRIGGERED"] EXCEPT !.triggerPrice = p]
            ELSE StopLoss!Ratcheted(active, p)
    BY <1>8 DEF StopLoss!Evaluated, r
  <2>. HIDE DEF active
  <2>9. CASE StopLoss!Breached(x, p)
    <3>1. /\ r \in StopLoss!OrderRecords /\ SameTerms(r, o) /\ r.status = "TRIGGERED"
          /\ r.triggerPrice = p /\ r.stopPrice = x.stopPrice
      BY <1>1, <2>6, <2>7, <2>8, <2>9 DEF StopLoss!OrderRecords, SameTerms
    <3>. DEFINE hits == {k \in h .. Len(M) : Hit(o, M, h, k)}
    <3>2. hits = {Len(M)}
      <4>1. ASSUME NEW k \in g .. n + 1 PROVE k \in g .. n \/ k = n + 1
        BY <1>1, <1>3
      <4>2. n + 1 \in g .. n + 1
        BY <1>1, <1>3
      <4>. QED BY <1>1, <2>1, <2>3, <2>5, <2>9, <4>1, <4>2
    <3>3. SubSeq(M, h, Len(M) - 1) = K
      <4>1. Len(M) - 1 = n /\ n \in 0 .. n
        BY <1>1
      <4>. QED BY <2>1, <2>2, <4>1 DEF K
    <3>4. r.triggerPrice # None
      BY <1>1, <3>1, MadeOrder
    <3>. HIDE DEF hits
    <3>5. (IF hits = {} THEN Len(M) ELSE Len(M) - 1) = Len(M) - 1
      BY <3>2
    <3>6. Stands(o, M, r)
      <4>1. /\ hits \subseteq {Len(M)} /\ hits # {}
            /\ r.stopPrice = StopLoss!StopAfter(o, SubSeq(M, h, IF hits = {} THEN Len(M) ELSE Len(M) - 1))
        BY <2>4, <3>1, <3>2, <3>3, <3>5
      <4>. QED BY <3>1, <3>4, <4>1 DEF Stands, hits, h
    <3>. QED BY <3>1, <3>6 DEF Follows, StopLoss!Open, M, r
  <2>10. CASE ~StopLoss!Breached(x, p)
    <3>1. r = StopLoss!Ratcheted(active, p)
      BY <2>7, <2>8, <2>10
    <3>2. IsBest(o, K, active.best) /\ IsStop(o, K, active.stopPrice)
      BY <1>4, <2>6
    <3>3. /\ r \in StopLoss!OrderRecords /\ SameTerms(r, active)
          /\ r.status = active.status /\ r.triggerPrice = active.triggerPrice
          /\ IsBest(o, Append(K, p), r.best) /\ IsStop(o, Append(K, p), r.stopPrice)
      BY <2>2, <2>6, <3>1, <3>2, RatchetIs
    <3>4. SameTerms(r, o)
      BY <2>6, <3>3 DEF SameTerms
    <3>5. OpenAfter(o, M, r)
      <4>1. ASSUME NEW k \in g .. n + 1 PROVE ~Hit(o, M, g, k)
        <5>1. k \in g .. n \/ k = n + 1
          BY <1>1, <1>3
        <5>. QED BY <2>3, <2>5, <2>10, <5>1
      <4>2. SubSeq(M, h, Len(M)) = Append(K, p) /\ ~(h > Len(M)) /\ \A k \in h .. Len(M) : k \in g .. n + 1
        BY <1>1, <1>3, <2>1, <2>2, <1>6, <1>8, <1>5
      <4>. QED BY <1>4, <2>1, <2>6, <3>3, <4>1, <4>2 DEF OpenAfter, h
    <3>. QED BY <2>6, <3>3, <3>4, <3>5 DEF Follows, StopLoss!Open, M, r
  <2>. QED BY <2>9, <2>10
<1>. QED BY <1>7, <1>8

LEMMA RatchetTightens ==
  ASSUME NEW o \in Stops, NEW x \in StopLoss!OrderRecords, SameTerms(x, o), NEW q \in Int
  PROVE  LET r == StopLoss!Ratcheted(x, q)
         IN  /\ r.stopPrice \in Int /\ x.stopPrice \in Int
             /\ ~StopLoss!Beyond(o, x.stopPrice, r.stopPrice)
             /\ ~StopLoss!Beyond(o, StopLoss!Candidate(o, q), r.stopPrice)
<1>. DEFINE best == IF x.best = None \/ StopLoss!Beyond(x, q, x.best) THEN q ELSE x.best
            stopAt == StopLoss!Candidate(x, best)
            now == IF StopLoss!Beyond(x, stopAt, x.stopPrice) THEN stopAt ELSE x.stopPrice
            r == StopLoss!Ratcheted(x, q)
<1>1. /\ x.stopPrice \in Int /\ o.side \in {"BUY", "SELL"} /\ x.best \in Int \cup {None}
      /\ x.side = o.side
  BY MadeOrder DEF StopLoss!OrderRecords, SameTerms
<1>2. r.stopPrice = now
  <2>1. r = [[x EXCEPT !.best = best] EXCEPT !.stopPrice = now]
    BY DEF StopLoss!Ratcheted
  <2>. HIDE DEF r, best, now
  <2>. QED BY <2>1 DEF StopLoss!OrderRecords
<1>. HIDE DEF r
<1>3. \A a, b \in Int : StopLoss!Beyond(o, a, b) <=> IF o.side = "SELL" THEN a > b ELSE a < b
  BY <1>1, BeyondIs
<1>4. \A a, b : StopLoss!Beyond(x, a, b) <=> StopLoss!Beyond(o, a, b)
  BY SameCandidate
<1>5. best \in Int /\ ~StopLoss!Beyond(o, q, best)
  BY <1>1, <1>3, <1>4
<1>. HIDE DEF best
<1>6. /\ stopAt \in Int /\ StopLoss!Candidate(o, q) \in Int
      /\ ~StopLoss!Beyond(o, StopLoss!Candidate(o, q), stopAt)
  <2>1. stopAt = StopLoss!Candidate(o, best)
    BY SameCandidate
  <2>2. IF o.side = "SELL" THEN q =< best ELSE best =< q
    BY <1>3, <1>5
  <2>3. /\ StopLoss!Candidate(o, q) \in Int /\ StopLoss!Candidate(o, best) \in Int
        /\ (q =< best => StopLoss!Candidate(o, q) =< StopLoss!Candidate(o, best))
        /\ (best =< q => StopLoss!Candidate(o, best) =< StopLoss!Candidate(o, q))
    BY <1>5, CandidateGrows
  <2>. HIDE DEF stopAt
  <2>. QED BY <1>3, <2>1, <2>2, <2>3
<1>. HIDE DEF stopAt
<1>7. /\ now \in Int /\ ~StopLoss!Beyond(o, x.stopPrice, now)
      /\ ~StopLoss!Beyond(o, StopLoss!Candidate(o, q), now)
  BY <1>1, <1>3, <1>4, <1>6
<1>. QED BY <1>1, <1>2, <1>7 DEF r

\* An open order has done with a price when its stop is no looser than the price
\* allows, or the price did not open its gate.
Settled(x, p) ==
  /\ x.status = "ACTIVE" => ~StopLoss!Beyond(x, StopLoss!Candidate(x, p), x.stopPrice)
  /\ x.status = "PENDING" => ~StopLoss!Activates(x, p)

\* It has done with the price of a tick, and remains so with all others.
LEMMA SettledStays ==
  ASSUME NEW o \in Stops, NEW x \in StopLoss!OrderRecords, SameTerms(x, o), StopLoss!Open(x),
         NEW p \in StopPrices, NEW q \in StopPrices, p = q \/ Settled(x, p),
         StopLoss!Open(StopLoss!Evaluated(x, q))
  PROVE  Settled(StopLoss!Evaluated(x, q), p)
<1>. DEFINE r == StopLoss!Evaluated(x, q)
            active == [x EXCEPT !.status = "ACTIVE"]
<1>1. p \in Int /\ q \in Int /\ None \notin Int /\ o.side \in {"BUY", "SELL"}
  BY TrailingAssumption, MadeOrder DEF StopLoss!StopsAssumption
<1>2. CASE ~StopLoss!Activates(x, q)
  <2>1. r = x
    BY <1>2 DEF StopLoss!Evaluated
  <2>2. x.status = "PENDING"
    BY <1>2 DEF StopLoss!Activates, StopLoss!Open
  <2>. HIDE DEF r
  <2>. QED BY <1>2, <2>1, <2>2 DEF Settled, r
<1>3. CASE StopLoss!Activates(x, q)
  <2>1. /\ active \in StopLoss!OrderRecords /\ SameTerms(active, o) /\ active.status = "ACTIVE"
        /\ active.stopPrice = x.stopPrice
    BY DEF StopLoss!OrderRecords, SameTerms
  <2>2. r = IF StopLoss!Breached(active, q)
            THEN [[active EXCEPT !.status = "TRIGGERED"] EXCEPT !.triggerPrice = q]
            ELSE StopLoss!Ratcheted(active, q)
    BY <1>3 DEF StopLoss!Evaluated
  <2>3. StopLoss!Open(r)
    OBVIOUS
  <2>. HIDE DEF r, active
  <2>4. ~StopLoss!Breached(active, q)
    <3>1. [[active EXCEPT !.status = "TRIGGERED"] EXCEPT !.triggerPrice = q].status = "TRIGGERED"
      BY <2>1 DEF StopLoss!OrderRecords
    <3>. QED BY <2>2, <2>3, <3>1 DEF StopLoss!Open
  <2>5. r = StopLoss!Ratcheted(active, q)
    BY <2>2, <2>4
  <2>6. /\ r.stopPrice \in Int /\ x.stopPrice \in Int
        /\ ~StopLoss!Beyond(o, x.stopPrice, r.stopPrice)
        /\ ~StopLoss!Beyond(o, StopLoss!Candidate(o, q), r.stopPrice)
    BY <1>1, <2>1, <2>5, RatchetTightens
  <2>7. SameTerms(r, o) /\ r.status = "ACTIVE"
    BY <2>1, <2>5 DEF StopLoss!Ratcheted, StopLoss!OrderRecords, SameTerms
  <2>8. \A a, b \in Int : StopLoss!Beyond(o, a, b) <=> IF o.side = "SELL" THEN a > b ELSE a < b
    BY <1>1, BeyondIs
  <2>9. /\ StopLoss!Candidate(o, p) \in Int /\ StopLoss!Candidate(o, q) \in Int
        /\ (p =< q => StopLoss!Candidate(o, p) =< StopLoss!Candidate(o, q))
        /\ (q =< p => StopLoss!Candidate(o, q) =< StopLoss!Candidate(o, p))
    BY <1>1, CandidateGrows
  <2>10. ~StopLoss!Beyond(o, StopLoss!Candidate(o, p), r.stopPrice)
    <3>1. CASE p = q
      BY <2>6, <3>1
    <3>2. CASE Settled(x, p) /\ x.status = "ACTIVE"
      <4>1. ~StopLoss!Beyond(o, StopLoss!Candidate(o, p), x.stopPrice)
        BY <3>2, SameCandidate DEF Settled
      <4>. QED BY <2>6, <2>8, <2>9, <4>1
    <3>3. CASE Settled(x, p) /\ x.status # "ACTIVE"
      <4>1. x.status = "PENDING" /\ ~StopLoss!Activates(x, p)
        BY <3>3 DEF Settled, StopLoss!Open
      <4>. DEFINE a == x.activation
      <4>2. /\ a \in Int /\ StopLoss!Beyond(x, a, p) /\ ~StopLoss!Beyond(x, a, q)
        BY <1>3, <4>1 DEF StopLoss!Activates, StopLoss!OrderRecords
      <4>3. StopLoss!Beyond(o, a, p) /\ ~StopLoss!Beyond(o, a, q)
        BY <4>2, SameCandidate
      <4>. HIDE DEF a
      <4>4. IF o.side = "SELL" THEN p =< q ELSE q =< p
        BY <1>1, <2>8, <4>2, <4>3
      <4>. QED BY <2>6, <2>8, <2>9, <4>4
    <3>. QED BY <3>1, <3>2, <3>3
  <2>11. ~StopLoss!Beyond(r, StopLoss!Candidate(r, p), r.stopPrice)
    BY <2>7, <2>10, SameCandidate
  <2>. QED BY <2>7, <2>11 DEF Settled, r
<1>. QED BY <1>2, <1>3

\* A tick never opens an order that is not, nor changes its terms.
LEMMA EvaluatedKeeps ==
  ASSUME NEW x \in StopLoss!OrderRecords, NEW p \in StopPrices
  PROVE  /\ ~StopLoss!Open(x) => StopLoss!Evaluated(x, p) = x
         /\ StopLoss!Evaluated(x, p).symbol = x.symbol
<1>. DEFINE active == [x EXCEPT !.status = "ACTIVE"]
<1>1. active.symbol = x.symbol /\ StopLoss!Ratcheted(active, p).symbol = x.symbol
  BY DEF StopLoss!Ratcheted, StopLoss!OrderRecords
<1>2. [[active EXCEPT !.status = "TRIGGERED"] EXCEPT !.triggerPrice = p].symbol = x.symbol
  BY DEF StopLoss!OrderRecords
<1>. QED BY <1>1, <1>2 DEF StopLoss!Evaluated

LEMMA FreshFollows ==
  ASSUME NEW o \in Stops
  PROVE  Follows(o, <<>>, o) /\ o \in StopLoss!OrderRecords
<1>1. StopLoss!GateAt(o, <<>>) = 1
  <2>1. <<>> \in Seq(StopPrices) /\ Len(<<>>) = 0
    OBVIOUS
  <2>2. StopLoss!GateAt(o, <<>>) \in 1 .. Len(<<>>) + 1
    BY <2>1, GateIs
  <2>. QED BY <2>1, <2>2
<1>2. SubSeq(<<>>, 1, 0) = <<>> /\ Len(<<>>) = 0 /\ PricesOf(<<>>) = {}
  BY SubSeqEmpty DEF PricesOf
<1>3. IsBest(o, <<>>, o.best) /\ IsStop(o, <<>>, o.stopPrice)
  BY <1>2, MadeOrder, BeyondIs DEF IsBest, IsStop
<1>4. OpenAfter(o, <<>>, o)
  <2>. DEFINE L == <<>>
              g == StopLoss!GateAt(o, L)
  <2>1. g > Len(L) /\ (\A k \in g .. Len(L) : FALSE) /\ SubSeq(L, g, Len(L)) = <<>>
    BY <1>1, <1>2
  <2>2. o.triggerPrice = None /\ IsBest(o, <<>>, o.best) /\ IsStop(o, <<>>, o.stopPrice)
    BY <1>3, MadeOrder
  <2>. HIDE DEF L
  <2>3. OpenAfter(o, L, o)
    BY <2>1, <2>2 DEF OpenAfter
  <2>. QED BY <2>3 DEF L
<1>. QED BY <1>4, MadeOrder DEF Follows, SameTerms, StopLoss!Open

LEMMA CancelledFollows ==
  ASSUME NEW o \in Stops, NEW L \in Seq(StopPrices), NEW x, Follows(o, L, x)
  PROVE  LET r == [x EXCEPT !.status = "CANCELLED"]
         IN  Follows(o, L, r) /\ ~StopLoss!Open(r) /\ r \in StopLoss!OrderRecords
<1>. DEFINE r == [x EXCEPT !.status = "CANCELLED"]
<1>1. Stands(o, L, x)
  BY GateIs, OpenStands DEF Follows
<1>2. x \in StopLoss!OrderRecords /\ SameTerms(x, o)
  BY DEF Follows
<1>3. /\ r \in StopLoss!OrderRecords /\ SameTerms(r, o) /\ r.status = "CANCELLED"
      /\ r.triggerPrice = x.triggerPrice /\ r.stopPrice = x.stopPrice
  BY <1>2 DEF StopLoss!OrderRecords, SameTerms
<1>. HIDE DEF r
<1>4. Stands(o, L, r)
  BY <1>1, <1>3 DEF Stands
<1>. QED BY <1>3, <1>4 DEF Follows, StopLoss!Open, r

LEMMA IdsOf ==
  ASSUME NEW S, NEW s \in Seq(S)
  PROVE  /\ StopLoss!ToSet(s) \subseteq S
         /\ \A e \in S : StopLoss!ToSet(Append(s, e)) = StopLoss!ToSet(s) \cup {e}
         /\ s # <<>> => /\ Head(s) \in StopLoss!ToSet(s)
                        /\ StopLoss!ToSet(Tail(s)) \subseteq StopLoss!ToSet(s)
                        /\ StopLoss!ToSet(s) \subseteq StopLoss!ToSet(Tail(s)) \cup {Head(s)}
<1>1. /\ DOMAIN s = 1 .. Len(s) /\ Len(s) \in Nat /\ \A i \in 1 .. Len(s) : s[i] \in S
  OBVIOUS
<1>2. StopLoss!ToSet(s) = {s[i] : i \in 1 .. Len(s)}
  BY <1>1 DEF StopLoss!ToSet
<1>3. ASSUME NEW e \in S PROVE StopLoss!ToSet(Append(s, e)) = StopLoss!ToSet(s) \cup {e}
  <2>. DEFINE t == Append(s, e)
  <2>1. /\ DOMAIN t = 1 .. Len(s) + 1 /\ t[Len(s) + 1] = e
        /\ \A i \in 1 .. Len(s) : t[i] = s[i]
    OBVIOUS
  <2>2. 1 .. Len(s) + 1 = (1 .. Len(s)) \cup {Len(s) + 1}
    BY <1>1
  <2>. HIDE DEF t
  <2>3. StopLoss!ToSet(t) = StopLoss!ToSet(s) \cup {e}
    BY <1>2, <2>1, <2>2 DEF StopLoss!ToSet
  <2>. QED BY <2>3 DEF t
<1>4. ASSUME s # <<>>
      PROVE  /\ Head(s) \in StopLoss!ToSet(s)
             /\ StopLoss!ToSet(Tail(s)) \subseteq StopLoss!ToSet(s)
             /\ StopLoss!ToSet(s) \subseteq StopLoss!ToSet(Tail(s)) \cup {Head(s)}
  <2>. DEFINE t == Tail(s)
  <2>1. /\ DOMAIN t = 1 .. Len(s) - 1 /\ (\A i \in 1 .. Len(s) - 1 : t[i] = s[i + 1])
        /\ Head(s) = s[1] /\ Len(s) > 0
    <3>1. /\ t \in Seq(S) /\ Len(t) = Len(s) - 1 /\ (\A i \in 1 .. Len(t) : t[i] = s[i + 1])
          /\ Head(s) = s[1] /\ Len(s) > 0
      BY <1>4, HeadTailProperties
    <3>. HIDE DEF t
    <3>2. DOMAIN t = 1 .. Len(t)
      BY <3>1
    <3>. QED BY <3>1, <3>2
  <2>. HIDE DEF t
  <2>2. StopLoss!ToSet(t) = {s[i + 1] : i \in 1 .. Len(s) - 1}
    BY <2>1 DEF StopLoss!ToSet
  <2>3. \A i \in 1 .. Len(s) - 1 : i + 1 \in 1 .. Len(s)
    BY <1>1
  <2>4. \A i \in 1 .. Len(s) : i = 1 \/ (i - 1 \in 1 .. Len(s) - 1 /\ (i - 1) + 1 = i)
    BY <1>1
  <2>5. StopLoss!ToSet(s) \subseteq StopLoss!ToSet(t) \cup {Head(s)}
    <3>1. ASSUME NEW i \in 1 .. Len(s) PROVE s[i] \in StopLoss!ToSet(t) \cup {Head(s)}
      <4>1. CASE i = 1
        BY <2>1, <4>1
      <4>2. CASE i # 1
        <5>. DEFINE j == i - 1
        <5>1. j \in 1 .. Len(s) - 1 /\ j + 1 = i
          BY <2>4, <4>2
        <5>. HIDE DEF j
        <5>. QED BY <2>2, <5>1
      <4>. QED BY <4>1, <4>2
    <3>. QED BY <1>2, <3>1
  <2>6. Head(s) \in StopLoss!ToSet(s)
    BY <1>1, <1>2, <2>1
  <2>7. StopLoss!ToSet(t) \subseteq StopLoss!ToSet(s)
    BY <1>2, <2>2, <2>3
  <2>. QED BY <2>5, <2>6, <2>7 DEF t
<1>5. StopLoss!ToSet(s) \subseteq S
  BY <1>1, <1>2
<1>. QED BY <1>3, <1>4, <1>5

-----------------------------------------------------------------------------
Ticks ==
  [symbol : Symbols, price : StopPrices, calling : BOOLEAN,
   orders : Seq(StopIds), todo : Seq(StopIds)]

\* Every registered order follows its prices; the others have seen none.
OrdersHold(reg, st, md, lg) ==
  \A i \in StopIds :
    IF i \in StopLoss!ToSet(reg)
    THEN md[i] \in Stops /\ st[i] \in StopLoss!OrderRecords /\ Follows(md[i], lg[i], st[i])
    ELSE lg[i] = <<>>

\* A tick has reached the orders of its snapshot that it has no more to do.
TickHolds(f, reg, st, lg) ==
  /\ StopLoss!ToSet(f.todo) \subseteq StopLoss!ToSet(f.orders)
  /\ StopLoss!ToSet(f.orders) \subseteq StopLoss!ToSet(reg)
  /\ \A i \in StopLoss!ToSet(f.orders) \ StopLoss!ToSet(f.todo) :
       st[i].symbol = f.symbol /\ StopLoss!Open(st[i]) =>
         f.price \in StopLoss!ToSet(lg[i]) /\ Settled(st[i], f.price)

TypesHold(reg, fr, n, st, md, lg) ==
  /\ reg \in Seq(StopIds) /\ StopLoss!IsInjective(reg)
  /\ fr \in Seq(Ticks) /\ Len(fr) =< MaxNesting /\ n \in 0 .. MaxFed
  /\ DOMAIN st = StopIds /\ DOMAIN md = StopIds /\ lg \in [StopIds -> Seq(StopPrices)]
  /\ st = [i \in StopIds |-> st[i]] /\ md = [i \in StopIds |-> md[i]]

StopState(reg, fr, n, st, md, lg) ==
  /\ TypesHold(reg, fr, n, st, md, lg)
  /\ OrdersHold(reg, st, md, lg)
  /\ \A k \in DOMAIN fr : TickHolds(fr[k], reg, st, lg)

StopsInvariant == part = "stops" =>
  listening \in BOOLEAN /\ StopState(registered, frames, fed, stop, made, log)

LEMMA StopsPrimed ==
  ASSUME listening' \in BOOLEAN /\ StopState(registered', frames', fed', stop', made', log')
  PROVE  StopsInvariant'
BY DEF StopsInvariant

\* What is open has not changed.
OpenKept(reg, st, lg, sn, ln) ==
  \A i \in StopLoss!ToSet(reg) : StopLoss!Open(sn[i]) => sn[i] = st[i] /\ ln[i] = lg[i]

LEMMA TickStays ==
  ASSUME NEW f, NEW reg, NEW new, NEW st, NEW sn, NEW lg, NEW ln,
         TickHolds(f, reg, st, lg), OpenKept(reg, st, lg, sn, ln),
         StopLoss!ToSet(reg) \subseteq StopLoss!ToSet(new)
  PROVE  TickHolds(f, new, sn, ln)
BY DEF TickHolds, OpenKept

LEMMA StopsStart == PartsInit => StopsInvariant
<1>. SUFFICES ASSUME PartsInit, part = "stops"
              PROVE  listening \in BOOLEAN /\ StopState(registered, frames, fed, stop, made, log)
  BY DEF StopsInvariant
<1>1. /\ registered = <<>> /\ stop = [i \in StopIds |-> None] /\ listening = FALSE
      /\ frames = <<>> /\ fed = 0 /\ log = [i \in StopIds |-> <<>>] /\ made = stop
  BY DEF PartsInit, StopLoss!Init
<1>2. /\ <<>> \in Seq(StopIds) /\ <<>> \in Seq(Ticks) /\ <<>> \in Seq(StopPrices)
      /\ DOMAIN <<>> = {} /\ Len(<<>>) = 0
  OBVIOUS
<1>3. StopLoss!IsInjective(<<>>) /\ StopLoss!ToSet(<<>>) = {}
  BY <1>2 DEF StopLoss!IsInjective, StopLoss!ToSet
<1>4. TypesHold(registered, frames, fed, stop, made, log)
  BY <1>1, <1>2, <1>3, TrailingAssumption DEF TypesHold, StopLoss!StopsAssumption
<1>5. OrdersHold(registered, stop, made, log)
  BY <1>1, <1>3 DEF OrdersHold
<1>. QED BY <1>1, <1>2, <1>4, <1>5 DEF StopState

LEMMA RegisterStop ==
  ASSUME StopState(registered, frames, fed, stop, made, log),
         NEW i \in StopIds, NEW o \in Stops, StopLoss!register_order(i, o)
  PROVE  StopState(registered', frames', fed', stop', made', log')
<1>1. /\ i \notin StopLoss!ToSet(registered) /\ registered' = Append(registered, i)
      /\ stop' = [stop EXCEPT ![i] = o] /\ made' = [made EXCEPT ![i] = o]
      /\ frames' = frames /\ fed' = fed /\ log' = log
  BY DEF StopLoss!register_order
<1>2. /\ registered \in Seq(StopIds) /\ StopLoss!IsInjective(registered)
      /\ DOMAIN stop = StopIds /\ DOMAIN made = StopIds /\ frames \in Seq(Ticks)
      /\ stop = [j \in StopIds |-> stop[j]] /\ made = [j \in StopIds |-> made[j]]
  BY DEF StopState, TypesHold
<1>3. /\ stop'[i] = o /\ made'[i] = o
      /\ \A j \in StopIds \ {i} : stop'[j] = stop[j] /\ made'[j] = made[j]
      /\ DOMAIN stop' = StopIds /\ DOMAIN made' = StopIds
      /\ stop' = [j \in StopIds |-> stop'[j]] /\ made' = [j \in StopIds |-> made'[j]]
  BY <1>1, <1>2
<1>4. registered' \in Seq(StopIds) /\ StopLoss!ToSet(registered') = StopLoss!ToSet(registered) \cup {i}
  BY <1>1, <1>2, IdsOf
<1>5. StopLoss!IsInjective(registered')
  <2>. DEFINE s == registered'
  <2>1. /\ DOMAIN registered = 1 .. Len(registered) /\ DOMAIN s = 1 .. Len(registered) + 1
        /\ Len(registered) \in Nat /\ s[Len(registered) + 1] = i
        /\ \A j \in 1 .. Len(registered) : s[j] = registered[j]
    BY <1>1, <1>2
  <2>2. \A j \in 1 .. Len(registered) : registered[j] # i
    BY <1>1, <2>1 DEF StopLoss!ToSet
  <2>3. \A j \in 1 .. Len(registered) + 1 : j \in 1 .. Len(registered) \/ j = Len(registered) + 1
    BY <2>1
  <2>. HIDE DEF s
  <2>. QED BY <1>2, <2>1, <2>2, <2>3 DEF StopLoss!IsInjective, s
<1>6. TypesHold(registered', frames', fed', stop', made', log')
  BY <1>1, <1>3, <1>4, <1>5 DEF StopState, TypesHold
<1>7. OrdersHold(registered', stop', made', log')
  <2>1. log[i] = <<>>
    BY <1>1 DEF StopState, OrdersHold
  <2>2. Follows(o, log[i], o) /\ o \in StopLoss!OrderRecords
    BY <2>1, FreshFollows
  <2>. QED BY <1>1, <1>3, <1>4, <2>2 DEF StopState, OrdersHold
<1>8. \A k \in DOMAIN frames : TickHolds(frames[k], registered', stop', log')
  <2>1. OpenKept(registered, stop, log, stop', log')
    BY <1>1, <1>2, <1>3, IdsOf DEF OpenKept
  <2>2. \A k \in DOMAIN frames : TickHolds(frames[k], registered, stop, log)
    BY DEF StopState
  <2>. QED BY <1>4, <2>1, <2>2, TickStays
<1>. QED BY <1>1, <1>6, <1>7, <1>8 DEF StopState

LEMMA CancelStop ==
  ASSUME StopState(registered, frames, fed, stop, made, log),
         NEW i \in StopIds, StopLoss!cancel_order(i)
  PROVE  StopState(registered', frames', fed', stop', made', log')
<1>. DEFINE r == [stop[i] EXCEPT !.status = "CANCELLED"]
<1>1. /\ i \in StopLoss!ToSet(registered) /\ stop' = [stop EXCEPT ![i] = r]
      /\ registered' = registered /\ made' = made /\ frames' = frames /\ fed' = fed /\ log' = log
  BY DEF StopLoss!cancel_order
<1>2. /\ registered \in Seq(StopIds) /\ frames \in Seq(Ticks) /\ DOMAIN stop = StopIds
      /\ stop = [j \in StopIds |-> stop[j]] /\ log[i] \in Seq(StopPrices)
  BY DEF StopState, TypesHold
<1>3. made[i] \in Stops /\ Follows(made[i], log[i], stop[i])
  BY <1>1 DEF StopState, OrdersHold
<1>4. Follows(made[i], log[i], r) /\ ~StopLoss!Open(r) /\ r \in StopLoss!OrderRecords
  BY <1>2, <1>3, CancelledFollows
<1>. HIDE DEF r
<1>5. /\ stop'[i] = r /\ \A j \in StopIds \ {i} : stop'[j] = stop[j]
      /\ DOMAIN stop' = StopIds /\ stop' = [j \in StopIds |-> stop'[j]]
  BY <1>1, <1>2
<1>6. TypesHold(registered', frames', fed', stop', made', log')
  BY <1>1, <1>5 DEF StopState, TypesHold
<1>7. OrdersHold(registered', stop', made', log')
  BY <1>1, <1>4, <1>5 DEF StopState, OrdersHold
<1>8. \A k \in DOMAIN frames : TickHolds(frames[k], registered', stop', log')
  <2>1. OpenKept(registered, stop, log, stop', log')
    BY <1>1, <1>2, <1>4, <1>5, IdsOf DEF OpenKept
  <2>2. \A k \in DOMAIN frames : TickHolds(frames[k], registered, stop, log)
    BY DEF StopState
  <2>. QED BY <1>1, <2>1, <2>2, TickStays
<1>. QED BY <1>1, <1>6, <1>7, <1>8 DEF StopState

LEMMA FeedStop ==
  ASSUME StopState(registered, frames, fed, stop, made, log),
         NEW s \in Symbols, NEW p \in StopPrices, StopLoss!process_tick(s, p)
  PROVE  StopState(registered', frames', fed', stop', made', log')
<1>. DEFINE f == [symbol |-> s, price |-> p, calling |-> FALSE,
                  orders |-> registered, todo |-> registered]
<1>1. /\ fed < MaxFed /\ Len(frames) < MaxNesting /\ fed' = fed + 1
      /\ frames' = Append(frames, f)
      /\ registered' = registered /\ stop' = stop /\ made' = made /\ log' = log
  BY DEF StopLoss!process_tick
<1>2. registered \in Seq(StopIds) /\ frames \in Seq(Ticks) /\ fed \in 0 .. MaxFed
  BY DEF StopState, TypesHold
<1>3. f \in Ticks /\ TickHolds(f, registered, stop, log)
  BY <1>2 DEF Ticks, TickHolds
<1>. HIDE DEF f
<1>4. /\ frames' \in Seq(Ticks) /\ Len(frames') = Len(frames) + 1 /\ Len(frames) \in Nat
      /\ DOMAIN frames' = 1 .. Len(frames) + 1 /\ DOMAIN frames = 1 .. Len(frames)
      /\ frames'[Len(frames) + 1] = f /\ \A k \in 1 .. Len(frames) : frames'[k] = frames[k]
  BY <1>1, <1>2, <1>3
<1>5. fed' \in 0 .. MaxFed /\ Len(frames') =< MaxNesting
  BY <1>1, <1>2, <1>4, TrailingAssumption DEF StopLoss!StopsAssumption
<1>6. TypesHold(registered', frames', fed', stop', made', log')
  BY <1>1, <1>4, <1>5 DEF StopState, TypesHold
<1>7. ASSUME NEW k \in DOMAIN frames' PROVE TickHolds(frames'[k], registered, stop, log)
  <2>1. k = Len(frames) + 1 \/ k \in DOMAIN frames
    BY <1>4
  <2>. QED BY <1>3, <1>4, <2>1 DEF StopState
<1>. QED BY <1>1, <1>6, <1>7 DEF StopState

\* The innermost tick ends.
LEMMA EndStop ==
  ASSUME StopState(registered, frames, fed, stop, made, log), frames # <<>>,
         frames' = StopLoss!Front(frames), UNCHANGED <<registered, stop, listening, fed, log, made>>
  PROVE  StopState(registered', frames', fed', stop', made', log')
<1>. DEFINE n == Len(frames)
<1>1. frames \in Seq(Ticks) /\ n \in Nat /\ n > 0 /\ DOMAIN frames = 1 .. n /\ n =< MaxNesting
  BY DEF StopState, TypesHold
<1>2. frames' = SubSeq(frames, 1, n - 1)
  BY DEF StopLoss!Front
<1>. HIDE DEF n
<1>3. /\ frames' \in Seq(Ticks) /\ Len(frames') = n - 1
      /\ \A k \in 1 .. n - 1 : frames'[k] = frames[k]
  <2>1. \A k \in 1 .. n - 1 : frames[k] \in Ticks
    BY <1>1 DEF n
  <2>. QED BY <1>1, <1>2, <2>1, SubSeqProperties
<1>4. DOMAIN frames' = 1 .. n - 1
  BY <1>3
<1>5. n - 1 =< MaxNesting
  BY <1>1, TrailingAssumption DEF StopLoss!StopsAssumption
<1>6. TypesHold(registered', frames', fed', stop', made', log')
  BY <1>3, <1>5 DEF StopState, TypesHold
<1>7. ASSUME NEW k \in DOMAIN frames' PROVE TickHolds(frames'[k], registered, stop, log)
  <2>1. k \in DOMAIN frames /\ frames'[k] = frames[k]
    BY <1>1, <1>3, <1>4
  <2>. QED BY <2>1 DEF StopState
<1>. QED BY <1>6, <1>7 DEF StopState

\* The callback returns to the loop.
LEMMA ReturnStop ==
  ASSUME StopState(registered, frames, fed, stop, made, log), StopLoss!CallbackReturns
  PROVE  StopState(registered', frames', fed', stop', made', log')
<1>. DEFINE n == Len(frames)
            f == [frames[n] EXCEPT !.calling = FALSE]
<1>1. /\ frames # <<>> /\ frames' = [frames EXCEPT ![n] = f]
      /\ registered' = registered /\ stop' = stop /\ fed' = fed /\ log' = log /\ made' = made
  BY DEF StopLoss!CallbackReturns
<1>2. /\ frames \in Seq(Ticks) /\ n \in Nat /\ n > 0 /\ DOMAIN frames = 1 .. n
      /\ n =< MaxNesting /\ frames[n] \in Ticks /\ n \in DOMAIN frames
  BY <1>1 DEF StopState, TypesHold
<1>3. /\ f \in Ticks /\ f.symbol = frames[n].symbol /\ f.price = frames[n].price
      /\ f.orders = frames[n].orders /\ f.todo = frames[n].todo
  BY <1>2 DEF Ticks
<1>. HIDE DEF n, f
<1>4. /\ frames' \in Seq(Ticks) /\ Len(frames') = Len(frames) /\ DOMAIN frames' = DOMAIN frames
      /\ frames'[n] = f /\ \A k \in DOMAIN frames \ {n} : frames'[k] = frames[k]
  BY <1>1, <1>2, <1>3, ExceptSeq
<1>5. TypesHold(registered', frames', fed', stop', made', log')
  BY <1>1, <1>2, <1>4 DEF StopState, TypesHold, n
<1>6. TickHolds(f, registered, stop, log)
  BY <1>2, <1>3 DEF StopState, TickHolds
<1>7. \A k \in DOMAIN frames' : TickHolds(frames'[k], registered, stop, log)
  BY <1>4, <1>6 DEF StopState
<1>. QED BY <1>1, <1>5, <1>7 DEF StopState

\* One turn of the loop, of a tick that has other ticks around it or not.
LEMMA EvaluateStop ==
  ASSUME StopState(registered, frames, fed, stop, made, log), StopLoss!EvaluateNext
  PROVE  StopState(registered', frames', fed', stop', made', log')
<1>. DEFINE n == Len(frames)
            f == frames[n]
            i == Head(f.todo)
            x == stop[i]
            seesIt == x.symbol = f.symbol
            new == IF seesIt THEN StopLoss!Evaluated(x, f.price) ELSE x
            calls2 == (StopLoss!Open(x) /\ new.status = "TRIGGERED") /\ listening
            f1 == [f EXCEPT !.todo = Tail(f.todo)]
            f2 == [f1 EXCEPT !.calling = calls2]
            grown == Append(log[i], f.price)
<1>1. /\ frames # <<>> /\ f.todo # <<>> /\ stop' = [stop EXCEPT ![i] = new]
      /\ log' = IF seesIt /\ StopLoss!Open(x) THEN [log EXCEPT ![i] = grown] ELSE log
      /\ registered' = registered /\ fed' = fed /\ made' = made
  BY DEF StopLoss!EvaluateNext, StopLoss!InUserCode, StopLoss!top, StopLoss!Last
<1>2. /\ frames \in Seq(Ticks) /\ n \in Nat /\ DOMAIN frames = 1 .. n /\ n \in 1 .. Len(frames)
      /\ n =< MaxNesting /\ f \in Ticks /\ registered \in Seq(StopIds)
      /\ DOMAIN stop = StopIds /\ stop = [j \in StopIds |-> stop[j]]
      /\ log \in [StopIds -> Seq(StopPrices)]
  <2>1. /\ frames \in Seq(Ticks) /\ Len(frames) =< MaxNesting /\ registered \in Seq(StopIds)
        /\ DOMAIN stop = StopIds /\ stop = [j \in StopIds |-> stop[j]]
        /\ log \in [StopIds -> Seq(StopPrices)]
    BY DEF StopState, TypesHold
  <2>2. n \in Nat /\ DOMAIN frames = 1 .. n /\ n \in 1 .. Len(frames) /\ f \in Ticks
    <3>. HIDE DEF f
    <3>1. n \in Nat /\ DOMAIN frames = 1 .. n /\ n \in 1 .. Len(frames)
      BY <1>1, <2>1
    <3>. QED BY <2>1, <3>1 DEF f
  <2>. QED BY <2>1, <2>2
<1>3. /\ f.price \in StopPrices /\ f.orders \in Seq(StopIds) /\ f.todo \in Seq(StopIds)
      /\ TickHolds(f, registered, stop, log)
  BY <1>2 DEF Ticks, StopState
<1>4. frames' = [frames EXCEPT ![n] = f2]
  BY <1>1, <1>2 DEF StopLoss!EvaluateNext, StopLoss!InUserCode, StopLoss!top, StopLoss!Last
<1>5. calls2 \in BOOLEAN
  OBVIOUS
<1>. HIDE DEF calls2
<1>6. /\ f2 \in Ticks /\ f2.symbol = f.symbol /\ f2.price = f.price /\ f2.orders = f.orders
      /\ f2.todo = Tail(f.todo)
  <2>. DEFINE left == Tail(f.todo)
  <2>1. left \in Seq(StopIds)
    BY <1>1, <1>3, HeadTailProperties
  <2>. HIDE DEF f, left
  <2>2. /\ f1 \in Ticks /\ f1.symbol = f.symbol /\ f1.price = f.price
        /\ f1.orders = f.orders /\ f1.todo = left
    BY <1>2, <2>1 DEF Ticks, left
  <2>. HIDE DEF f1
  <2>. QED BY <1>5, <2>2 DEF Ticks, left
<1>. HIDE DEF f1, f2
<1>7. /\ frames' \in Seq(Ticks) /\ Len(frames') = n /\ DOMAIN frames' = DOMAIN frames
      /\ frames'[n] = f2 /\ \A k \in DOMAIN frames \ {n} : frames'[k] = frames[k]
  <2>. HIDE DEF f
  <2>1. /\ frames' \in Seq(Ticks) /\ Len(frames') = Len(frames)
        /\ \A k \in 1 .. Len(frames) : frames'[k] = IF k = n THEN f2 ELSE frames[k]
    BY <1>2, <1>4, <1>6, ExceptSeq
  <2>2. DOMAIN frames' = 1 .. Len(frames')
    BY <2>1
  <2>. QED BY <1>2, <2>1, <2>2
<1>. HIDE DEF f, n
<1>8. /\ i \in StopIds /\ i \in StopLoss!ToSet(registered)
      /\ i \in StopLoss!ToSet(f.todo) /\ i \in StopLoss!ToSet(f.orders)
      /\ StopLoss!ToSet(Tail(f.todo)) \subseteq StopLoss!ToSet(f.todo)
      /\ StopLoss!ToSet(f.todo) \subseteq StopLoss!ToSet(Tail(f.todo)) \cup {i}
  BY <1>1, <1>2, <1>3, IdsOf DEF TickHolds
<1>. HIDE DEF i
<1>9. /\ made[i] \in Stops /\ x \in StopLoss!OrderRecords /\ Follows(made[i], log[i], x)
      /\ SameTerms(x, made[i]) /\ log[i] \in Seq(StopPrices)
  BY <1>2, <1>8 DEF StopState, OrdersHold, Follows
<1>. HIDE DEF x
<1>10. /\ StopLoss!Open(new) => StopLoss!Open(x)
       /\ ~(seesIt /\ StopLoss!Open(x)) => new = x
       /\ new.symbol = x.symbol
  BY <1>3, <1>9, EvaluatedKeeps
<1>11. /\ stop'[i] = new /\ \A j \in StopIds \ {i} : stop'[j] = stop[j] /\ log'[j] = log[j]
       /\ DOMAIN stop' = StopIds /\ stop' = [j \in StopIds |-> stop'[j]]
       /\ log'[i] = IF seesIt /\ StopLoss!Open(x) THEN grown ELSE log[i]
  BY <1>1, <1>2, <1>8
<1>12. /\ grown \in Seq(StopPrices)
       /\ StopLoss!ToSet(grown) = StopLoss!ToSet(log[i]) \cup {f.price}
  BY <1>3, <1>9, IdsOf
<1>13. log' \in [StopIds -> Seq(StopPrices)]
  BY <1>1, <1>2, <1>8, <1>12
<1>. HIDE DEF seesIt
<1>14. /\ new \in StopLoss!OrderRecords /\ Follows(made[i], log'[i], new)
  <2>1. CASE seesIt /\ StopLoss!Open(x)
    <3>1. new = StopLoss!Evaluated(x, f.price) /\ log'[i] = grown
      BY <1>11, <2>1
    <3>2. Follows(made[i], grown, new)
      BY <1>3, <1>9, <2>1, <3>1, EvaluatedIs
    <3>. QED BY <3>1, <3>2 DEF Follows
  <2>2. CASE ~(seesIt /\ StopLoss!Open(x))
    BY <1>9, <1>10, <1>11, <2>2
  <2>. QED BY <2>1, <2>2
<1>. HIDE DEF grown
<1>15. TypesHold(registered', frames', fed', stop', made', log')
  BY <1>1, <1>2, <1>7, <1>11, <1>13 DEF StopState, TypesHold, n
<1>16. OrdersHold(registered', stop', made', log')
  <2>1. ASSUME NEW j \in StopIds
        PROVE  IF j \in StopLoss!ToSet(registered)
               THEN made[j] \in Stops /\ stop'[j] \in StopLoss!OrderRecords
                    /\ Follows(made[j], log'[j], stop'[j])
               ELSE log'[j] = <<>>
    <3>1. CASE j = i
      BY <1>8, <1>9, <1>11, <1>14, <3>1
    <3>2. CASE j # i
      BY <1>11, <3>2 DEF StopState, OrdersHold
    <3>. QED BY <3>1, <3>2
  <2>. QED BY <1>1, <2>1 DEF OrdersHold
\* What the turn does to the order, seen from a tick that has done with it.
<1>17. ASSUME NEW g \in Ticks, stop'[i].symbol = g.symbol, StopLoss!Open(stop'[i]),
              \/ g.symbol = f.symbol /\ g.price = f.price
              \/ g.price \in StopLoss!ToSet(log[i]) /\ Settled(x, g.price)
       PROVE  g.price \in StopLoss!ToSet(log'[i]) /\ Settled(stop'[i], g.price)
  <2>1. CASE seesIt /\ StopLoss!Open(x)
    <3>1. /\ new = StopLoss!Evaluated(x, f.price) /\ stop'[i] = new
          /\ g.price \in StopPrices /\ StopLoss!ToSet(log'[i]) = StopLoss!ToSet(log[i]) \cup {f.price}
      BY <1>11, <1>12, <1>17, <2>1 DEF Ticks
    <3>2. Settled(StopLoss!Evaluated(x, f.price), g.price)
      BY <1>3, <1>9, <1>17, <2>1, <3>1, SettledStays
    <3>. QED BY <1>17, <3>1, <3>2
  <2>2. CASE ~(seesIt /\ StopLoss!Open(x))
    <3>1. stop'[i] = x /\ log'[i] = log[i]
      BY <1>10, <1>11, <2>2
    <3>2. g.symbol # f.symbol
      BY <1>10, <1>17, <2>2, <3>1 DEF seesIt
    <3>. QED BY <1>17, <3>1, <3>2
  <2>. QED BY <2>1, <2>2
<1>. HIDE DEF new
<1>18. ASSUME NEW g \in Ticks, TickHolds(g, registered, stop, log)
       PROVE  TickHolds(g, registered, stop', log')
  <2>1. ASSUME NEW j \in StopLoss!ToSet(g.orders) \ StopLoss!ToSet(g.todo),
               stop'[j].symbol = g.symbol, StopLoss!Open(stop'[j])
        PROVE  g.price \in StopLoss!ToSet(log'[j]) /\ Settled(stop'[j], g.price)
    <3>1. j \in StopIds
      BY <1>2, <1>18, IdsOf DEF TickHolds
    <3>2. CASE j # i
      BY <1>11, <1>18, <2>1, <3>1, <3>2 DEF TickHolds
    <3>3. CASE j = i
      <4>1. x.symbol = g.symbol /\ StopLoss!Open(x)
        BY <1>10, <1>11, <2>1, <3>3 DEF new
      <4>2. g.price \in StopLoss!ToSet(log[i]) /\ Settled(x, g.price)
        BY <1>18, <3>3, <4>1 DEF TickHolds, x
      <4>. QED BY <1>17, <2>1, <3>3, <4>2
    <3>. QED BY <3>2, <3>3
  <2>. QED BY <1>18, <2>1 DEF TickHolds
<1>19. TickHolds(f2, registered, stop', log')
  <2>1. ASSUME NEW j \in StopLoss!ToSet(f.orders) \ StopLoss!ToSet(Tail(f.todo)),
               stop'[j].symbol = f.symbol, StopLoss!Open(stop'[j])
        PROVE  f.price \in StopLoss!ToSet(log'[j]) /\ Settled(stop'[j], f.price)
    <3>1. CASE j = i
      BY <1>2, <1>17, <2>1, <3>1
    <3>2. CASE j # i
      <4>1. j \in StopLoss!ToSet(f.orders) \ StopLoss!ToSet(f.todo)
        BY <1>8, <2>1, <3>2
      <4>2. TickHolds(f, registered, stop', log')
        BY <1>2, <1>3, <1>18
      <4>. QED BY <2>1, <4>1, <4>2 DEF TickHolds
    <3>. QED BY <3>1, <3>2
  <2>2. StopLoss!ToSet(Tail(f.todo)) \subseteq StopLoss!ToSet(f.orders)
        /\ StopLoss!ToSet(f.orders) \subseteq StopLoss!ToSet(registered)
    BY <1>3, <1>8 DEF TickHolds
  <2>. QED BY <1>6, <2>1, <2>2 DEF TickHolds
<1>20. ASSUME NEW k \in DOMAIN frames' PROVE TickHolds(frames'[k], registered, stop', log')
  <2>1. CASE k = n
    BY <1>7, <1>19, <2>1
  <2>2. CASE k # n
    <3>1. frames'[k] = frames[k] /\ frames[k] \in Ticks /\ TickHolds(frames[k], registered, stop, log)
      BY <1>2, <1>7, <2>2 DEF StopState
    <3>. QED BY <1>18, <3>1
  <2>. QED BY <2>1, <2>2
<1>. QED BY <1>1, <1>15, <1>16, <1>20 DEF StopState

LEMMA StopStep ==
  ASSUME StopsInvariant, part = "stops", StopLoss!Next, UNCHANGED part
  PROVE  StopsInvariant'
<1>1. listening \in BOOLEAN /\ StopState(registered, frames, fed, stop, made, log)
  BY DEF StopsInvariant
<1>2. listening' \in BOOLEAN
  BY <1>1 DEF StopLoss!Next, StopLoss!register_order, StopLoss!cancel_order,
     StopLoss!set_trigger_callback, StopLoss!process_tick, StopLoss!EvaluateNext,
     StopLoss!CallbackReturns, StopLoss!CallbackRaises, StopLoss!TickReturns
<1>3. ASSUME StopLoss!set_trigger_callback
      PROVE  StopState(registered', frames', fed', stop', made', log')
  BY <1>1, <1>3 DEF StopLoss!set_trigger_callback
<1>4. ASSUME StopLoss!CallbackRaises
      PROVE  StopState(registered', frames', fed', stop', made', log')
  BY <1>1, <1>4, EndStop DEF StopLoss!CallbackRaises
<1>5. ASSUME StopLoss!TickReturns
      PROVE  StopState(registered', frames', fed', stop', made', log')
  BY <1>1, <1>5, EndStop DEF StopLoss!TickReturns, StopLoss!InUserCode
<1>6. StopState(registered', frames', fed', stop', made', log')
  BY <1>1, <1>3, <1>4, <1>5, RegisterStop, CancelStop, FeedStop, EvaluateStop, ReturnStop
     DEF StopLoss!Next
<1>. QED BY <1>2, <1>6, StopsPrimed

LEMMA StopsInvariantHolds == PartsSpec => []StopsInvariant
<1>1. StopsInvariant /\ [PartsNext]_allVars => StopsInvariant'
  <2>. SUFFICES ASSUME StopsInvariant, [PartsNext]_allVars PROVE StopsInvariant'
    OBVIOUS
  <2>1. part' = part
    BY DEF PartsNext, Frozen, allVars
  <2>2. CASE part # "stops"
    BY <2>1, <2>2 DEF StopsInvariant
  <2>3. CASE part = "stops" /\ UNCHANGED stopVars
    <3>1. UNCHANGED <<registered, stop, listening, frames, fed, log, made>>
      BY <2>3 DEF stopVars
    <3>2. listening \in BOOLEAN /\ StopState(registered, frames, fed, stop, made, log)
      BY <2>3 DEF StopsInvariant
    <3>. QED BY <3>1, <3>2, StopsPrimed
  <2>4. CASE part = "stops" /\ PartsNext
    BY <2>1, <2>4, StopStep DEF PartsNext
  <2>. QED BY <2>2, <2>3, <2>4 DEF allVars
<1>. QED BY <1>1, StopsStart, PTL DEF PartsSpec

\* For any orders and prices, and whatever the callbacks do in the middle of a
\* tick: a stop stands where its prices put it, triggers once and at the first
\* price that breaches it, and a tick that returns has reached all its orders.
THEOREM StopsAlwaysHold == PartsSpec => StopsHold
<1>1. StopsInvariant => (part = "stops" => StopLoss!TypeOK /\ StopLoss!StopsHold)
  <2>. SUFFICES ASSUME StopsInvariant, part = "stops"
                PROVE  StopLoss!TypeOK /\ StopLoss!StopsHold
    OBVIOUS
  <2>1. /\ listening \in BOOLEAN /\ StopState(registered, frames, fed, stop, made, log)
        /\ registered \in Seq(StopIds)
    BY DEF StopsInvariant, StopState, TypesHold
  <2>2. ASSUME NEW i \in StopLoss!ToSet(registered)
        PROVE  /\ made[i] \in Stops /\ stop[i] \in StopLoss!OrderRecords
               /\ Stands(made[i], log[i], stop[i])
    <3>1. i \in StopIds
      BY <2>1, IdsOf
    <3>2. /\ made[i] \in Stops /\ stop[i] \in StopLoss!OrderRecords /\ log[i] \in Seq(StopPrices)
          /\ Follows(made[i], log[i], stop[i])
      BY <2>1, <3>1 DEF StopState, OrdersHold, TypesHold
    <3>. QED BY <3>2, GateIs, OpenStands DEF Follows
  <2>3. StopLoss!TypeOK
    BY <2>1, <2>2 DEF StopState, TypesHold, StopLoss!TypeOK, StopLoss!OrderRecords
  <2>4. StopLoss!StopsHold
    BY <2>2 DEF StopLoss!StopsHold, Stands, Hit
  <2>. QED BY <2>3, <2>4
<1>2. StopsInvariant /\ [PartsNext]_allVars =>
        [StopLoss!TickReturns =>
           \A i \in StopLoss!ToSet(StopLoss!top.orders) :
             stop[i].symbol = StopLoss!top.symbol /\ stop[i].status = "ACTIVE" =>
               /\ ~StopLoss!Beyond(stop[i], StopLoss!Candidate(stop[i], StopLoss!top.price),
                                   stop[i].stopPrice)
               /\ StopLoss!top.price \in StopLoss!ToSet(log[i])]_stopVars
  <2>. SUFFICES ASSUME StopsInvariant, part = "stops", StopLoss!TickReturns,
                       NEW i \in StopLoss!ToSet(StopLoss!top.orders),
                       stop[i].symbol = StopLoss!top.symbol, stop[i].status = "ACTIVE"
                PROVE  /\ ~StopLoss!Beyond(stop[i], StopLoss!Candidate(stop[i], StopLoss!top.price),
                                           stop[i].stopPrice)
                       /\ StopLoss!top.price \in StopLoss!ToSet(log[i])
    BY DEF PartsNext, Frozen, allVars, stopVars
  <2>1. StopState(registered, frames, fed, stop, made, log)
    BY DEF StopsInvariant
  <2>2. frames # <<>> /\ StopLoss!top = frames[Len(frames)] /\ StopLoss!top.todo = <<>>
    BY DEF StopLoss!TickReturns, StopLoss!InUserCode, StopLoss!top, StopLoss!Last
  <2>3. Len(frames) \in DOMAIN frames
    BY <2>1, <2>2 DEF StopState, TypesHold
  <2>4. TickHolds(StopLoss!top, registered, stop, log)
    BY <2>1, <2>2, <2>3 DEF StopState
  <2>5. StopLoss!ToSet(StopLoss!top.todo) = {}
    BY <2>2 DEF StopLoss!ToSet
  <2>6. StopLoss!Open(stop[i])
    BY DEF StopLoss!Open
  <2>. QED BY <2>4, <2>5, <2>6 DEF TickHolds, Settled
<1>3. PartsSpec => [](part = "stops" => StopLoss!TypeOK /\ StopLoss!StopsHold)
  BY <1>1, StopsInvariantHolds, PTL
<1>4. PartsSpec => StopLoss!TickReachesAll
  BY <1>2, StopsInvariantHolds, PTL DEF PartsSpec, StopLoss!TickReachesAll, StopLoss!vars, stopVars
<1>. QED BY <1>3, <1>4 DEF StopsHold
=============================================================================

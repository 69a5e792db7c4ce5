---------------------------- MODULE RedBlackTree ----------------------------
(***************************************************************************)
(* One side of the level-2 order book: a red-black tree of price levels.   *)
(* A node is named by the price it holds; when a deletion moves a price    *)
(* and its quantity into another node, that node takes the name.  The      *)
(* arms of the code that mirror each other are one definition with a       *)
(* direction.                                                              *)
(***************************************************************************)
EXTENDS Integers, Sequences, FiniteSets, SequencesExt, FiniteSetsExt

CONSTANTS
  Levels,   \* prices, natural numbers above 0
  Amounts,  \* quantities of a level
  None

Nil == 0

VARIABLES
  tree,    \* [root, kid, up, red, value]
  quoted   \* price -> its quantity, 0 for none (history)

vars == <<tree, quoted>>

Ways == {"left", "right"}
Other(d) == IF d = "left" THEN "right" ELSE "left"

Leaf == [d \in Ways |-> Nil]
Empty == [root |-> Nil, kid |-> [n \in Levels |-> Leaf], up |-> [n \in Levels |-> Nil],
          red |-> {}, value |-> [n \in Levels |-> 0]]

TypeOK ==
  /\ tree.root \in Levels \cup {Nil} /\ tree.red \subseteq Levels
  /\ \A n \in Levels : tree.up[n] \in Levels \cup {Nil}

Init == tree = Empty /\ quoted = [n \in Levels |-> 0]

-----------------------------------------------------------------------------
Painted(t, n, red) ==
  IF n = Nil THEN t ELSE [t EXCEPT !.red = IF red THEN @ \cup {n} ELSE @ \ {n}]
Hung(t, n, parent) == IF n = Nil THEN t ELSE [t EXCEPT !.up[n] = parent]
WayTo(t, n) == IF t.kid[t.up[n]]["left"] = n THEN "left" ELSE "right"

\* m takes the place of n below n's parent, or at the root.
Replaced(t, n, m) ==
  IF t.up[n] = Nil THEN [t EXCEPT !.root = m] ELSE [t EXCEPT !.kid[t.up[n]][WayTo(t, n)] = m]

\* _rotate_left and _rotate_right: n goes down the way d, its other child up.
Rotated(t, n, d) ==
  LET up == t.kid[n][Other(d)]
      inner == t.kid[up][d]
      moved == Hung(Hung(Replaced(Hung([t EXCEPT !.kid[n][Other(d)] = inner], inner, n), n, up),
                         up, t.up[n]), n, up)
  IN IF up = Nil THEN t ELSE [moved EXCEPT !.kid[up][d] = n]

RECURSIVE _find_node(_, _, _)
_find_node(t, n, key) ==
  IF n = Nil \/ n = key THEN n
  ELSE _find_node(t, t.kid[n][IF key < n THEN "left" ELSE "right"], key)

RECURSIVE _extreme(_, _, _)
_extreme(t, n, d) == IF t.kid[n][d] = Nil THEN n ELSE _extreme(t, t.kid[n][d], d)
_minimum(t, n) == _extreme(t, n, "left")

RECURSIVE _insert_fixup(_, _)
_insert_fixup(t, n) ==
  LET parent == t.up[n]
      grand == t.up[parent]
      d == WayTo(t, parent)
      uncle == t.kid[grand][Other(d)]
  IN IF parent = Nil \/ parent \notin t.red \/ grand = Nil THEN Painted(t, t.root, FALSE)
     ELSE IF uncle \in t.red
     THEN _insert_fixup(
            Painted(Painted(Painted(t, parent, FALSE), uncle, FALSE), grand, TRUE), grand)
     ELSE LET inner == n = t.kid[parent][Other(d)]
              straight == IF inner THEN Rotated(t, parent, d) ELSE t
              top == IF inner THEN n ELSE parent
              painted == Painted(Painted(straight, top, FALSE), grand, TRUE)
          IN _insert_fixup(Rotated(painted, grand, Other(d)), IF inner THEN parent ELSE n)

RECURSIVE Below(_, _, _)
Below(t, n, key) ==
  LET d == IF key < n THEN "left" ELSE "right"
  IN IF t.kid[n][d] = Nil THEN <<n, d>> ELSE Below(t, t.kid[n][d], key)

insert(t, key, v) ==
  IF t.root = Nil THEN [Empty EXCEPT !.root = key, !.value[key] = v]
  ELSE IF _find_node(t, t.root, key) # Nil THEN [t EXCEPT !.value[key] = v]
  ELSE LET at == Below(t, t.root, key)
       IN _insert_fixup([t EXCEPT !.kid[at[1]][at[2]] = key, !.up[key] = at[1],
                                  !.red = @ \cup {key}, !.value[key] = v], key)

Black(t, n) == n \notin t.red

\* The sibling is black: it gives a red child, or turns red and the lack of
\* black moves up.  Answers the tree, the node that lacks and its parent.
MutLent(t, parent, d) ==
  LET w == t.kid[parent][Other(d)]
      inner == t.kid[w][d]
      outer == t.kid[w][Other(d)]
      turned == IF d = "left" /\ Black(t, outer)
                THEN Rotated(Painted(Painted(t, inner, FALSE), w, TRUE), w, Other(d)) ELSE t
      v == turned.kid[parent][Other(d)]
      painted == Painted(Painted(Painted(turned, v, parent \in t.red), parent, FALSE),
                         turned.kid[v][Other(d)], FALSE)
  IN Rotated(painted, parent, d)

Lent(t, parent, d) ==
  LET w == t.kid[parent][Other(d)]
      inner == t.kid[w][d]
      outer == t.kid[w][Other(d)]
      turned == IF Black(t, outer)
                THEN Rotated(Painted(Painted(t, inner, FALSE), w, TRUE), w, Other(d)) ELSE t
      v == turned.kid[parent][Other(d)]
      painted == Painted(Painted(Painted(turned, v, parent \in t.red), parent, FALSE),
                         turned.kid[v][Other(d)], FALSE)
  IN Rotated(painted, parent, d)

RECURSIVE _delete_fixup(_, _, _)
_delete_fixup(t, n, parent) ==
  LET d == IF n = t.kid[parent]["left"] THEN "left" ELSE "right"
      sibling == t.kid[parent][Other(d)]
      u == IF sibling \in t.red
           THEN Rotated(Painted(Painted(t, sibling, FALSE), parent, TRUE), parent, d) ELSE t
      w == u.kid[parent][Other(d)]
      ended(s, m) == Painted(Painted(s, m, FALSE), s.root, FALSE)
  IN IF n = t.root \/ n \in t.red \/ parent = Nil THEN ended(t, n)
     ELSE IF w = Nil THEN _delete_fixup(u, parent, u.up[parent])
     ELSE IF Black(u, u.kid[w]["left"]) /\ Black(u, u.kid[w]["right"])
     THEN _delete_fixup(Painted(u, w, TRUE), parent, u.up[parent])
     ELSE LET v == Lent(u, parent, d) IN ended(v, v.root)

\* The price and quantity of m move into node z, whose name becomes m.
Renamed(t, z, m) ==
  LET r == Replaced([t EXCEPT !.up[m] = t.up[z], !.kid[m] = t.kid[z]], z, m)
      s == Hung(Hung(r, t.kid[z]["left"], m), t.kid[z]["right"], m)
  IN Painted(s, m, z \in t.red)

Cleared(t, n) ==
  [t EXCEPT !.kid[n] = Leaf, !.up[n] = Nil, !.red = @ \ {n}, !.value[n] = 0]

delete(t, z) ==
  LET y == IF Nil \in {t.kid[z]["left"], t.kid[z]["right"]} THEN z
           ELSE _minimum(t, t.kid[z]["right"])
      x == IF t.kid[y]["left"] # Nil THEN t.kid[y]["left"] ELSE t.kid[y]["right"]
      cut == Replaced(Hung(t, x, t.up[y]), y, x)
      parent == IF y # z /\ t.up[y] = z THEN y ELSE t.up[y]
      named == Cleared(IF y = z THEN cut ELSE Renamed(cut, z, y), z)
  IN IF y \in t.red THEN named ELSE _delete_fixup(named, x, parent)

-----------------------------------------------------------------------------
\* update_bid or update_ask: quantity 0 takes the level out, if it is there.
update(p, q) ==
  /\ tree' = IF q > 0 THEN insert(tree, p, q)
             ELSE IF _find_node(tree, tree.root, p) # Nil THEN delete(tree, p) ELSE tree
  /\ quoted' = [quoted EXCEPT ![p] = q]

clear == tree' = Empty /\ quoted' = [n \in Levels |-> 0]

Next == clear \/ \E p \in Levels, q \in Amounts \cup {0} : update(p, q)

Spec == Init /\ [][Next]_vars

RECURSIVE items(_, _)
items(n, d) ==
  IF n = Nil THEN <<>>
  ELSE items(tree.kid[n][d], d) \o <<<<n, tree.value[n]>>>> \o items(tree.kid[n][Other(d)], d)

RECURSIVE Height(_)
Height(n) == IF n = Nil THEN 0 ELSE 1 + Max({Height(tree.kid[n][d]) : d \in Ways})
get_height == Height(tree.root)

\* The price at one end with its quantity, or None.
Best(n) == IF n = Nil THEN None ELSE <<n, tree.value[n]>>
best_bid == Best(IF tree.root = Nil THEN Nil ELSE _extreme(tree, tree.root, "right"))
best_ask == Best(IF tree.root = Nil THEN Nil ELSE _minimum(tree, tree.root))

get_quantity(p) ==
  LET n == _find_node(tree, tree.root, p) IN IF n = Nil THEN 0 ELSE tree.value[n]

\* As many of the best levels as asked for: bids from the highest price down,
\* asks from the lowest up.
get_levels(d, depth) == LET all == items(tree.root, d) IN SubSeq(all, 1, Min({depth, Len(all)}))

RECURSIVE BlackHeight(_)
BlackHeight(n) ==   \* -1 when two paths differ
  IF n = Nil THEN 0
  ELSE LET l == BlackHeight(tree.kid[n]["left"])
           r == BlackHeight(tree.kid[n]["right"])
       IN IF l # r \/ l = -1 THEN -1 ELSE IF n \in tree.red THEN l ELSE l + 1

Quoted == {p \in Levels : quoted[p] # 0}

\* No mix of insertions and deletions breaks the tree: no red node has a red
\* child, every path has as many black nodes, parents are parents of their children.
Balanced ==
  /\ tree.root \notin tree.red /\ BlackHeight(tree.root) >= 0
  /\ \A n \in Quoted, d \in Ways :
       tree.kid[n][d] # Nil =>
         /\ tree.up[tree.kid[n][d]] = n
         /\ ~(n \in tree.red /\ tree.kid[n][d] \in tree.red)
  /\ 2 ^ get_height <= (Cardinality(Quoted) + 1) ^ 2

\* What the book reads from the tree is what was quoted: every level, in order
\* both ways, each with its last quantity, and the best one at either end.
BookIsQuoted ==
  /\ LET rising == items(tree.root, "left")
     IN /\ ToSet(rising) = {<<p, quoted[p]>> : p \in Quoted}
        /\ \A k, l \in DOMAIN rising : k < l => rising[k][1] < rising[l][1]
        /\ items(tree.root, "right") = Reverse(rising)
        /\ \A depth \in 0..Len(rising) :
             /\ get_levels("left", depth) \o SubSeq(rising, depth + 1, Len(rising)) = rising
             /\ depth > 0 => get_levels("left", depth)[1] = best_ask
                             /\ get_levels("right", depth)[1] = best_bid
        /\ rising = <<>> => best_bid = None /\ best_ask = None
  /\ \A p \in Levels : get_quantity(p) = quoted[p]

TreeHolds == Balanced /\ BookIsQuoted
=============================================================================

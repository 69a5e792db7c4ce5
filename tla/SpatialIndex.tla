---------------------------- MODULE SpatialIndex ----------------------------
(***************************************************************************)
(* The R-tree behind hit testing: nodes with bounding boxes that are kept  *)
(* up to date on the way from a leaf to the root, quadratic splits, and    *)
(* empty nodes and single-child roots taken out.  Nodes are numbered, the  *)
(* smallest free number first.                                             *)
(***************************************************************************)
EXTENDS Integers, Sequences, FiniteSets, SequencesExt, FiniteSetsExt

CONSTANTS
  Items,        \* item ids
  Bars,         \* item -> its boxes <<min x, min y, max x, max y>>
  Points,       \* item -> its places as a point <<x, y, radius>>
  Limits,       \* pairs of max_entries and min_entries
  Nodes,        \* bound: node numbers, from 1
  Probes,       \* places that are tested: <<x, y, tolerance>>
  None

NoNode == 0

VARIABLES
  limits,  \* _max_entries and _min_entries
  rtree,   \* [node, root, home, shape]: home is the leaf _items knows for an item
  placed   \* item -> its shape, or None (history)

vars == <<limits, rtree, placed>>

IndexAssumption == \A l \in Limits : l[1] >= 2 /\ l[2] \in 1..((l[1] + 1) \div 2)

MaxEntries == limits[1]
MinEntries == limits[2]

Unused == [leaf |-> TRUE, parent |-> NoNode, kids |-> <<>>, box |-> None]

Empty == [node |-> [n \in Nodes |-> Unused], root |-> 1,
          home |-> [i \in Items |-> NoNode], shape |-> [i \in Items |-> None]]

TypeOK ==
  /\ rtree.root \in Nodes /\ rtree.home \in [Items -> Nodes \cup {NoNode}]
  /\ \A n \in Nodes : Len(rtree.node[n].kids) <= MaxEntries

Init == limits \in Limits /\ rtree = Empty /\ placed = [i \in Items |-> None]

-----------------------------------------------------------------------------
\* The box around a disc.  A bar has nothing but its box, a point the one
\* around its disc.
Grown(d) == <<d[1] - d[3], d[2] - d[3], d[1] + d[3], d[2] + d[3]>>
Bar(b) == [box |-> b, disc |-> None]
Point(p) == [box |-> Grown(p), disc |-> p]
intersects(b, c) == ~(b[3] < c[1] \/ b[1] > c[3] \/ b[4] < c[2] \/ b[2] > c[4])

_compute_bounds(boxes) ==
  IF boxes = {} THEN None
  ELSE <<Min({b[1] : b \in boxes}), Min({b[2] : b \in boxes}),
         Max({b[3] : b \in boxes}), Max({b[4] : b \in boxes})>>

union(b, c) == _compute_bounds({b, c})
area(b) == (b[3] - b[1]) * (b[4] - b[2])
enlargement_area(b, c) == area(union(b, c)) - area(b)

\* A point is hit within its radius and the tolerance, a bar in its widened box.
contains_point(b, x, y, tolerance) ==
  /\ b[1] - tolerance <= x /\ x <= b[3] + tolerance
  /\ b[2] - tolerance <= y /\ y <= b[4] + tolerance

hit_test(s, probe) ==
  IF s.disc = None THEN contains_point(s.box, probe[1], probe[2], probe[3])
  ELSE LET dx == s.disc[1] - probe[1]
           dy == s.disc[2] - probe[2]
           reach == s.disc[3] + probe[3]
       IN dx * dx + dy * dy <= reach * reach

-----------------------------------------------------------------------------
BoxOf(t, n, k) == IF t.node[n].leaf THEN t.shape[k].box ELSE t.node[k].box

update_bounds(t, n) ==
  [t EXCEPT !.node[n].box = _compute_bounds({BoxOf(t, n, k) : k \in ToSet(t.node[n].kids)})]

Fresh(t) ==
  Min({n \in Nodes : t.node[n] = Unused /\ n # t.root})

\* The two elements that would waste most together, the first such pair.
Seeds(E) ==
  LET pairs == {p \in (DOMAIN E) \X (DOMAIN E) : p[1] < p[2]}
      waste(p) == area(union(E[p[1]].box, E[p[2]].box)) - area(E[p[1]].box) - area(E[p[2]].box)
      most == Max({waste(p) : p \in pairs})
      worst == {p \in pairs : waste(p) = most}
  IN CHOOSE p \in worst : \A q \in worst : p[1] < q[1] \/ (p[1] = q[1] /\ p[2] <= q[2])

\* The others go one by one to the group that grows less, the clearest case first.
Joined(x, e) == [kids |-> Append(x.kids, e.kid), box |-> union(x.box, e.box)]
AllJoined(x, rest) == [x EXCEPT !.kids = @ \o [k \in DOMAIN rest |-> rest[k].kid]]

\* A group that needs all that is left to reach the minimum gets it.
ShareOne(s) ==
  LET g == s.one
      h == s.two
      rest == s.rest
      grows(x, k) == enlargement_area(x.box, rest[k].box)
      gap(k) == IF grows(g, k) > grows(h, k) THEN grows(g, k) - grows(h, k)
                ELSE grows(h, k) - grows(g, k)
      widest == Max({gap(k) : k \in DOMAIN rest})
      k == Min({j \in DOMAIN rest : gap(j) = widest})
      first == \/ grows(g, k) < grows(h, k)
               \/ grows(g, k) = grows(h, k) /\ area(g.box) < area(h.box)
               \/ /\ grows(g, k) = grows(h, k) /\ area(g.box) = area(h.box)
                  /\ Len(g.kids) <= Len(h.kids)
  IN IF rest = <<>> THEN s
     ELSE IF Len(g.kids) + Len(rest) = MinEntries
     THEN [s EXCEPT !.one = AllJoined(g, rest), !.rest = <<>>]
     ELSE IF Len(h.kids) + Len(rest) = MinEntries
     THEN [s EXCEPT !.two = AllJoined(h, rest), !.rest = <<>>]
     ELSE [one |-> IF first THEN Joined(g, rest[k]) ELSE g,
           two |-> IF first THEN h ELSE Joined(h, rest[k]), rest |-> RemoveAt(rest, k)]

\* The two groups, once each element that is left has had its turn.
Shared(g, h, rest) ==
  FoldLeft(LAMBDA s, e : ShareOne(s), [one |-> g, two |-> h, rest |-> rest], rest)

_split_elements(E) ==
  LET s == Seeds(E)
      one(k) == [kids |-> <<E[k].kid>>, box |-> E[k].box]
      rest == SelectSeq([k \in DOMAIN E |-> [E[k] EXCEPT !.at = k]],
                        LAMBDA e : e.at \notin {s[1], s[2]})
  IN Shared(one(s[1]), one(s[2]), rest)

\* The kids of the second group know their new node: items by _items, nodes by parent.
MutMoved(t, n, f) ==
  IF t.node[n].leaf THEN t
  ELSE [t EXCEPT !.node = [m \in Nodes |-> IF m \in ToSet(t.node[f].kids)
                                            THEN [@[m] EXCEPT !.parent = f] ELSE @[m]]]

Moved(t, n, f) ==
  LET kids == ToSet(t.node[f].kids)
  IN IF t.node[n].leaf
     THEN [t EXCEPT !.home = [i \in Items |-> IF i \in kids THEN f ELSE @[i]]]
     ELSE [t EXCEPT !.node = [m \in Nodes |-> IF m \in kids THEN [@[m] EXCEPT !.parent = f]
                                              ELSE @[m]]]

_split_node(t, n, f) ==
  LET kids == t.node[n].kids
      g == _split_elements([k \in DOMAIN kids |->
                              [kid |-> kids[k], box |-> BoxOf(t, n, kids[k]), at |-> k]])
      split == [t EXCEPT !.node[n].kids = g.one.kids,
                         !.node[f] = [t.node[n] EXCEPT !.kids = g.two.kids]]
  IN update_bounds(update_bounds(Moved(split, n, f), n), f)

_choose_leaf(t, box) ==
  LET cheaper(a, b) == a[1] < b[1] \/ (a[1] = b[1] /\ a[2] < b[2])
      leaf[n \in Nodes] ==
        LET kids == t.node[n].kids
            cost(k) == <<enlargement_area(t.node[kids[k]].box, box), area(t.node[kids[k]].box)>>
            best == Min({k \in DOMAIN kids : \A j \in DOMAIN kids : ~cheaper(cost(j), cost(k))})
        IN IF t.node[n].leaf THEN n ELSE leaf[kids[best]]
  IN leaf[t.root]

\* The nodes from one up to the root.
Upwards(t, from) ==
  LET path[n \in Nodes \cup {NoNode}] ==
        IF n = NoNode THEN <<>> ELSE <<n>> \o path[t.node[n].parent]
  IN path[from]

\* At a node, and the one split from it if there is one.
Adjusted(t, n, m) ==
  LET u == IF m = NoNode THEN update_bounds(t, n) ELSE update_bounds(update_bounds(t, n), m)
      parent == t.node[n].parent
      top == Fresh(u)
      rooted == [u EXCEPT !.root = top, !.node[n].parent = top, !.node[m].parent = top,
                          !.node[top] = [Unused EXCEPT !.leaf = FALSE, !.kids = <<n, m>>]]
      hung == [u EXCEPT !.node[m].parent = parent, !.node[parent].kids = Append(@, m)]
      f == Fresh(hung)
  IN IF m = NoNode THEN [tree |-> u, split |-> NoNode]
     ELSE IF n = t.root THEN [tree |-> update_bounds(rooted, top), split |-> NoNode]
     ELSE IF Len(hung.node[parent].kids) > MaxEntries
     THEN [tree |-> _split_node(hung, parent, f), split |-> f]
     ELSE [tree |-> hung, split |-> NoNode]

\* From a node, and the one split from it if there is one, up to the root.
_adjust_tree(t, n, m) ==
  FoldLeft(LAMBDA s, k : Adjusted(s.tree, k, s.split), [tree |-> t, split |-> m],
           Upwards(t, n)).tree

\* From a leaf that lost an item up to the root: an empty node leaves its parent.
Pruned(t, n, parent) ==
  [t EXCEPT !.node[n] = Unused, !.node[parent].kids = SelectSeq(@, LAMBDA k : k # n)]

ShrunkAt(t, n) ==
  LET u == update_bounds(t, n)
  IN IF u.node[n].kids = <<>> /\ n # t.root THEN Pruned(u, n, t.node[n].parent) ELSE u

Shrunk(t, leaf) == FoldLeft(ShrunkAt, t, Upwards(t, leaf))

\* A root that is not a leaf gives way to its only child.
CollapsedOnce(t) ==
  LET r == t.node[t.root]
      child == r.kids[1]
  IN IF r.leaf \/ Len(r.kids) > 1 THEN t
     ELSE IF r.kids = <<>> THEN [t EXCEPT !.node[t.root] = Unused]
     ELSE [t EXCEPT !.node[t.root] = Unused, !.root = child, !.node[child].parent = NoNode]

\* ... as often as it can: never more often than there are nodes.
Collapsed(t) ==
  LET round[k \in Nat] == IF k = 0 THEN t ELSE CollapsedOnce(round[k - 1])
  IN round[Cardinality(Nodes)]

Removed(t, i) ==
  LET leaf == t.home[i]
      out == [t EXCEPT !.node[leaf].kids = SelectSeq(@, LAMBDA k : k # i),
                       !.home[i] = NoNode, !.shape[i] = None]
      shrunk == Collapsed(Shrunk(out, leaf))
  IN update_bounds(shrunk, shrunk.root)

Inserted(t, i, s) ==
  LET free == IF t.home[i] # NoNode THEN Removed(t, i) ELSE t
      leaf == _choose_leaf(free, s.box)
      put == [free EXCEPT !.node[leaf].kids = Append(@, i), !.home[i] = leaf, !.shape[i] = s]
      f == Fresh(put)
  IN IF Len(put.node[leaf].kids) > MaxEntries
     THEN _adjust_tree(_split_node(put, leaf, f), leaf, f)
     ELSE _adjust_tree(put, leaf, NoNode)

_insert_entry(i, s) == rtree' = Inserted(rtree, i, s) /\ placed' = [placed EXCEPT ![i] = s]

insert_bar(i, b) == _insert_entry(i, Bar(b))
insert_point(i, p) == _insert_entry(i, Point(p))

remove(i) ==
  /\ rtree.home[i] # NoNode
  /\ rtree' = Removed(rtree, i) /\ placed' = [placed EXCEPT ![i] = None]

clear == rtree' = Empty /\ placed' = [i \in Items |-> None]

Next ==
  /\ UNCHANGED limits
  /\ \/ clear
     \/ \E i \in Items :
          \/ remove(i)
          \/ \E b \in Bars[i] : insert_bar(i, b)
          \/ \E p \in Points[i] : insert_point(i, p)

Spec == Init /\ [][Next]_vars

\* The leaves whose boxes, and those above them, meet the query.
Reached(box) ==
  LET below[n \in Nodes] ==
        LET r == rtree.node[n]
        IN IF r.box = None \/ ~intersects(r.box, box) THEN <<>>
           ELSE IF r.leaf THEN r.kids
           ELSE FlattenSeq([k \in DOMAIN r.kids |-> below[r.kids[k]]])
  IN below[rtree.root]

query_rect(box) ==
  SelectSeq(Reached(box), LAMBDA i : intersects(rtree.shape[i].box, box))

hits(probe) ==
  SelectSeq(query_rect(Grown(probe)), LAMBDA i : hit_test(rtree.shape[i], probe))

bounds == rtree.node[rtree.root].box

Placed == {i \in Items : placed[i] # None}

\* Every search finds what looking at every item would find, each item once,
\* however nodes were split, pruned and collapsed before.
SearchFindsAll ==
  \A probe \in Probes :
    /\ IsInjective(hits(probe)) /\ IsInjective(query_rect(Grown(probe)))
    /\ ToSet(hits(probe)) = {i \in Placed : hit_test(placed[i], probe)}
    /\ ToSet(query_rect(Grown(probe))) = {i \in Placed : intersects(placed[i].box, Grown(probe))}

\* An item is in the leaf _items knows for it, and a node in the list of its
\* parent; every box is the least that holds what is below, the one of the index
\* holds every item, and no node is empty.
IndexHolds ==
  /\ \A i \in Items : rtree.home[i] # NoNode <=> i \in Placed
  /\ bounds = _compute_bounds({placed[i].box : i \in Placed})
  /\ \A i \in Placed : i \in ToSet(rtree.node[rtree.home[i]].kids)
  /\ \A n \in Nodes : rtree.node[n] # Unused =>
       /\ rtree.node[n].box = update_bounds(rtree, n).node[n].box
       /\ ~rtree.node[n].leaf =>
            \A k \in ToSet(rtree.node[n].kids) :
              rtree.node[k].parent = n /\ rtree.node[k].kids # <<>>

IndexIsComplete == SearchFindsAll /\ IndexHolds
=============================================================================

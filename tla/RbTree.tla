------------------------------- MODULE RbTree -------------------------------
(***************************************************************************)
(* The left-leaning red-black trees in which the allocator keeps its free  *)
(* extents, its huge allocations, and the runs of an arena.  Nodes are     *)
(* numbered in the order of the comparison function; 0 is rbt_nil, which   *)
(* is black and its own child.  Insertion and removal go down from the     *)
(* root, remember the path, and repair the tree on the way back until no   *)
(* repair is needed.                                                       *)
(***************************************************************************)
EXTENDS Integers, Sequences, SequencesExt, FiniteSets, FiniteSetsExt

CONSTANT NNodes             \* how many nodes there are

VARIABLES
    rbtree,         \* the root, and the links and the colour of every node
    nodes           \* the nodes that were inserted and not removed since

rbvars == <<rbtree, nodes>>

nil == 0

SetLeft(t, n, c) == [t EXCEPT !.left[n] = c]
SetRight(t, n, c) == [t EXCEPT !.right[n] = c]
SetRed(t, n, red) == [t EXCEPT !.red[n] = red]

rb_new ==
    [root |-> nil,
     left |-> [n \in 0 .. NNodes |-> nil],
     right |-> [n \in 0 .. NNodes |-> nil],
     red |-> [n \in 0 .. NNodes |-> FALSE]]

rbt_node_new(t, n) == SetRed(SetRight(SetLeft(t, n, nil), n, nil), n, TRUE)

\* The node that was the child takes the place of n, which becomes its child.
RotatedLeft(t, n, child) == SetLeft(SetRight(t, n, t.left[child]), child, n)
RotatedRight(t, n, child) == SetRight(SetLeft(t, n, t.right[child]), child, n)

rotate_left(t, n) == RotatedLeft(t, n, t.right[n])
rotate_right(t, n) == RotatedRight(t, n, t.left[n])

-----------------------------------------------------------------------------
\* Searching

RECURSIVE rbtn_first(_, _)
rbtn_first(t, n) ==
    IF n = nil \/ t.left[n] = nil THEN n ELSE rbtn_first(t, t.left[n])

RECURSIVE rbtn_last(_, _)
rbtn_last(t, n) ==
    IF n = nil \/ t.right[n] = nil THEN n ELSE rbtn_last(t, t.right[n])

RECURSIVE SearchFrom(_, _, _)
SearchFrom(t, key, n) ==
    IF n \in {nil, key} THEN n
    ELSE SearchFrom(t, key, IF key < n THEN t.left[n] ELSE t.right[n])

search(t, key) == SearchFrom(t, key, t.root)

\* The last node on the way down at which the search turned left, or the node itself.
RECURSIVE NsearchFrom(_, _, _, _)
NsearchFrom(t, key, n, ret) ==
    CASE n = nil -> ret
      [] n = key -> n
      [] key < n -> NsearchFrom(t, key, t.left[n], n)
      [] OTHER -> NsearchFrom(t, key, t.right[n], ret)

nsearch(t, key) == NsearchFrom(t, key, t.root, nil)

\* The same with the sides exchanged.
RECURSIVE PsearchFrom(_, _, _, _)
PsearchFrom(t, key, n, ret) ==
    CASE n = nil -> ret
      [] n = key -> n
      [] key > n -> PsearchFrom(t, key, t.right[n], n)
      [] OTHER -> PsearchFrom(t, key, t.left[n], ret)

psearch(t, key) == PsearchFrom(t, key, t.root, nil)

\* Where the way from the root to a node of the tree turned last.
RECURSIVE TurnedLeft(_, _, _, _)
TurnedLeft(t, key, n, ret) ==
    CASE key < n -> TurnedLeft(t, key, t.left[n], n)
      [] key > n -> TurnedLeft(t, key, t.right[n], ret)
      [] OTHER -> ret

RECURSIVE TurnedRight(_, _, _, _)
TurnedRight(t, key, n, ret) ==
    CASE key < n -> TurnedRight(t, key, t.left[n], ret)
      [] key > n -> TurnedRight(t, key, t.right[n], n)
      [] OTHER -> ret

next(t, n) == IF t.right[n] # nil THEN rbtn_first(t, t.right[n])
              ELSE TurnedLeft(t, n, t.root, nil)
prev(t, n) == IF t.left[n] # nil THEN rbtn_last(t, t.left[n])
              ELSE TurnedRight(t, n, t.root, nil)

\* The nodes for which the callback is called while it returns NULL.
RECURSIVE iter_recurse(_, _)
iter_recurse(t, n) ==
    IF n = nil THEN << >>
    ELSE iter_recurse(t, t.left[n]) \o <<n>> \o iter_recurse(t, t.right[n])

RECURSIVE iter_start(_, _, _)
iter_start(t, start, n) ==
    CASE start < n -> iter_start(t, start, t.left[n]) \o <<n>>
                        \o iter_recurse(t, t.right[n])
      [] start > n -> iter_start(t, start, t.right[n])
      [] OTHER -> <<n>> \o iter_recurse(t, t.right[n])

RECURSIVE reverse_iter_recurse(_, _)
reverse_iter_recurse(t, n) ==
    IF n = nil THEN << >>
    ELSE reverse_iter_recurse(t, t.right[n]) \o <<n>>
           \o reverse_iter_recurse(t, t.left[n])

RECURSIVE reverse_iter_start(_, _, _)
reverse_iter_start(t, start, n) ==
    CASE start > n -> reverse_iter_start(t, start, t.right[n]) \o <<n>>
                        \o reverse_iter_recurse(t, t.left[n])
      [] start < n -> reverse_iter_start(t, start, t.left[n])
      [] OTHER -> <<n>> \o reverse_iter_recurse(t, t.left[n])

-----------------------------------------------------------------------------
\* Insertion and removal

\* path[]: the nodes from the root down to where n belongs and the side taken at
\* each.  Past n itself it leads to n's successor, along the left sides.
RECURSIVE Wind(_, _, _)
Wind(t, n, at) ==
    CASE at = nil -> << >>
      [] n < at -> <<[node |-> at, cmp |-> -1]>> \o Wind(t, n, t.left[at])
      [] OTHER -> <<[node |-> at, cmp |-> 1]>> \o Wind(t, n, t.right[at])

\* pathp->node, once its child on the side taken is c.
SetChild(t, e, c) ==
    IF e.cmp < 0 THEN SetLeft(t, e.node, c) ELSE SetRight(t, e.node, c)

\* On the way back: the tree, pathp[1].node, and what is left to do.  "repair" goes
\* on, "link" only gives the parent its new child, "done" has returned.
At(t, c, todo) == [tree |-> t, child |-> c, todo |-> todo]

\* Fix up 4-node.
InsertedLeft(t, n, left) ==
    CASE ~t.red[left] -> At(t, n, "done")
      [] t.red[left] /\ t.red[t.left[left]] ->
            At(rotate_right(SetRed(t, t.left[left], FALSE), n), left, "repair")
      [] OTHER -> At(t, n, "repair")

\* Split 4-node, or lean left.
InsertedRight(t, n, right) ==
    CASE ~t.red[right] -> At(t, n, "done")
      [] t.red[right] /\ t.red[t.left[n]] ->
            At(SetRed(SetRed(SetRed(t, t.left[n], FALSE), right, FALSE), n, TRUE),
               n, "repair")
      [] OTHER ->
            At(SetRed(SetRed(rotate_left(t, n), right, t.red[n]), n, TRUE),
               right, "repair")

UnwindInsert(e, u) ==
    CASE u.todo = "done" -> u
      [] e.cmp < 0 -> InsertedLeft(SetChild(u.tree, e, u.child), e.node, u.child)
      [] OTHER -> InsertedRight(SetChild(u.tree, e, u.child), e.node, u.child)

InsertRoot(u) ==
    IF u.todo = "done" THEN u.tree
    ELSE SetRed([u.tree EXCEPT !.root = u.child], u.child, FALSE)

insert(t, n) ==
    InsertRoot(FoldRight(UnwindInsert, Wind(t, n, t.root),
                         At(rbt_node_new(t, n), n, "repair")))

\* The black height of the left side of n, which is black or red, fell by one.  The
\* right side gives up a red node, or n joins its right child in one node.
RemovedLeft(t, n, right, rightleft) ==
    CASE t.red[n] /\ t.red[rightleft] ->
            At(rotate_left(SetRight(rotate_right(SetRed(t, n, FALSE), right),
                                    n, rightleft), n), rightleft, "link")
      [] t.red[n] /\ ~t.red[rightleft] ->
            At(rotate_left(t, n), right, "link")
      [] ~t.red[n] /\ t.red[rightleft] ->
            At(rotate_left(SetRight(rotate_right(SetRed(t, rightleft, FALSE), right),
                                    n, rightleft), n), rightleft, "link")
      [] OTHER ->
            At(rotate_left(SetRed(t, n, TRUE), n), right, "repair")

\* rotate_right twice at n, and the second result under the first, which is then
\* rotated left.
RotatedTwice(t, n, left, leftright) ==
    rotate_left(SetRight(rotate_right(rotate_right(t, n), n), left, leftright), left)

\* Mistake: the case of a red node and a red node to the left of its left child
\* leaves the colours alone.
RemovedRightUncoloured(t, n, left, leftleft, leftright) ==
    CASE t.red[left] /\ t.red[t.left[leftright]] ->
            At(RotatedTwice(SetRed(t, t.left[leftright], FALSE), n, left, leftright),
               leftright, "link")
      [] t.red[left] /\ ~t.red[t.left[leftright]] ->
            At(SetRed(rotate_right(SetRed(t, leftright, TRUE), n), left, FALSE),
               left, "link")
      [] ~t.red[left] /\ t.red[n] /\ t.red[leftleft] ->
            At(rotate_right(t, n), left, "link")
      [] ~t.red[left] /\ t.red[n] /\ ~t.red[leftleft] ->
            At(SetRed(SetRed(t, left, TRUE), n, FALSE), n, "done")
      [] ~t.red[left] /\ ~t.red[n] /\ t.red[leftleft] ->
            At(rotate_right(SetRed(t, leftleft, FALSE), n), left, "link")
      [] OTHER ->
            At(SetRed(t, left, TRUE), n, "repair")

\* The same on the right side, where the left child may be red as well.
RemovedRight(t, n, left, leftleft, leftright) ==
    CASE t.red[left] /\ t.red[t.left[leftright]] ->
            At(RotatedTwice(SetRed(t, t.left[leftright], FALSE), n, left, leftright),
               leftright, "link")
      [] t.red[left] /\ ~t.red[t.left[leftright]] ->
            At(SetRed(rotate_right(SetRed(t, leftright, TRUE), n), left, FALSE),
               left, "link")
      [] ~t.red[left] /\ t.red[n] /\ t.red[leftleft] ->
            At(rotate_right(SetRed(SetRed(SetRed(t, n, FALSE), left, TRUE),
                                   leftleft, FALSE), n), left, "link")
      [] ~t.red[left] /\ t.red[n] /\ ~t.red[leftleft] ->
            At(SetRed(SetRed(t, left, TRUE), n, FALSE), n, "done")
      [] ~t.red[left] /\ ~t.red[n] /\ t.red[leftleft] ->
            At(rotate_right(SetRed(t, leftleft, FALSE), n), left, "link")
      [] OTHER ->
            At(SetRed(t, left, TRUE), n, "repair")

RepairRemoval(t, e) ==
    IF e.cmp < 0
    THEN RemovedLeft(t, e.node, t.right[e.node], t.left[t.right[e.node]])
    ELSE RemovedRight(t, e.node, t.left[e.node], t.left[t.left[e.node]],
                      t.right[t.left[e.node]])

UnwindRemove(e, u) ==
    CASE u.todo = "done" -> u
      [] u.todo = "link" -> At(SetChild(u.tree, e, u.child), e.node, "done")
      [] OTHER -> RepairRemoval(SetChild(u.tree, e, u.child), e)

RemoveRoot(u) ==
    IF u.todo = "done" THEN u.tree ELSE [u.tree EXCEPT !.root = u.child]

Unwound(path, u) == RemoveRoot(FoldRight(UnwindRemove, path, u))

\* The node and the successor that takes its place exchange links and colours.
Exchanged(t, n, s) ==
    SetRed(SetRight(SetLeft(SetRed(t, s, t.red[n]), s, t.left[n]), s, t.right[n]),
           n, t.red[s])

\* Takes n, a leaf at the end of the path, out of the tree.
Prune(t, path, n) ==
    IF t.red[n] THEN SetLeft(t, Last(path).node, nil)
    ELSE Unwound(path, At(t, nil, "repair"))

\* The path with the successor s where n was.
WithSuccessor(path, n, s) ==
    [k \in DOMAIN path |-> IF path[k].node = n THEN [path[k] EXCEPT !.node = s]
                           ELSE path[k]]

\* The parent of n, or the root, points to s.
InPlaceOf(t, path, k, s) ==
    IF k = 1 THEN [t EXCEPT !.root = s] ELSE SetChild(t, path[k - 1], s)

SwapAndPrune(t, path, n, s) ==
    Prune(InPlaceOf(Exchanged(t, n, s), path,
                    CHOOSE k \in DOMAIN path : path[k].node = n, s),
          WithSuccessor(Front(path), n, s), n)

RemoveOnPath(t, path, n) ==
    CASE Last(path).node # n -> SwapAndPrune(t, path, n, Last(path).node)
      [] Last(path).node = n /\ t.left[n] # nil ->
            InPlaceOf(SetRed(t, t.left[n], FALSE), path, Len(path), t.left[n])
      [] OTHER -> Prune(t, Front(path), n)

remove(t, n) == RemoveOnPath(t, Wind(t, n, t.root), n)

\* Nobody reads the links of a node that is in no tree.
Forgotten(t, n) == SetRed(SetRight(SetLeft(t, n, nil), n, nil), n, FALSE)

-----------------------------------------------------------------------------
InsertNode(n) ==
    /\ n \notin nodes
    /\ rbtree' = insert(rbtree, n)
    /\ nodes' = nodes \cup {n}

RemoveNode(n) ==
    /\ n \in nodes
    /\ rbtree' = Forgotten(remove(rbtree, n), n)
    /\ nodes' = nodes \ {n}

Init == rbtree = rb_new /\ nodes = {}

Next == \E n \in 1 .. NNodes : InsertNode(n) \/ RemoveNode(n)

Spec == Init /\ [][Next]_rbvars

-----------------------------------------------------------------------------
\* The black nodes on the way to the leaves below n, for each leaf.
RECURSIVE BlackHeights(_)
BlackHeights(n) ==
    IF n = nil THEN {0}
    ELSE {h + (IF rbtree.red[n] THEN 0 ELSE 1) :
            h \in BlackHeights(rbtree.left[n]) \cup BlackHeights(rbtree.right[n])}

\* A 2-3 tree: as many black nodes on every way down, so that no way is more than
\* twice as long as another and path[] never overflows; red nodes lean left and
\* have no red child; rbt_nil, which every case may touch, is untouched.
Balanced ==
    /\ Cardinality(BlackHeights(rbtree.root)) = 1
    /\ ~rbtree.red[rbtree.root]
    /\ \A n \in nodes : /\ ~rbtree.red[rbtree.right[n]]
                        /\ rbtree.red[n] => ~rbtree.red[rbtree.left[n]]
    /\ rbtree.left[nil] = nil /\ rbtree.right[nil] = nil /\ ~rbtree.red[nil]

Least(S) == IF S = {} THEN nil ELSE Min(S)
Greatest(S) == IF S = {} THEN nil ELSE Max(S)

\* Every way to look into the tree agrees with the set of nodes it holds.
Finds ==
    LET t == rbtree
        sorted == SelectSeq([n \in 1 .. NNodes |-> n], LAMBDA n : n \in nodes)
    IN  /\ rbtn_first(t, t.root) = Least(nodes)
        /\ rbtn_last(t, t.root) = Greatest(nodes)
        /\ iter_recurse(t, t.root) = sorted
        /\ reverse_iter_recurse(t, t.root) = Reverse(sorted)
        /\ \A key \in 1 .. NNodes :
             /\ search(t, key) = (IF key \in nodes THEN key ELSE nil)
             /\ nsearch(t, key) = Least({n \in nodes : n >= key})
             /\ psearch(t, key) = Greatest({n \in nodes : n <= key})
        /\ \A n \in nodes :
             /\ next(t, n) = Least({m \in nodes : m > n})
             /\ prev(t, n) = Greatest({m \in nodes : m < n})
             /\ iter_start(t, n, t.root) = SelectSeq(sorted, LAMBDA m : m >= n)
             /\ reverse_iter_start(t, n, t.root)
                  = Reverse(SelectSeq(sorted, LAMBDA m : m <= n))

\* Whatever was inserted and removed before, the tree is balanced and every search
\* and iteration finds in it exactly the nodes it holds.
RbTreeIsSet == Balanced /\ Finds
=============================================================================

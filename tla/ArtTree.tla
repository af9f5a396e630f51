------------------------------- MODULE ArtTree -------------------------------
(***************************************************************************)
(* The adaptive radix tree of the libvmem examples: a map from keys to     *)
(* values whose nodes grow from 4 to 16, 48 and 256 children and shrink    *)
(* again, and which keeps only the first MAX_PREFIX_LEN letters of the     *)
(* prefix that all keys below a node share.                                *)
(*                                                                         *)
(* A node's children are a sequence of entries [c, node]: in the order of  *)
(* insertion by letter for NODE4 and NODE16, by slot, with holes, for      *)
(* NODE48, and by letter for NODE256.  The sizes at which nodes grow and   *)
(* shrink are parameters, so that a few keys reach every one of them.      *)
(***************************************************************************)
EXTENDS Integers, Sequences, SequencesExt, FiniteSets, FiniteSetsExt

CONSTANTS
    Keys,               \* the keys in use; none is a prefix of another
    Values,             \* the values
    NLetters,           \* letters are 0 .. NLetters - 1
    MAX_PREFIX_LEN,
    Cap4, Cap16, Cap48, \* children of NODE4, NODE16 and NODE48: 4, 16, 48
    Shrink16, Shrink48, Shrink256   \* children left when a node shrinks: 3, 12, 37

VARIABLES
    root,               \* t->root
    size,               \* t->size
    dict                \* the map the tree stands for

artvars == <<root, size, dict>>

NULL == [kind |-> "null"]
Hole == [c |-> -1, node |-> NULL]
Leaf(key, val) == [kind |-> "leaf", key |-> key, val |-> val]
NewNode(type) == [kind |-> "node", type |-> type, plen |-> 0, partial |-> <<>>,
                  ch |-> <<>>]
Entry(c, n) == [c |-> c, node |-> n]

IsLeaf(n) == n.kind = "leaf"
Lesser(a, b) == IF a < b THEN a ELSE b
Live(n) == SelectSeq(n.ch, LAMBDA e : e # Hole)
num_children(n) == Len(Live(n))
ByLetter(es) == SortSeq(es, LAMBDA e, f : e.c < f.c)

\* The first of n positions at which differs(k) holds, or n.
FirstDiff(differs(_), n) ==
    LET D == {k \in 0 .. n - 1 : differs(k)}
    IN  IF D # {} THEN Min(D) ELSE IF n < 0 THEN 0 ELSE n

find_child(n, c) ==
    LET at == {k \in DOMAIN n.ch : n.ch[k].c = c}
    IN  IF at = {} THEN 0 ELSE Min(at)

check_prefix(n, key, depth) ==
    FirstDiff(LAMBDA k : n.partial[k + 1] # key[depth + k + 1],
              Lesser(Lesser(n.plen, MAX_PREFIX_LEN), Len(key) - depth))

PrefixMatches(n, key, depth) ==
    n.plen > 0 => check_prefix(n, key, depth) = Lesser(MAX_PREFIX_LEN, n.plen)

RECURSIVE Search(_, _, _)
Search(n, key, depth) ==
    IF n = NULL THEN NULL
    ELSE IF IsLeaf(n) THEN IF n.key = key THEN n ELSE NULL
    ELSE IF ~PrefixMatches(n, key, depth) THEN NULL
    ELSE LET d == depth + n.plen
             k == find_child(n, key[d + 1])
         IN  IF k = 0 THEN NULL ELSE Search(n.ch[k].node, key, d + 1)

art_search(t, key) == Search(t, key, 0)

\* The leaf with the lowest letters below a node.
RECURSIVE minimum(_)
minimum(n) ==
    IF IsLeaf(n) THEN n
    ELSE minimum(IF n.type \in {4, 16} THEN n.ch[1].node
                 ELSE ByLetter(Live(n))[1].node)

\* The leaves in the order recursive_iter meets them.
RECURSIVE recursive_iter(_)
recursive_iter(n) ==
    IF n = NULL THEN <<>>
    ELSE IF IsLeaf(n) THEN <<n>>
    ELSE LET es == IF n.type \in {4, 16} THEN n.ch ELSE ByLetter(Live(n))
         IN  FlattenSeq([k \in DOMAIN es |-> recursive_iter(es[k].node)])

longest_common_prefix(a, b, depth) ==
    FirstDiff(LAMBDA k : a[depth + k + 1] # b[depth + k + 1],
              Lesser(Len(a), Len(b)) - depth)

-----------------------------------------------------------------------------
(* Insertion.                                                              *)

add_child256(n, c, x) == [n EXCEPT !.ch = ByLetter(Append(@, Entry(c, x)))]

\* The first free slot; or a node for every letter.
add_child48(n, c, x) ==
    IF num_children(n) < Cap48
    THEN LET holes == {k \in DOMAIN n.ch : n.ch[k] = Hole}
         IN  [n EXCEPT !.ch = IF holes = {} THEN Append(@, Entry(c, x))
                              ELSE [@ EXCEPT ![Min(holes)] = Entry(c, x)]]
    ELSE add_child256([n EXCEPT !.type = 256, !.ch = ByLetter(@)], c, x)

\* Letters are compared as signed bytes here, and as unsigned ones in NODE4.
Signed(c) == IF c >= NLetters \div 2 THEN c - NLetters ELSE c

InsertBefore(es, e, after(_)) ==
    LET later == {k \in DOMAIN es : after(es[k])}
    IN  InsertAt(es, IF later = {} THEN Len(es) + 1 ELSE Min(later), e)

add_child16(n, c, x) ==
    IF num_children(n) < Cap16
    THEN [n EXCEPT !.ch = InsertBefore(@, Entry(c, x),
                                       LAMBDA e : Signed(c) < Signed(e.c))]
    ELSE add_child48([n EXCEPT !.type = 48], c, x)

add_child4(n, c, x) ==
    IF num_children(n) < Cap4
    THEN [n EXCEPT !.ch = InsertBefore(@, Entry(c, x), LAMBDA e : c < e.c)]
    ELSE add_child16([n EXCEPT !.type = 16], c, x)

add_child(n, c, x) ==
    CASE n.type = 4 -> add_child4(n, c, x)
      [] n.type = 16 -> add_child16(n, c, x)
      [] n.type = 48 -> add_child48(n, c, x)
      [] n.type = 256 -> add_child256(n, c, x)

\* How far a key agrees with a node's prefix, looked up in a leaf where the node
\* does not keep all of it.
prefix_mismatch(n, key, depth) ==
    LET here == Lesser(Lesser(MAX_PREFIX_LEN, n.plen), Len(key) - depth)
        k == FirstDiff(LAMBDA j : n.partial[j + 1] # key[depth + j + 1], here)
        l == minimum(n).key
    IN  IF k < here \/ n.plen <= MAX_PREFIX_LEN THEN k
        ELSE FirstDiff(LAMBDA j : j >= k /\ l[depth + j + 1] # key[depth + j + 1],
                       Lesser(Len(l), Len(key)) - depth)

\* n letters of s from depth on, as many of them as a node keeps.
Kept(s, depth, n) == SubSeq(s, depth + 1, depth + Lesser(MAX_PREFIX_LEN, n))

\* A leaf becomes a node with two leaves.
SplitLeaf(l, key, val, depth) ==
    LET lcp == longest_common_prefix(l.key, key, depth)
        new == [NewNode(4) EXCEPT !.plen = lcp, !.partial = Kept(key, depth, lcp)]
    IN  add_child4(add_child4(new, l.key[depth + lcp + 1], l),
                   key[depth + lcp + 1], Leaf(key, val))

\* Mistake: what is left of a prefix that the node does not keep whole is taken
\* from what the node keeps.
split_prefix_from_node(n, key, val, depth, d) ==
    LET new == [NewNode(4) EXCEPT !.plen = d, !.partial = Kept(n.partial, 0, d)]
        rest == n.plen - (d + 1)
        old == [n EXCEPT !.plen = rest, !.partial = Kept(@ \o <<0, 0, 0>>, d + 1, rest)]
        edge == minimum(n).key[depth + d + 1]
    IN  add_child4(add_child4(new, edge, old), key[depth + d + 1], Leaf(key, val))

\* A key leaves a node's prefix after d letters: a node above it takes those.
SplitPrefix(n, key, val, depth, d) ==
    LET new == [NewNode(4) EXCEPT !.plen = d, !.partial = Kept(n.partial, 0, d)]
        rest == n.plen - (d + 1)
        l == minimum(n).key
        short == n.plen <= MAX_PREFIX_LEN
        edge == IF short THEN n.partial[d + 1] ELSE l[depth + d + 1]
        old == [n EXCEPT !.plen = rest,
                         !.partial = IF short THEN Kept(@, d + 1, rest)
                                     ELSE Kept(l, depth + d + 1, rest)]
    IN  add_child4(add_child4(new, edge, old), key[depth + d + 1], Leaf(key, val))

RECURSIVE recursive_insert(_, _, _, _)
recursive_insert(n, key, val, depth) ==
    IF n = NULL THEN Leaf(key, val)
    ELSE IF IsLeaf(n) THEN IF n.key = key THEN [n EXCEPT !.val = val]
                           ELSE SplitLeaf(n, key, val, depth)
    ELSE LET d == IF n.plen = 0 THEN 0 ELSE prefix_mismatch(n, key, depth)
             c == key[depth + n.plen + 1]
             k == find_child(n, c)
         IN  IF d < n.plen THEN SplitPrefix(n, key, val, depth, d)
             ELSE IF k = 0 THEN add_child(n, c, Leaf(key, val))
             ELSE [n EXCEPT !.ch[k].node =
                       recursive_insert(@, key, val, depth + n.plen + 1)]

-----------------------------------------------------------------------------
(* Deletion.                                                               *)

\* A NODE4 with one child left is replaced by it, and the prefixes are joined.
remove_child4(n, k) ==
    LET rest == RemoveAt(n.ch, k)
        x == rest[1].node
        joined == n.partial \o <<rest[1].c>>
                    \o (IF IsLeaf(x) THEN <<>> ELSE x.partial)
    IN  IF Len(rest) # 1 THEN [n EXCEPT !.ch = rest]
        ELSE IF IsLeaf(x) THEN x
        ELSE [x EXCEPT !.plen = @ + n.plen + 1,
                       !.partial = Kept(joined, 0, n.plen + 1 + x.plen)]

remove_child16(n, k) ==
    LET rest == RemoveAt(n.ch, k)
    IN  [n EXCEPT !.ch = rest, !.type = IF Len(rest) = Shrink16 THEN 4 ELSE 16]

\* The slot is left empty, until the node shrinks.
remove_child48(n, k) ==
    LET m == [n EXCEPT !.ch[k] = Hole]
    IN  IF num_children(m) = Shrink48
        THEN [m EXCEPT !.ch = ByLetter(Live(m)), !.type = 16]
        ELSE m

remove_child256(n, k) ==
    LET rest == RemoveAt(n.ch, k)
    IN  [n EXCEPT !.ch = rest, !.type = IF Len(rest) = Shrink256 THEN 48 ELSE 256]

remove_child(n, k) ==
    CASE n.type = 4 -> remove_child4(n, k)
      [] n.type = 16 -> remove_child16(n, k)
      [] n.type = 48 -> remove_child48(n, k)
      [] n.type = 256 -> remove_child256(n, k)

\* The tree without the key; the tree itself if it does not have it.
RECURSIVE recursive_delete(_, _, _)
recursive_delete(n, key, depth) ==
    IF n = NULL THEN n
    ELSE IF IsLeaf(n) THEN IF n.key = key THEN NULL ELSE n
    ELSE IF ~PrefixMatches(n, key, depth) THEN n
    ELSE LET d == depth + n.plen
             k == find_child(n, key[d + 1])
             x == n.ch[k].node
         IN  IF k = 0 THEN n
             ELSE IF IsLeaf(x) THEN IF x.key = key THEN remove_child(n, k) ELSE n
             ELSE [n EXCEPT !.ch[k].node = recursive_delete(@, key, d + 1)]

-----------------------------------------------------------------------------
art_insert(key, val) ==
    /\ root' = recursive_insert(root, key, val, 0)
    /\ size' = IF art_search(root, key) = NULL THEN size + 1 ELSE size
    /\ dict' = [k \in DOMAIN dict \cup {key} |-> IF k = key THEN val ELSE dict[k]]

art_delete(key) ==
    LET t == recursive_delete(root, key, 0)
    IN  /\ root' = t
        /\ size' = IF t # root THEN size - 1 ELSE size
        /\ dict' = [k \in DOMAIN dict \ {key} |-> dict[k]]

Init == root = NULL /\ size = 0 /\ dict = [k \in {} |-> 0]

Next ==
    \E key \in Keys : \/ \E val \in Values : art_insert(key, val)
                      \/ art_delete(key)

Spec == Init /\ [][Next]_artvars

-----------------------------------------------------------------------------
\* The tree is the map it stands for: every key is found with the value last
\* inserted and no other is, an iteration meets each once, and size counts them,
\* through every growth, shrinking, split and joining of nodes.
TreeIsMap ==
    /\ \A key \in Keys :
         art_search(root, key) = IF key \in DOMAIN dict THEN Leaf(key, dict[key])
                                 ELSE NULL
    /\ LET found == recursive_iter(root)
       IN  /\ Len(found) = Cardinality(DOMAIN dict)
           /\ ToSet(found) = {Leaf(key, dict[key]) : key \in DOMAIN dict}
    /\ size = Cardinality(DOMAIN dict)
=============================================================================

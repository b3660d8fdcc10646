---------------------------- MODULE BTreeNodes ------------------------------
(***************************************************************************)
(* The nodes of the B-tree of glibs/btree.h and the walks over them.  A    *)
(* heap h maps the address of each allocated node to its fields; count is  *)
(* the length of values, and an internal node has one child more than      *)
(* values.  Positions count from zero, as in the code.  The parent of the  *)
(* root is the leftmost leaf: a node is the root if its parent is a leaf.  *)
(***************************************************************************)
EXTENDS Integers, SequencesExt

CONSTANTS
    Values,       \* what can be stored
    KeyOf,        \* the key of each value
    NodeValues    \* kNodeValues: how many values a node of full size holds

ASSUME KeyOfAssumption == KeyOf \in [Values -> Int]

ASSUME NodeValuesAssumption == NodeValues \in Nat /\ NodeValues >= 3

MinNodeValues == NodeValues \div 2

NoNode == 0

\* Slots of nodes, which is what an iterator points at.
Slot(n, i) == [node |-> n, position |-> i]

NoSlot == Slot(NoNode, 0)

-----------------------------------------------------------------------------
(* One node and its neighbours. *)

NewNode(leaf, parent, max) ==
    [leaf |-> leaf, parent |-> parent, position |-> 0, max_count |-> max,
     values |-> <<>>, children |-> <<>>]

Fresh(h) == CHOOSE n \in 1..(Cardinality(DOMAIN h) + 1) : n \notin DOMAIN h

FreeNothing(h, ns) == h    \* mutant

\* The heap with a new node at address n.
Allocate(h, n, node) == [m \in DOMAIN h \cup {n} |-> IF m = n THEN node ELSE h[m]]

Free(h, ns) == [n \in DOMAIN h \ ns |-> h[n]]

Count(h, n) == Len(h[n].values)

IsFull(h, n) == Count(h, n) = h[n].max_count

Child(h, n, i) == h[n].children[i + 1]

IsRoot(h, n) == h[h[n].parent].leaf

HasLeft(h, n) == h[n].position > 0

HasRight(h, n) == h[n].position < Count(h, h[n].parent)

Left(h, n) == Child(h, h[n].parent, h[n].position - 1)

Right(h, n) == Child(h, h[n].parent, h[n].position + 1)

ValueAt(h, s) == h[s.node].values[s.position + 1]

-----------------------------------------------------------------------------
(* Changing nodes. *)

Take(s, k) == SubSeq(s, 1, Min({k, Len(s)}))

Drop(s, k) == SubSeq(s, k + 1, Len(s))

AdoptParentOnly(h, n) ==    \* mutant
    [m \in DOMAIN h |-> IF m \in Range(h[n].children)
                         THEN [h[m] EXCEPT !.parent = n] ELSE h[m]]

\* set_child: the children of n know their parent and their position in it.
Adopt(h, n) ==
    LET kids  == h[n].children
        At(m) == CHOOSE i \in DOMAIN kids : kids[i] = m
    IN  [m \in DOMAIN h |->
            IF m \in Range(kids)
            THEN [h[m] EXCEPT !.parent = n, !.position = At(m) - 1] ELSE h[m]]

Fill(h, n, values, children) ==
    Adopt([h EXCEPT ![n].values = values, ![n].children = children], n)

InsertValue(h, s, v) ==
    [h EXCEPT ![s.node].values = InsertAt(@, s.position + 1, v)]

RemoveValue(h, s) ==
    [h EXCEPT ![s.node].values = RemoveAt(@, s.position + 1)]

\* Share the values of n, of its right sibling and the one between them in
\* the parent out again, so that n keeps the first k and the next one is in
\* the parent.
Share(h, n, k) ==
    LET r      == Right(h, n)
        p      == h[n].parent
        i      == h[n].position + 1
        values == (h[n].values \o <<h[p].values[i]>>) \o h[r].values
        kids   == h[n].children \o h[r].children
        filled == Fill(Fill(h, n, Take(values, k), Take(kids, k + 1)),
                       r, Drop(values, k + 1), Drop(kids, k + 1))
    IN  [filled EXCEPT ![p].values[i] = values[k + 1]]

RebalanceRightToLeft(h, n, to_move) == Share(h, n, Count(h, n) + to_move)

RebalanceLeftToRight(h, n, to_move) == Share(h, n, Count(h, n) - to_move)

\* How many values a split takes out of n, biased by the place of insertion.
ToSplitOff(h, s) ==
    IF s.position = 0 THEN Count(h, s.node) - 1
    ELSE IF s.position = h[s.node].max_count THEN 0
    ELSE Count(h, s.node) \div 2

\* Those go to the new node, and the last one left goes to the parent.
Split(h, s, new) ==
    LET n     == s.node
        p     == h[n].parent
        i     == h[n].position + 1
        k     == Count(h, n) - ToSplitOff(h, s) - 1
        grown == Allocate(h, new, NewNode(h[n].leaf, p, NodeValues))
        filled == Fill(Fill(grown, new, Drop(h[n].values, k + 1),
                                        Drop(h[n].children, k + 1)),
                       n, Take(h[n].values, k), Take(h[n].children, k + 1))
    IN  Fill(filled, p, InsertAt(h[p].values, i, h[n].values[k + 1]),
                        InsertAt(h[p].children, i + 1, new))

\* n takes in the value after it in the parent and its right sibling.
Merge(h, n) ==
    LET r == Right(h, n)
        p == h[n].parent
        i == h[n].position + 1
        filled == Fill(h, n, (h[n].values \o <<h[p].values[i]>>) \o h[r].values,
                             h[n].children \o h[r].children)
    IN  Free(Fill(filled, p, RemoveAt(h[p].values, i),
                             RemoveAt(h[p].children, i + 1)), {r})

\* swap of the contents of n into the empty node m.
MoveContents(h, n, m) ==
    [Fill(h, m, h[n].values, h[n].children) EXCEPT ![n].values = <<>>]

-----------------------------------------------------------------------------
(* Walking over nodes. *)

\* The nodes below n, itself included, in the order of a first visit.
Nodes(h, n) ==
    LET visit[m \in DOMAIN h] ==
            LET some[i \in 0..Len(h[m].children)] ==
                    IF i = 0 THEN <<m>>
                    ELSE some[i - 1] \o visit[h[m].children[i]]
            IN  some[Len(h[m].children)]
    IN  IF n = NoNode THEN <<>> ELSE visit[n]

\* The slots below n, in order: those below the first child, then each value
\* and the slots below the child after it.
Slots(h, n) ==
    LET visit[m \in DOMAIN h] ==
            LET kid(i) == IF h[m].leaf THEN <<>> ELSE visit[Child(h, m, i)]
                some[i \in 0..Count(h, m)] ==
                    IF i = 0 THEN kid(0)
                    ELSE some[i - 1] \o (<<Slot(m, i - 1)>> \o kid(i))
            IN  some[Count(h, m)]
    IN  IF n = NoNode THEN <<>> ELSE visit[n]

FirstLeaf(h, n) ==
    LET down[m \in DOMAIN h] == IF h[m].leaf THEN m ELSE down[Child(h, m, 0)]
    IN  down[n]

LastLeafOffByOne(h, n) ==    \* mutant
    LET down[m \in DOMAIN h] ==
            IF h[m].leaf THEN m ELSE down[Child(h, m, Count(h, m) - 1)]
    IN  down[n]

LastLeaf(h, n) ==
    LET down[m \in DOMAIN h] ==
            IF h[m].leaf THEN m ELSE down[Child(h, m, Count(h, m))]
    IN  down[n]

\* The slot of an ancestor that comes next after, or last before, the values
\* below n.
After(h, n) ==
    LET up[m \in DOMAIN h] ==
            IF IsRoot(h, m) THEN NoSlot
            ELSE IF HasRight(h, m) THEN Slot(h[m].parent, h[m].position)
            ELSE up[h[m].parent]
    IN  up[n]

Before(h, n) ==
    LET up[m \in DOMAIN h] ==
            IF IsRoot(h, m) THEN NoSlot
            ELSE IF HasLeft(h, m) THEN Slot(h[m].parent, h[m].position - 1)
            ELSE up[h[m].parent]
    IN  up[n]

\* s, or where the walk stays if there is nothing there.
OrStay(s, stay) == IF s = NoSlot THEN stay ELSE s

Increment(h, s) ==
    IF ~h[s.node].leaf
    THEN Slot(FirstLeaf(h, Child(h, s.node, s.position + 1)), 0)
    ELSE IF s.position + 1 < Count(h, s.node)
    THEN Slot(s.node, s.position + 1)
    ELSE OrStay(After(h, s.node), Slot(s.node, Count(h, s.node)))

Decrement(h, s) ==
    IF ~h[s.node].leaf
    THEN LET l == LastLeaf(h, Child(h, s.node, s.position))
         IN  Slot(l, Count(h, l) - 1)
    ELSE IF s.position - 1 >= 0
    THEN Slot(s.node, s.position - 1)
    ELSE OrStay(Before(h, s.node), Slot(s.node, -1))

\* internal_last: a place behind the last value of a leaf is a slot above it,
\* or none.
InternalLast(h, s) ==
    IF s.node # NoNode /\ s.position = Count(h, s.node)
    THEN After(h, s.node) ELSE s

\* The place in a leaf before the first value below n that is not passed.
Descend(h, n, passed) ==
    LET Passed(m) == Cardinality({i \in DOMAIN h[m].values : h[m].values[i] \in passed})
        down[m \in DOMAIN h] ==
            IF h[m].leaf THEN Slot(m, Passed(m)) ELSE down[Child(h, m, Passed(m))]
    IN  IF n = NoNode THEN NoSlot ELSE down[n]

Locate(h, n, k) == Descend(h, n, {v \in Values : KeyOf[v] < k})

LowerBound(h, n, k) == InternalLast(h, Locate(h, n, k))

UpperBoundStrict(h, n, k) == LowerBound(h, n, k)    \* mutant

UpperBound(h, n, k) ==
    InternalLast(h, Descend(h, n, {v \in Values : KeyOf[v] <= k}))

FindNearest(h, n, k) == LowerBound(h, n, k)    \* mutant

\* internal_find_unique and internal_find_multi.
Find(h, n, k) ==
    LET s == LowerBound(h, n, k)
    IN  IF s # NoSlot /\ KeyOf[ValueAt(h, s)] <= k THEN s ELSE NoSlot
=============================================================================

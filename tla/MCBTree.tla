------------------------------ MODULE MCBTree -------------------------------
(***************************************************************************)
(* Small instances of the B-tree.                                          *)
(***************************************************************************)
EXTENDS BTree

CONSTANT a    \* a value

\* A key that is always the same, so that a hint may put a value anywhere.
SameKey == [v \in Values |-> 0]

\* Values that are their own keys.
OwnKey == [v \in Values |-> v]

\* Addresses do not matter: the view names nodes by their place in a walk
\* through the tree.
View ==
    LET walk == Nodes(heap, root)
        name == [n \in Range(walk) |-> CHOOSE i \in DOMAIN walk : walk[i] = n]
        Name(n) == IF n \in DOMAIN name THEN name[n] ELSE -n
        NameSlot(s) == Slot(Name(s.node), s.position)
        nodes == [i \in DOMAIN walk |->
                    [heap[walk[i]] EXCEPT
                        !.parent = Name(@),
                        !.children = [j \in DOMAIN @ |-> Name(@[j])]]]
    IN  <<nodes, DOMAIN heap \ Range(walk), Name(rightmost), size, pc, call,
          NameSlot(iter), [i \in DOMAIN stack |-> NameSlot(stack[i])],
          NameSlot(res), internal_delete, count, erased, source>>
=============================================================================

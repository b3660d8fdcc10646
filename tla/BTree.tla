------------------------------- MODULE BTree --------------------------------
(***************************************************************************)
(* The class btree of glibs/btree.h, as btree_map and btree_multimap use   *)
(* it.  A call runs through the steps of the code that change nodes: the   *)
(* walk down to a leaf, making room there and in its ancestors (the        *)
(* recursion of rebalance_or_split is the stack), the insertion; or the    *)
(* removal from a leaf, the way back up through merges and rebalances, and *)
(* the iterator that erase returns.                                        *)
(***************************************************************************)
EXTENDS BTreeNodes

CONSTANTS
    Unique,    \* whether the container is a map or a multimap
    MaxSize    \* bound: no call inserts beyond this many values

ASSUME UniqueAssumption == Unique \in BOOLEAN

ASSUME MaxSizeAssumption == MaxSize \in Nat

VARIABLES
    heap,             \* the nodes
    root,             \* root_
    rightmost,        \* the fields of an internal root
    size,
    pc,               \* the step of the call that comes next
    call,             \* the call in progress
    iter,             \* the iterator it works on
    stack,            \* rebalance_or_split: node and insert_position of each
                      \* invocation, the innermost first
    res,              \* erase: the iterator to return; else the answer
    internal_delete,  \* erase: the value was on an internal node
    count,            \* erase of a range: how many values, and how many of
    erased,           \* them are gone
    source            \* assign: the values still to be copied

tree == <<heap, root, rightmost, size>>

vars == <<tree, pc, call, iter, stack, res, internal_delete, count, erased, source>>

-----------------------------------------------------------------------------
(* What the container says of itself. *)

RootIsLeaf == heap[root].leaf

Rightmost == IF root = NoNode \/ RootIsLeaf THEN root ELSE rightmost

Leftmost == IF root = NoNode THEN NoNode ELSE heap[root].parent

Size == IF root = NoNode THEN 0
        ELSE IF RootIsLeaf THEN Count(heap, root) ELSE size

Begin == Slot(Leftmost, 0)

End == Slot(Rightmost, IF root = NoNode THEN 0 ELSE Count(heap, Rightmost))

\* internal_end
OrEnd(s) == IF s = NoSlot THEN End ELSE s

Contents == LET slots == Slots(heap, root)
            IN  [i \in DOMAIN slots |-> ValueAt(heap, slots[i])]

Lost == -2

\* The place an iterator points at, and the other way round.
PlaceOf(s) ==
    LET slots == Slots(heap, root)
    IN  IF s \in Range(slots) THEN (CHOOSE i \in DOMAIN slots : slots[i] = s) - 1
        ELSE IF s = End THEN Len(slots) ELSE Lost

IteratorAt(n) ==
    LET slots == Slots(heap, root)
    IN  IF n < Len(slots) THEN slots[n + 1] ELSE End

-----------------------------------------------------------------------------
(* What it is to implement. *)

Answer ==
    IF pc = "done"
    THEN CASE call.kind = "erase_key" -> erased
           [] call.kind \in {"clear", "copy"} -> Size
           [] OTHER -> PlaceOf(res)
    ELSE IF call.kind = "erase" /\ erased = 1 THEN call.at ELSE -1

M == INSTANCE Multimap WITH entries <- Contents \o source, answer <- Answer

Init ==
    /\ heap = <<>>
    /\ root = NoNode
    /\ rightmost = NoNode
    /\ size = 0
    /\ pc = "idle"
    /\ call = M!NoCall
    /\ iter = NoSlot
    /\ stack = <<>>
    /\ res = NoSlot
    /\ internal_delete = FALSE
    /\ count = 0
    /\ erased = 0
    /\ source = <<>>

\* The program calls an operation of the container.
Ask ==
    /\ pc = "idle"
    /\ call' \in M!Calls(Size)
    /\ pc' = "called"
    /\ UNCHANGED <<tree, iter, stack, res, internal_delete, count, erased, source>>

\* The operation returns.
Return ==
    /\ pc = "done"
    /\ pc' = "idle"
    /\ call' = M!NoCall
    /\ iter' = NoSlot
    /\ res' = NoSlot
    /\ internal_delete' = FALSE
    /\ count' = 0
    /\ erased' = 0
    /\ UNCHANGED <<tree, stack, source>>

-----------------------------------------------------------------------------
(* Where to insert. *)

Value == IF call.kind = "copy" THEN Head(source) ELSE call.value

Key == KeyOf[Value]

KeyAt(s) == KeyOf[ValueAt(heap, s)]

NewRoot(leaf) ==
    heap' = Allocate(heap, Fresh(heap), leaf) /\ root' = Fresh(heap)

\* internal_insert takes a place on an internal node to the end of the leaf
\* before it.
LeafPlace(s) ==
    IF heap[s.node].leaf THEN s
    ELSE LET l == Decrement(heap, s) IN Slot(l.node, l.position + 1)

InsertAtSlot(s) ==
    /\ iter' = LeafPlace(s)
    /\ pc' = "insert"
    /\ UNCHANGED <<tree, call, stack, res, internal_delete, count, erased, source>>

FitsBeforeNext(s) == s # End => Key <= KeyAt(s)    \* mutant

\* Whether the value goes directly before the hint, or directly after it.
FitsBefore(s) ==
    LET before == Decrement(heap, s)
    IN  IF Unique
        THEN /\ s # End => Key < KeyAt(s)
             /\ s # Begin => KeyAt(before) < Key
        ELSE /\ s # End => Key <= KeyAt(s)
             /\ s # Begin => KeyAt(before) <= Key

FitsAfter(s) ==
    LET next == Increment(heap, s)
    IN  /\ s # End /\ KeyAt(s) < Key
        /\ next # End => IF Unique THEN Key < KeyAt(next) ELSE Key <= KeyAt(next)

\* The key of the hint is that of the value, in a map.
HintHasKey(s) == Unique /\ s # End /\ KeyAt(s) = Key

InsertAtHint ==
    /\ pc = "called" /\ call.kind = "insert_hint" /\ root # NoNode
    /\ LET hint == IteratorAt(call.at)
       IN  \/ FitsBefore(hint) /\ InsertAtSlot(hint)
           \/ FitsAfter(hint) /\ InsertAtSlot(Increment(heap, hint))

AnswerHint ==
    /\ pc = "called" /\ call.kind = "insert_hint" /\ root # NoNode
    /\ HintHasKey(IteratorAt(call.at))
    /\ res' = IteratorAt(call.at)
    /\ pc' = "done"
    /\ UNCHANGED <<tree, call, iter, stack, internal_delete, count, erased, source>>

\* Without a usable hint the place is looked for from the root; an empty
\* container gets a leaf with room for one value.
SearchPlace ==
    /\ pc = "called" /\ call.kind \in {"insert", "insert_hint"}
    /\ (call.kind = "insert_hint" /\ root # NoNode) =>
          LET hint == IteratorAt(call.at)
          IN  ~FitsBefore(hint) /\ ~FitsAfter(hint) /\ ~HintHasKey(hint)
    /\ IF root = NoNode
       THEN NewRoot(NewNode(TRUE, Fresh(heap), 1))
       ELSE UNCHANGED <<heap, root>>
    /\ pc' = "search"
    /\ UNCHANGED <<rightmost, size, call, iter, stack, res, internal_delete,
                   count, erased, source>>

FoundKey ==
    /\ pc = "search" /\ Unique
    /\ Find(heap, root, Key) # NoSlot
    /\ res' = Find(heap, root, Key)
    /\ pc' = "done"
    /\ UNCHANGED <<tree, call, iter, stack, internal_delete, count, erased, source>>

FoundPlace ==
    /\ pc = "search"
    /\ Unique => Find(heap, root, Key) = NoSlot
    /\ InsertAtSlot(IF Unique THEN Locate(heap, root, Key)
                    ELSE OrEnd(UpperBound(heap, root, Key)))

-----------------------------------------------------------------------------
(* internal_insert *)

\* The value stands in its leaf; an assignment goes on with the next one.
Inserted(h, s) ==
    /\ heap' = InsertValue(h, s, Value)
    /\ IF call.kind = "copy"
       THEN source' = Tail(source) /\ pc' = "copy" /\ UNCHANGED res
       ELSE res' = s /\ pc' = "done" /\ UNCHANGED source

InsertIntoLeaf ==
    /\ pc = "insert" /\ ~IsFull(heap, iter.node)
    /\ Inserted(heap, iter)
    /\ size' = IF RootIsLeaf THEN size ELSE size + 1
    /\ UNCHANGED <<root, rightmost, call, iter, stack, internal_delete, count, erased>>

GrownSizeDoubled(max) == 2 * max    \* mutant

GrownSize(max) == Min({NodeValues, 2 * max})

\* A root of less than full size is replaced by one of twice the size.
GrowRoot ==
    /\ pc = "insert"
    /\ IsFull(heap, iter.node) /\ heap[iter.node].max_count < NodeValues
    /\ LET new   == Fresh(heap)
           max   == GrownSize(heap[root].max_count)
           grown == Allocate(heap, new, NewNode(TRUE, new, max))
       IN  /\ Inserted(Free(MoveContents(grown, root, new), {root}),
                       Slot(new, iter.position))
           /\ root' = new
    /\ UNCHANGED <<rightmost, size, call, iter, stack, internal_delete, count, erased>>

MakeRoom ==
    /\ pc = "insert"
    /\ IsFull(heap, iter.node) /\ heap[iter.node].max_count >= NodeValues
    /\ stack' = <<iter>>
    /\ pc' = "make_room"
    /\ UNCHANGED <<tree, call, iter, res, internal_delete, count, erased, source>>

InsertIntoRoom ==
    /\ pc = "room"
    /\ Inserted(heap, iter)
    /\ size' = size + 1
    /\ UNCHANGED <<root, rightmost, call, iter, stack, internal_delete, count, erased>>

-----------------------------------------------------------------------------
(* rebalance_or_split *)

Frame == Head(stack)

OneOf(b) == IF b THEN 1 ELSE 0

\* How many values to move to the left sibling and whether that makes room at
\* the place of insertion, and the same for the right one.
ToMoveLeft(f) ==
    LET l == Left(heap, f.node)
        max == heap[l].max_count
    IN  Max({1, (max - Count(heap, l)) \div (1 + OneOf(f.position < max))})

LeftHasAnyRoom(f) ==    \* mutant
    f.node # root /\ HasLeft(heap, f.node) /\ ~IsFull(heap, Left(heap, f.node))

LeftHasRoom(f) ==
    /\ f.node # root /\ HasLeft(heap, f.node)
    /\ LET l == Left(heap, f.node)
       IN  /\ ~IsFull(heap, l)
           /\ \/ f.position - ToMoveLeft(f) >= 0
              \/ Count(heap, l) + ToMoveLeft(f) < heap[l].max_count

ToMoveRight(f) ==
    LET r == Right(heap, f.node)
    IN  Max({1, (heap[r].max_count - Count(heap, r)) \div (1 + OneOf(f.position > 0))})

RightHasRoom(f) ==
    /\ f.node # root /\ HasRight(heap, f.node)
    /\ LET r == Right(heap, f.node)
       IN  /\ ~IsFull(heap, r)
           /\ \/ f.position <= Count(heap, f.node) - ToMoveRight(f)
              \/ Count(heap, r) + ToMoveRight(f) < heap[r].max_count

\* An invocation ends with the place where there is room now: the caller
\* inserts there, or, if it is an invocation itself, goes on to split.
RoomAt(s) ==
    /\ stack' = Tail(stack)
    /\ IF Len(stack) = 1
       THEN iter' = s /\ pc' = "room"
       ELSE pc' = "split" /\ UNCHANGED iter

RoomOnLeft ==
    /\ pc = "make_room" /\ LeftHasRoom(Frame)
    /\ LET f == Frame
           l == Left(heap, f.node)
           m == ToMoveLeft(f)
           i == f.position - m
       IN  /\ heap' = RebalanceRightToLeft(heap, l, m)
           /\ RoomAt(IF i < 0 THEN Slot(l, i + Count(heap', l) + 1)
                     ELSE Slot(f.node, i))
    /\ UNCHANGED <<root, rightmost, size, call, res, internal_delete, count,
                   erased, source>>

RoomOnRight ==
    /\ pc = "make_room" /\ ~LeftHasRoom(Frame) /\ RightHasRoom(Frame)
    /\ LET f == Frame
           r == Right(heap, f.node)
       IN  /\ heap' = RebalanceLeftToRight(heap, f.node, ToMoveRight(f))
           /\ LET left == Count(heap', f.node)
              IN  RoomAt(IF f.position > left THEN Slot(r, f.position - left - 1)
                         ELSE f)
    /\ UNCHANGED <<root, rightmost, size, call, res, internal_delete, count,
                   erased, source>>

NoRoomBeside(f) == ~LeftHasRoom(f) /\ ~RightHasRoom(f)

\* A full parent is made room in first.
AskParent ==
    /\ pc = "make_room" /\ Frame.node # root /\ NoRoomBeside(Frame)
    /\ LET n == Frame.node
           p == heap[n].parent
       IN  IF IsFull(heap, p)
           THEN stack' = <<Slot(p, heap[n].position)>> \o stack /\ UNCHANGED pc
           ELSE pc' = "split" /\ UNCHANGED stack
    /\ UNCHANGED <<tree, call, iter, res, internal_delete, count, erased, source>>

\* A leaf that is the root becomes the child of a new root.
NewRootAboveLeaf ==
    /\ pc = "make_room" /\ Frame.node = root /\ RootIsLeaf
    /\ LET new == Fresh(heap)
       IN  /\ heap' = Fill(Allocate(heap, new,
                                    NewNode(FALSE, heap[root].parent, NodeValues)),
                           new, <<>>, <<root>>)
           /\ root' = new
           /\ rightmost' = heap[root].parent
           /\ size' = Count(heap, heap[root].parent)
    /\ pc' = "split"
    /\ UNCHANGED <<call, iter, stack, res, internal_delete, count, erased, source>>

\* An internal root stays the root: its contents go to a new node below it.
NewNodeBelowRoot ==
    /\ pc = "make_room" /\ Frame.node = root /\ ~RootIsLeaf
    /\ LET new   == Fresh(heap)
           grown == Allocate(heap, new, NewNode(FALSE, heap[root].parent, NodeValues))
       IN  /\ heap' = Fill(MoveContents(grown, root, new), root, <<>>, <<new>>)
           /\ stack' = [stack EXCEPT ![1].node = new]
    /\ pc' = "split"
    /\ UNCHANGED <<root, rightmost, size, call, iter, res, internal_delete,
                   count, erased, source>>

RightmostKept(n, new) == rightmost    \* mutant

RightmostAfterSplit(n, new) == IF rightmost = n THEN new ELSE rightmost

\* Part of a node goes to a new one on its right.
SplitNode ==
    /\ pc = "split"
    /\ LET f   == Frame
           new == Fresh(heap)
       IN  /\ heap' = Split(heap, f, new)
           /\ rightmost' = RightmostAfterSplit(f.node, new)
           /\ LET left == Count(heap', f.node)
              IN  RoomAt(IF f.position > left THEN Slot(new, f.position - left - 1)
                         ELSE f)
    /\ UNCHANGED <<root, size, call, res, internal_delete, count, erased, source>>

-----------------------------------------------------------------------------
(* erase *)

EraseAt ==
    /\ pc = "called" /\ call.kind = "erase"
    /\ iter' = IteratorAt(call.at)
    /\ count' = 1
    /\ pc' = "erase"
    /\ UNCHANGED <<tree, call, stack, res, internal_delete, erased, source>>

\* erase_unique finds the value, erase_multi the range of values.
EraseKey ==
    /\ pc = "called" /\ call.kind = "erase_key"
    /\ LET first == IF Unique THEN Find(heap, root, call.key)
                    ELSE LowerBound(heap, root, call.key)
           last  == OrEnd(UpperBound(heap, root, call.key))
           n     == IF first = NoSlot THEN 0
                    ELSE IF Unique THEN 1 ELSE PlaceOf(last) - PlaceOf(first)
       IN  /\ iter' = first
           /\ count' = n
           /\ pc' = IF n = 0 THEN "done" ELSE "erase"
    /\ UNCHANGED <<tree, call, stack, res, internal_delete, erased, source>>

\* The value leaves its leaf.  One on an internal node changes places with
\* the one before it, which is on a leaf.
RemoveFromLeaf ==
    /\ pc = "erase"
    /\ LET internal == ~heap[iter.node].leaf
           s        == IF internal THEN Decrement(heap, iter) ELSE iter
           swapped  == IF internal
                       THEN [heap EXCEPT ![iter.node].values[iter.position + 1] =
                                             ValueAt(heap, s)]
                       ELSE heap
       IN  /\ heap' = RemoveValue(swapped, s)
           /\ iter' = s
           /\ res' = s
           /\ internal_delete' = internal
    /\ size' = IF RootIsLeaf THEN size ELSE size - 1
    /\ erased' = erased + 1
    /\ pc' = "rebalance"
    /\ UNCHANGED <<root, rightmost, call, stack, count, source>>

\* The call returns s; erasing a range goes on from there.
EraseReturns(s) ==
    /\ res' = s
    /\ iter' = s
    /\ pc' = IF erased < count THEN "erase" ELSE "done"

RootReached == pc = "rebalance" /\ iter.node = root

RootKept ==
    /\ RootReached /\ Count(heap, root) > 0
    /\ pc' = "advance"
    /\ UNCHANGED <<tree, call, iter, stack, res, internal_delete, count, erased, source>>

LastValueErased ==
    /\ RootReached /\ Count(heap, root) = 0 /\ RootIsLeaf
    /\ heap' = Free(heap, {root})
    /\ root' = NoNode
    /\ EraseReturns(NoSlot)
    /\ UNCHANGED <<rightmost, size, call, stack, internal_delete, count, erased, source>>

\* make_root: the parent of the new root is the leftmost leaf.
LeafBecomesRoot ==
    /\ RootReached /\ Count(heap, root) = 0 /\ ~RootIsLeaf
    /\ LET child == Child(heap, root, 0)
       IN  /\ heap[child].leaf
           /\ heap' = Free([heap EXCEPT ![child].parent = heap[@].parent], {root})
           /\ root' = child
    /\ rightmost' = NoNode
    /\ size' = 0
    /\ pc' = "advance"
    /\ UNCHANGED <<call, iter, stack, res, internal_delete, count, erased, source>>

ChildMovesIntoRoot ==
    /\ RootReached /\ Count(heap, root) = 0 /\ ~RootIsLeaf
    /\ LET child == Child(heap, root, 0)
       IN  /\ ~heap[child].leaf
           /\ heap' = Free(MoveContents(heap, child, root), {child})
    /\ pc' = "advance"
    /\ UNCHANGED <<root, rightmost, size, call, iter, stack, res, internal_delete,
                   count, erased, source>>

Underfull ==
    /\ pc = "rebalance" /\ iter.node # root
    /\ Count(heap, iter.node) < MinNodeValues

EnoughValues ==
    /\ pc = "rebalance" /\ iter.node # root
    /\ Count(heap, iter.node) >= MinNodeValues
    /\ pc' = "advance"
    /\ UNCHANGED <<tree, call, iter, stack, res, internal_delete, count, erased, source>>

\* Two siblings and the value between them fit on one node.
Fit(n, right) == 1 + Count(heap, n) + Count(heap, right) <= heap[n].max_count

CanMergeLeft(n) == HasLeft(heap, n) /\ Fit(Left(heap, n), n)

CanMergeRight(n) == HasRight(heap, n) /\ Fit(n, Right(heap, n))

\* merge_nodes: n takes in its right sibling; s is what iter becomes.
MergeNodes(n, s) ==
    /\ heap' = Merge(heap, n)
    /\ rightmost' = IF rightmost = Right(heap, n) THEN n ELSE rightmost
    /\ iter' = Slot(heap[n].parent, s.position)
    /\ res' = IF heap[n].leaf THEN s ELSE res
    /\ UNCHANGED <<root, size, pc, call, stack, internal_delete, count, erased, source>>

MergeLeft ==
    /\ Underfull /\ CanMergeLeft(iter.node)
    /\ LET l == Left(heap, iter.node)
       IN  MergeNodes(l, Slot(l, iter.position + 1 + Count(heap, l)))

MergeRight ==
    /\ Underfull /\ ~CanMergeLeft(iter.node) /\ CanMergeRight(iter.node)
    /\ MergeNodes(iter.node, iter)

\* A sibling gives up half of what it has more, unless the value erased was
\* at the far end of a node that is not empty.
CanTakeRight(s) ==
    /\ HasRight(heap, s.node)
    /\ Count(heap, Right(heap, s.node)) > MinNodeValues
    /\ Count(heap, s.node) = 0 \/ s.position > 0

CanTakeLeft(s) ==
    /\ HasLeft(heap, s.node)
    /\ Count(heap, Left(heap, s.node)) > MinNodeValues
    /\ Count(heap, s.node) = 0 \/ s.position < Count(heap, s.node)

ToTake(n, sibling) ==
    Min({(Count(heap, sibling) - Count(heap, n)) \div 2, Count(heap, sibling) - 1})

\* No merge: the way up ends, with iter at s.
EndsAt(s) ==
    /\ iter' = s
    /\ res' = IF heap[s.node].leaf THEN s ELSE res
    /\ pc' = "advance"
    /\ UNCHANGED <<root, rightmost, size, call, stack, internal_delete, count,
                   erased, source>>

CannotMerge(n) == ~CanMergeLeft(n) /\ ~CanMergeRight(n)

TakeFromRight ==
    /\ Underfull /\ CannotMerge(iter.node) /\ CanTakeRight(iter)
    /\ heap' = RebalanceRightToLeft(heap, iter.node,
                                    ToTake(iter.node, Right(heap, iter.node)))
    /\ EndsAt(iter)

TakeFromLeft ==
    /\ Underfull /\ CannotMerge(iter.node)
    /\ ~CanTakeRight(iter) /\ CanTakeLeft(iter)
    /\ LET l == Left(heap, iter.node)
           m == ToTake(iter.node, l)
       IN  /\ heap' = RebalanceLeftToRight(heap, l, m)
           /\ EndsAt(Slot(iter.node, iter.position + m))

LeaveUnderfull ==
    /\ Underfull /\ CannotMerge(iter.node)
    /\ ~CanTakeRight(iter) /\ ~CanTakeLeft(iter)
    /\ UNCHANGED heap
    /\ EndsAt(iter)

PastErasedNever(s) == s    \* mutant

\* The value that took the place of the erased one on an internal node is
\* passed over.
PastErased(s) == IF internal_delete THEN Increment(heap, s) ELSE s

\* The iterator to return is moved off the end of its leaf.
Advance ==
    /\ pc = "advance"
    /\ LET n     == res.node
           valid == IF res.position = Count(heap, n)
                    THEN Increment(heap, Slot(n, res.position - 1)) ELSE res
       IN  EraseReturns(PastErased(valid))
    /\ UNCHANGED <<tree, call, stack, internal_delete, count, erased, source>>

-----------------------------------------------------------------------------
(* clear and assign *)

\* internal_clear frees the nodes it reaches from the root.
Clear ==
    /\ pc = "called" /\ call.kind = "clear"
    /\ heap' = Free(heap, Range(Nodes(heap, root)))
    /\ root' = NoNode
    /\ rightmost' = NoNode
    /\ size' = 0
    /\ pc' = "done"
    /\ UNCHANGED <<call, iter, stack, res, internal_delete, count, erased, source>>

\* The copy of the container takes its place: the values are those of the
\* original, the nodes are new.
StartCopy ==
    /\ pc = "called" /\ call.kind = "copy"
    /\ source' = Contents
    /\ heap' = <<>>
    /\ root' = NoNode
    /\ rightmost' = NoNode
    /\ size' = 0
    /\ pc' = "copy"
    /\ UNCHANGED <<call, iter, stack, res, internal_delete, count, erased>>

CopyFirst ==
    /\ pc = "copy" /\ source # <<>> /\ root = NoNode
    /\ NewRoot(NewNode(TRUE, Fresh(heap), 1))
    /\ iter' = Slot(root', 0)
    /\ pc' = "insert"
    /\ UNCHANGED <<rightmost, size, call, stack, res, internal_delete, count,
                   erased, source>>

CopyNext ==
    /\ pc = "copy" /\ source # <<>> /\ root # NoNode
    /\ InsertAtSlot(End)

CopyEnd ==
    /\ pc = "copy" /\ source = <<>>
    /\ pc' = "done"
    /\ UNCHANGED <<tree, call, iter, stack, res, internal_delete, count, erased, source>>

Insertion ==
    \/ InsertAtHint \/ AnswerHint \/ SearchPlace \/ FoundKey \/ FoundPlace
    \/ InsertIntoLeaf \/ GrowRoot \/ MakeRoom \/ InsertIntoRoom
    \/ RoomOnLeft \/ RoomOnRight \/ AskParent
    \/ NewRootAboveLeaf \/ NewNodeBelowRoot \/ SplitNode

Erasure ==
    \/ EraseAt \/ EraseKey \/ RemoveFromLeaf
    \/ RootKept \/ LastValueErased \/ LeafBecomesRoot \/ ChildMovesIntoRoot
    \/ EnoughValues \/ MergeLeft \/ MergeRight
    \/ TakeFromRight \/ TakeFromLeft \/ LeaveUnderfull \/ Advance

Copying == StartCopy \/ CopyFirst \/ CopyNext \/ CopyEnd

Next == Ask \/ Return \/ Insertion \/ Erasure \/ Clear \/ Copying

Spec == Init /\ [][Next]_vars

-----------------------------------------------------------------------------
(* Properties *)

Steps == {"idle", "called", "search", "insert", "make_room", "split", "room",
          "erase", "rebalance", "advance", "copy", "done"}

NodeOK(h, n) ==
    /\ h[n].leaf \in BOOLEAN
    /\ h[n].parent \in DOMAIN h
    /\ h[n].position \in 0..NodeValues
    /\ h[n].max_count \in 1..NodeValues
    /\ Range(h[n].values) \subseteq Values
    /\ Count(h, n) <= h[n].max_count
    /\ Range(h[n].children) \subseteq DOMAIN h

SlotOK(s) == s = NoSlot \/ s.node \in DOMAIN heap

\* Every node has the fields of glibs/btree.h:463-516 within their bounds and
\* points at allocated nodes only, between any two steps of a call.
TypeOK ==
    /\ DOMAIN heap \subseteq 1..(2 * MaxSize + 2)
    /\ \A n \in DOMAIN heap : NodeOK(heap, n)
    /\ root \in DOMAIN heap \cup {NoNode}
    /\ rightmost \in DOMAIN heap \cup {NoNode}
    /\ size \in 0..MaxSize
    /\ pc \in Steps
    /\ call \in M!Calls(MaxSize) \cup M!Calls(MaxSize - 1) \cup {M!NoCall}
    /\ pc \in {"insert", "room", "erase", "rebalance"} => SlotOK(iter)
    /\ \A i \in DOMAIN stack : SlotOK(stack[i])
    /\ pc \in {"advance", "done"} => SlotOK(res)
    /\ internal_delete \in BOOLEAN
    /\ count \in 0..MaxSize
    /\ erased \in 0..count
    /\ source \in Seq(Values)

KeysOn(h, n) == {KeyOf[v] : v \in Range(h[n].values)}

\* The keys below a child are not smaller than the value before it and not
\* greater than the value after it.
Between(h, n) ==
    \A i \in 1..Count(h, n) :
        /\ \A m \in Range(Nodes(h, h[n].children[i])) :
              \A k \in KeysOn(h, m) : k <= KeyOf[h[n].values[i]]
        /\ \A m \in Range(Nodes(h, h[n].children[i + 1])) :
              \A k \in KeysOn(h, m) : k >= KeyOf[h[n].values[i]]

\* Between calls the tree passes verify (glibs/btree.h:1968): values in order
\* on each node and across nodes, no node empty, each child knows its parent
\* and its position, and leftmost, rightmost and size are those of the tree.
Verified ==
    pc = "idle" =>
        IF root = NoNode THEN Size = 0
        ELSE /\ Size = Len(Contents)
             /\ Leftmost = FirstLeaf(heap, root)
             /\ Rightmost = LastLeaf(heap, root)
             /\ \A n \in Range(Nodes(heap, root)) :
                   /\ Count(heap, n) > 0
                   /\ \A i \in 1..(Count(heap, n) - 1) :
                         KeyOf[heap[n].values[i]] <= KeyOf[heap[n].values[i + 1]]
                   /\ ~heap[n].leaf => Between(heap, n)
                   /\ \A i \in DOMAIN heap[n].children :
                         LET c == heap[n].children[i]
                         IN  heap[c].parent = n /\ heap[c].position = i - 1

Height(h, n) ==
    LET up[m \in DOMAIN h] == IF m = root THEN 0 ELSE 1 + up[h[m].parent]
    IN  up[n]

\* Between calls every allocated node is in the tree once, all leaves are at
\* one depth, an internal node has one child more than values and a root that
\* is not of full size is a leaf: splits, merges and changes of the root lose
\* no node and unbalance nothing.
Balanced ==
    pc = "idle" =>
        /\ Cardinality(DOMAIN heap) = Len(Nodes(heap, root))
        /\ DOMAIN heap = Range(Nodes(heap, root))
        /\ \A n \in DOMAIN heap :
              /\ heap[n].leaf => Height(heap, n) = Height(heap, Leftmost)
              /\ ~heap[n].leaf => Len(heap[n].children) = Count(heap, n) + 1
              /\ n # root => heap[n].max_count = NodeValues

\* The assertions of internal_insert and rebalance_or_split
\* (glibs/btree.h:1989-2069, 1421): room is made on full nodes only, a split
\* finds room in the parent, and when the recursion ends there is room in a
\* leaf at a place it has.
RoomIsMade ==
    /\ pc = "make_room" => IsFull(heap, Frame.node)
    /\ pc = "split" =>
          /\ IsFull(heap, Frame.node)
          /\ ~IsFull(heap, heap[Frame.node].parent)
    /\ pc = "room" =>
          /\ heap[iter.node].leaf
          /\ ~IsFull(heap, iter.node)
          /\ iter.position \in 0..Count(heap, iter.node)

\* Between calls ++ leads from begin() through all values to end(), and --
\* back again (glibs/btree.h:1663, 1702).
IteratorsWalk ==
    pc = "idle" /\ root # NoNode =>
        /\ IteratorAt(0) = Begin
        /\ \A n \in 0..(Size - 1) :
              /\ Increment(heap, IteratorAt(n)) = IteratorAt(n + 1)
              /\ Decrement(heap, IteratorAt(n + 1)) = IteratorAt(n)

\* Between calls lower_bound, upper_bound and find give the places that the
\* order of the whole container says, however the values are spread over the
\* nodes (glibs/btree.h:2265-2328).
SearchesAgree ==
    pc = "idle" =>
        \A k \in M!Keys :
            /\ PlaceOf(OrEnd(LowerBound(heap, root, k))) = M!Below(Contents, k)
            /\ PlaceOf(OrEnd(UpperBound(heap, root, k))) = M!UpTo(Contents, k)
            /\ LET s == Find(heap, root, k)
               IN  IF M!Present(Contents, k)
                   THEN s # NoSlot /\ PlaceOf(s) = M!Below(Contents, k)
                   ELSE s = NoSlot

\* The tree is a sorted sequence of values: each call does to its contents
\* what the container promises, once, and the iterator it returns points at
\* the value inserted or found, or at the one that followed the value erased.
ImplementsMultimap == M!Spec
=============================================================================

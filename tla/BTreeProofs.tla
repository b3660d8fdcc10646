---------------------------- MODULE BTreeProofs -----------------------------
(***************************************************************************)
(* Theorems about BTree, for maps and multimaps, every size of the nodes   *)
(* from three values on, all values and keys and every bound of the size.  *)
(***************************************************************************)
EXTENDS BTreeNodeProofs

(***************************************************************************)
(* The invariant                                                           *)
(***************************************************************************)

(***************************************************************************)
(* The inductive invariant.                                                *)
(***************************************************************************)

\* A frame of rebalance_or_split is about a node that is full.
FrameIs(h, s, lv, level) ==
    /\ s.node \in DOMAIN h /\ IsFull(h, s.node)
          /\ h[s.node].max_count = NodeValues
    /\ s.position \in 0..NodeValues
    /\ lv[s.node] = level

\* The slots a frame can be about.
Frames == {Slot(n, i) : n \in Nat, i \in Nat}

\* The frames follow the way from the topmost of those nodes to a leaf.
Chain(h, frames, lv) ==
    /\ frames \in Seq(Frames) /\ Len(frames) >= 1
    /\ \A i \in 1..Len(frames) : FrameIs(h, frames[i], lv, Len(frames) - i)
    /\ \A i \in 1..(Len(frames) - 1) :
          Child(h, frames[i].node, frames[i].position) = frames[i + 1].node

\* The nodes form a tree, if there is a root, and while room is made the frames
\* form a chain.
Standing(h, r, step, frames) ==
    IF r = NoNode THEN Heap(h) /\ DOMAIN h = {}
    ELSE \E lv, S : /\ Tree(h, r, lv, S)
                    /\ step \in {"make_room", "split"} => Chain(h, frames, lv)

\* The field of an internal root points at a leaf.
Ended(h, r, last) == r # NoNode => h[r].leaf \/ LeafOf(h, last)

\* No node is empty but the one that a call works on.
Exempt(h, r, step, frames, s, n) ==
    \/ step \in {"search", "insert"} /\ h[r].leaf
    \/ step = "split" /\ n = h[Head(frames).node].parent
    \/ step \in {"room", "rebalance"} /\ n = s.node

\* A node without values is exempt.
Nonempty(h, r, step, frames, s) ==
    \A n \in DOMAIN h : Count(h, n) # 0 \/ Exempt(h, r, step, frames, s, n)

\* The steps of a call that inserts, from the search to the value.
Inserting(step) == step \in {"search", "insert", "make_room", "split", "room"}

\* The steps of a call that erases.
Erasing(step) == step \in {"erase", "rebalance", "advance"}

\* The value of a call that inserts.
Valued(asked, values) ==
    \/ asked.kind \in {"insert", "insert_hint"} /\ asked.value \in Values
    \/ asked.kind = "copy" /\ values \in Seq(Values) /\ values # <<>>

\* The call and its arguments are such that its steps can do their work.
Called(r, step, asked, values) ==
    /\ step = "called" =>
          /\ asked.kind = "erase" => r # NoNode /\ asked.at \in Nat
          /\ asked.kind \in {"insert", "insert_hint"} => asked.value \in Values
          /\ asked.kind = "insert_hint" => asked.at \in Nat
    /\ Inserting(step) => Valued(asked, values)
    /\ step = "copy" => asked.kind = "copy" /\ values \in Seq(Values)
    /\ Inserting(step) \/ Erasing(step) => r # NoNode

\* Where the call is.
At(h, r, step, frames, s, back) ==
    /\ step = "insert" => LeafPlaceOf(h, s)
    /\ step = "split" =>
          Head(frames).node # r /\ ~IsFull(h, h[Head(frames).node].parent)
    /\ step = "room" => LeafPlaceOf(h, s) /\ ~IsFull(h, s.node) /\ s.node # r
    /\ step = "erase" => PlaceIn(h, s)
    /\ step = "rebalance" => /\ s.node \in DOMAIN h /\ LeafPlaceOf(h, back)
                             /\ h[s.node].leaf => s = back
    /\ step = "advance" => LeafPlaceOf(h, back)

\* No more values are to be erased than there are.
Enough(h, step, all, gone) ==
    /\ all \in Int /\ gone \in Nat
    /\ Erasing(step) => all - gone <= Weight(h)

\* The inductive invariant.
IInv ==
    /\ Standing(heap, root, pc, stack)
    /\ Ended(heap, root, rightmost)
    /\ Nonempty(heap, root, pc, stack, iter)
    /\ Called(root, pc, call, source)
    /\ At(heap, root, pc, stack, iter, res)
    /\ Enough(heap, pc, count, erased)
    /\ size \in Int

\* Return from a call.
LEMMA ReturnKeeps ==
    ASSUME IInv, Return
    PROVE  IInv'
<1>1. /\ pc = "done" /\ pc' = "idle" /\ heap' = heap /\ root' = root
      /\ rightmost' = rightmost /\ size' = size
      /\ erased' = 0 /\ count' = 0
    BY DEF Return, tree
<1>2. Standing(heap', root', pc', stack')
    BY <1>1 DEF IInv, Standing
<1>3. Ended(heap', root', rightmost')
    BY <1>1 DEF IInv
<1>4. Nonempty(heap', root', pc', stack', iter')
    BY <1>1 DEF IInv, Nonempty, Exempt
<1>5. Called(root', pc', call', source')
    BY <1>1 DEF IInv, Called, Inserting, Erasing
<1>6. At(heap', root', pc', stack', iter', res')
    BY <1>1 DEF At
<1>7. Enough(heap', pc', count', erased')
    BY <1>1 DEF IInv, Enough, Erasing
<1>8. QED
    BY <1>1, <1>2, <1>3, <1>4, <1>5, <1>6, <1>7 DEF IInv

(***************************************************************************)
(* Asking, answering and ending a call                                     *)
(***************************************************************************)

\* What a call is about.
LEMMA CallsAre ==
    ASSUME NEW n \in Int, NEW c \in M!Calls(n)
    PROVE  /\ c.kind = "erase" => c.at \in 0..(n - 1)
           /\ c.kind \in {"insert", "insert_hint"} => c.value \in Values
           /\ c.kind = "insert_hint" => c.at \in 0..n
BY DEF M!Calls

\* size() is a number.
LEMMA SizeIs ==
    ASSUME IInv
    PROVE  Size \in Int /\ (root = NoNode => Size = 0)
<1>1. CASE root = NoNode
    BY <1>1 DEF Size
<1>2. CASE root # NoNode
    <2>1. PICK lv, S : Tree(heap, root, lv, S)
        BY <1>2 DEF IInv, Standing
    <2>2. Count(heap, root) \in Nat
        BY <2>1, CountIs DEF Tree
    <2>3. QED
        BY <1>2, <2>2 DEF Size, IInv
<1>3. QED
    BY <1>1, <1>2

\* A call begins.
LEMMA AskKeeps ==
    ASSUME IInv, Ask
    PROVE  IInv'
<1>1. /\ pc = "idle" /\ pc' = "called" /\ heap' = heap /\ root' = root
      /\ rightmost' = rightmost /\ size' = size /\ source' = source
      /\ erased' = erased /\ count' = count /\ call' \in M!Calls(Size)
    BY DEF Ask, tree
<1>2. Standing(heap', root', pc', stack')
    BY <1>1 DEF IInv, Standing
<1>3. Ended(heap', root', rightmost')
    BY <1>1 DEF IInv
<1>4. Nonempty(heap', root', pc', stack', iter')
    BY <1>1 DEF IInv, Nonempty, Exempt
<1>5. Called(root', pc', call', source')
    <2>1. Size \in Int /\ (root = NoNode => Size = 0)
        BY SizeIs
    <2>2. /\ call'.kind = "erase" => call'.at \in 0..(Size - 1)
          /\ call'.kind \in {"insert", "insert_hint"} => call'.value \in Values
          /\ call'.kind = "insert_hint" => call'.at \in 0..Size
        BY <1>1, <2>1, CallsAre
    <2>3. /\ call'.kind = "erase" => call'.at \in Nat /\ root # NoNode
          /\ call'.kind = "insert_hint" => call'.at \in Nat
        BY <2>1, <2>2
    <2>4. QED
        BY <1>1, <2>2, <2>3 DEF Called, Inserting, Erasing
<1>6. At(heap', root', pc', stack', iter', res')
    BY <1>1 DEF At
<1>7. Enough(heap', pc', count', erased')
    BY <1>1 DEF IInv, Enough, Erasing
<1>8. QED
    BY <1>1, <1>2, <1>3, <1>4, <1>5, <1>6, <1>7 DEF IInv

\* A call that is answered without a change of the tree.
LEMMA DoneKeeps ==
    ASSUME IInv, pc' = "done", heap' = heap, root' = root,
           rightmost' = rightmost,
           size' = size, count' \in Int, erased' = erased,
           \A n \in DOMAIN heap : Count(heap, n) # 0
    PROVE  IInv'
<1>1. Standing(heap', root', pc', stack')
    BY DEF IInv, Standing
<1>2. Ended(heap', root', rightmost')
    BY DEF IInv
<1>3. Nonempty(heap', root', pc', stack', iter')
    BY DEF Nonempty
<1>4. Called(root', pc', call', source')
    BY DEF Called, Inserting, Erasing
<1>5. At(heap', root', pc', stack', iter', res')
    BY DEF At
<1>6. Enough(heap', pc', count', erased')
    BY DEF IInv, Enough, Erasing
<1>7. QED
    BY <1>1, <1>2, <1>3, <1>4, <1>5, <1>6 DEF IInv

\* A root with a value in it leaves no node empty.
LEMMA NoneEmpty ==
    ASSUME IInv,
           pc \in {"called", "search", "copy", "erase", "advance", "done"},
           pc = "search" => Count(heap, root) # 0
    PROVE  \A n \in DOMAIN heap : Count(heap, n) # 0
<1>1. ASSUME NEW n \in DOMAIN heap
      PROVE  Count(heap, n) # 0
    <2>1. Count(heap, n) # 0 \/ (pc = "search" /\ heap[root].leaf)
        BY DEF IInv, Nonempty, Exempt
    <2>2. CASE pc = "search" /\ heap[root].leaf
        <3>1. root # NoNode
            BY <2>2 DEF IInv, Called, Inserting
        <3>2. PICK lv, S : Tree(heap, root, lv, S)
            BY <3>1 DEF IInv, Standing
        <3>3. n = root
            BY <2>2, <3>2, LoneLeaf
        <3>4. QED
            BY <2>2, <3>3
    <2>3. QED
        BY <2>1, <2>2
<1>2. QED
    BY <1>1

\* insert_unique with a hint that has the key.
LEMMA AnswerHintKeeps ==
    ASSUME IInv, AnswerHint
    PROVE  IInv'
<1>1. /\ pc = "called" /\ pc' = "done" /\ heap' = heap /\ root' = root
      /\ rightmost' = rightmost /\ size' = size
      /\ erased' = erased /\ count' = count
    BY DEF AnswerHint, tree
<1>2. \A n \in DOMAIN heap : Count(heap, n) # 0
    BY <1>1, NoneEmpty
<1>3. count' \in Int
    BY <1>1 DEF IInv, Enough
<1>4. QED
    BY <1>1, <1>2, <1>3, DoneKeeps

\* All values are copied.
LEMMA CopyEndKeeps ==
    ASSUME IInv, CopyEnd
    PROVE  IInv'
<1>1. /\ pc = "copy" /\ pc' = "done" /\ heap' = heap /\ root' = root
      /\ rightmost' = rightmost /\ size' = size
      /\ erased' = erased /\ count' = count
    BY DEF CopyEnd, tree
<1>2. \A n \in DOMAIN heap : Count(heap, n) # 0
    BY <1>1, NoneEmpty
<1>3. count' \in Int
    BY <1>1 DEF IInv, Enough
<1>4. QED
    BY <1>1, <1>2, <1>3, DoneKeeps

\* A value that is found is on a node that has one.
LEMMA FoundKeyKeeps ==
    ASSUME IInv, FoundKey
    PROVE  IInv'
<1>1. /\ pc = "search" /\ pc' = "done" /\ heap' = heap /\ root' = root
      /\ rightmost' = rightmost /\ size' = size
      /\ erased' = erased /\ count' = count
    BY DEF FoundKey, tree
<1>2. root # NoNode
    BY <1>1 DEF IInv, Called, Inserting
<1>3. PICK lv, S : Tree(heap, root, lv, S)
    BY <1>2 DEF IInv, Standing
<1>4. Count(heap, root) # 0
    <2>1. ValuePlaceOf(heap, Find(heap, root, Key))
        BY <1>3, BoundsAre DEF FoundKey
    <2>2. PICK n \in DOMAIN heap, i \in Nat : i < Count(heap, n)
        BY <2>1 DEF ValuePlaceOf
    <2>3. Count(heap, n) # 0
        BY <2>2
    <2>4. CASE heap[root].leaf
        BY <1>3, <2>3, <2>4, LoneLeaf
    <2>5. CASE ~heap[root].leaf
        <3>1. root \in DOMAIN heap
            BY <1>3 DEF Tree
        <3>2. QED
            BY <1>1, <2>5, <3>1 DEF IInv, Nonempty, Exempt
    <2>6. QED
        BY <2>4, <2>5
<1>5. \A n \in DOMAIN heap : Count(heap, n) # 0
    BY <1>1, <1>4, NoneEmpty
<1>6. count' \in Int
    BY <1>1 DEF IInv, Enough
<1>7. QED
    BY <1>1, <1>5, <1>6, DoneKeeps

(***************************************************************************)
(* The place of insertion                                                  *)
(***************************************************************************)

\* The end is a place in a leaf.
LEMMA EndIs ==
    ASSUME IInv, root # NoNode
    PROVE  LeafPlaceOf(heap, End)
<1>1. PICK lv, S : Tree(heap, root, lv, S)
    BY DEF IInv, Standing
<1>2. LeafOf(heap, Rightmost)
    <2>1. CASE heap[root].leaf
        BY <1>1, <2>1 DEF Tree, LeafOf, Rightmost, RootIsLeaf
    <2>2. CASE ~heap[root].leaf
        BY <2>2 DEF IInv, Ended, Rightmost, RootIsLeaf
    <2>3. QED
        BY <2>1, <2>2
<1>3. End = Slot(Rightmost, Count(heap, Rightmost))
    BY DEF End
<1>4. Count(heap, Rightmost) \in Nat
    BY <1>1, <1>2, CountIs DEF Tree, LeafOf
<1>5. QED
    BY <1>2, <1>3, <1>4 DEF LeafPlaceOf, LeafOf

\* An iterator with a number is a place.
LEMMA IteratorIs ==
    ASSUME IInv, root # NoNode, NEW n \in Nat
    PROVE  PlaceIn(heap, IteratorAt(n))
<1>1. PICK lv, S : Tree(heap, root, lv, S)
    BY DEF IInv, Standing
<1>2. Enum(Slots(heap, root), Places(heap))
    BY <1>1, SlotsAre
<1>3. CASE n < Len(Slots(heap, root))
    <2>1. IteratorAt(n) = Slots(heap, root)[n + 1]
        BY <1>3 DEF IteratorAt
    <2>2. n + 1 \in 1..Len(Slots(heap, root))
        BY <1>2, <1>3 DEF Enum
    <2>3. Slots(heap, root)[n + 1] \in Places(heap)
        BY <1>2, <2>2 DEF Enum
    <2>4. QED
        BY <2>1, <2>3, PlacesAre DEF PlaceIn
<1>4. CASE ~(n < Len(Slots(heap, root)))
    <2>1. IteratorAt(n) = End
        BY <1>4 DEF IteratorAt
    <2>2. QED
        BY <2>1, EndIs DEF PlaceIn
<1>5. QED
    BY <1>3, <1>4

\* ++ leads from a place to a place.
LEMMA IncrementPlace ==
    ASSUME NEW h, NEW top, NEW lv, NEW S, Tree(h, top, lv, S),
           NEW s, PlaceIn(h, s)
    PROVE  PlaceIn(h, Increment(h, s))
<1>1. PICK n \in DOMAIN h, i \in Nat :
         s = Slot(n, i) /\ (h[n].leaf \/ i < Count(h, n))
    BY DEF PlaceIn, LeafPlaceOf, ValuePlaceOf
<1>2. i + 1 >= 0 /\ i \in Int /\ 0 <= i
    OBVIOUS
<1>3. PlaceIn(h, Increment(h, Slot(n, i)))
    BY <1>1, <1>2, IncrementIs
<1>4. QED
    BY <1>1, <1>3

\* internal_insert finds a place in a leaf for each place.
LEMMA LeafPlaceIs ==
    ASSUME NEW lv, NEW S, Tree(heap, root, lv, S), NEW s, PlaceIn(heap, s)
    PROVE  LeafPlaceOf(heap, LeafPlace(s))
<1>1. PICK n \in DOMAIN heap, i \in Nat :
         /\ s = Slot(n, i)
         /\ \/ heap[n].leaf /\ i <= Count(heap, n)
            \/ i < Count(heap, n)
    BY DEF PlaceIn, LeafPlaceOf, ValuePlaceOf
<1>2. s.node = n
    BY <1>1, SlotIs
<1>3. Count(heap, n) \in Nat
    BY CountIs DEF Tree
<1>4. CASE heap[n].leaf
    <2>1. LeafPlace(s) = s
        BY <1>2, <1>4 DEF LeafPlace
    <2>2. i <= Count(heap, n)
        BY <1>1, <1>3
    <2>3. QED
        BY <1>1, <1>4, <2>1, <2>2 DEF LeafPlaceOf
<1>5. CASE ~heap[n].leaf
    <2>1. i < Count(heap, n)
        BY <1>1, <1>5
    <2>2. PICK l \in DOMAIN heap :
             heap[l].leaf
                 /\ Decrement(heap, Slot(n, i)) = Slot(l, Count(heap, l) - 1)
        BY <1>5, <2>1, DecrementIs
    <2>3. Count(heap, l) \in Nat
        BY CountIs DEF Tree
    <2>4. Decrement(heap, s).node = l
              /\ Decrement(heap, s).position = Count(heap, l) - 1
        BY <1>1, <2>2, SlotIs
    <2>5. LeafPlace(s) = Slot(l, (Count(heap, l) - 1) + 1)
        BY <1>2, <1>5, <2>4 DEF LeafPlace
    <2>6. (Count(heap, l) - 1) + 1 = Count(heap, l)
        BY <2>3
    <2>7. LeafPlace(s) = Slot(l, Count(heap, l))
        BY <2>5, <2>6
    <2>8. QED
        BY <2>2, <2>3, <2>7 DEF LeafPlaceOf
<1>6. QED
    BY <1>4, <1>5

\* The place of insertion is found.
LEMMA InsertAtKeeps ==
    ASSUME IInv, pc \in {"called", "search", "copy"}, root # NoNode,
           NEW s, PlaceIn(heap, s), InsertAtSlot(s), Valued(call, source)
    PROVE  IInv'
<1>1. /\ pc' = "insert" /\ heap' = heap /\ root' = root
      /\ rightmost' = rightmost /\ size' = size /\ source' = source
      /\ erased' = erased /\ count' = count /\ call' = call
      /\ iter' = LeafPlace(s)
    BY DEF InsertAtSlot, tree
<1>2. PICK lv, S : Tree(heap, root, lv, S)
    BY DEF IInv, Standing
<1>3. LeafPlaceOf(heap, iter')
    BY <1>1, <1>2, LeafPlaceIs
<1>4. Standing(heap', root', pc', stack')
    BY <1>1 DEF IInv, Standing
<1>5. Ended(heap', root', rightmost')
    BY <1>1 DEF IInv
<1>6. Nonempty(heap', root', pc', stack', iter')
    BY <1>1 DEF IInv, Nonempty, Exempt
<1>7. Called(root', pc', call', source')
    BY <1>1 DEF Called, Inserting, Erasing
<1>8. At(heap', root', pc', stack', iter', res')
    BY <1>1, <1>3 DEF At
<1>9. Enough(heap', pc', count', erased')
    BY <1>1 DEF IInv, Enough, Erasing
<1>10. QED
    BY <1>1, <1>4, <1>5, <1>6, <1>7, <1>8, <1>9 DEF IInv

\* The place of insertion is the hint or the one behind it.
LEMMA InsertAtHintKeeps ==
    ASSUME IInv, InsertAtHint
    PROVE  IInv'
<1>1. pc = "called" /\ root # NoNode /\ call.kind = "insert_hint"
    BY DEF InsertAtHint
<1>2. call.value \in Values /\ call.at \in Nat
    BY <1>1 DEF IInv, Called
<1>3. Valued(call, source)
    BY <1>1, <1>2 DEF Valued
<1>4. PICK hint : hint = IteratorAt(call.at)
    OBVIOUS
<1>5. PlaceIn(heap, hint)
    BY <1>1, <1>2, <1>4, IteratorIs
<1>6. InsertAtSlot(hint) \/ InsertAtSlot(Increment(heap, hint))
    BY <1>4 DEF InsertAtHint
<1>7. CASE InsertAtSlot(hint)
    BY <1>1, <1>3, <1>5, <1>7, InsertAtKeeps
<1>8. CASE InsertAtSlot(Increment(heap, hint))
    <2>1. PICK lv, S : Tree(heap, root, lv, S)
        BY <1>1 DEF IInv, Standing
    <2>2. PlaceIn(heap, Increment(heap, hint))
        BY <1>5, <2>1, IncrementPlace
    <2>3. QED
        BY <1>1, <1>3, <1>8, <2>2, InsertAtKeeps
<1>9. QED
    BY <1>6, <1>7, <1>8

\* The place of insertion was found by a search.
LEMMA FoundPlaceKeeps ==
    ASSUME IInv, FoundPlace
    PROVE  IInv'
<1>1. pc = "search"
    BY DEF FoundPlace
<1>2. root # NoNode /\ Valued(call, source)
    BY <1>1 DEF IInv, Called, Inserting
<1>3. PICK lv, S : Tree(heap, root, lv, S)
    BY <1>2 DEF IInv, Standing
<1>4. CASE Unique
    <2>1. InsertAtSlot(Locate(heap, root, Key))
        BY <1>4 DEF FoundPlace
    <2>2. PlaceIn(heap, Locate(heap, root, Key))
        BY <1>3, BoundsAre DEF PlaceIn
    <2>3. QED
        BY <1>1, <1>2, <2>1, <2>2, InsertAtKeeps
<1>5. CASE ~Unique
    <2>1. InsertAtSlot(OrEnd(UpperBound(heap, root, Key)))
        BY <1>5 DEF FoundPlace
    <2>2. PlaceIn(heap, OrEnd(UpperBound(heap, root, Key)))
        BY <1>2, <1>3, BoundsAre, EndIs DEF PlaceIn, OrEnd
    <2>3. QED
        BY <1>1, <1>2, <2>1, <2>2, InsertAtKeeps
<1>6. QED
    BY <1>4, <1>5

\* The place of insertion is the end, when a tree is copied.
LEMMA CopyNextKeeps ==
    ASSUME IInv, CopyNext
    PROVE  IInv'
<1>1. pc = "copy" /\ source # <<>> /\ root # NoNode /\ InsertAtSlot(End)
    BY DEF CopyNext
<1>2. call.kind = "copy" /\ source \in Seq(Values)
    BY <1>1 DEF IInv, Called
<1>3. Valued(call, source)
    BY <1>1, <1>2 DEF Valued
<1>4. PlaceIn(heap, End)
    BY <1>1, EndIs DEF PlaceIn
<1>5. QED
    BY <1>1, <1>3, <1>4, InsertAtKeeps

\* A lone leaf is a tree.
LEMMA LoneStands ==
    ASSUME NEW g, NEW n, NEW max, NEW count0, Lone(g, n, max, count0),
           NEW step, step \notin {"make_room", "split"}, NEW frames, NEW last
    PROVE  n # NoNode /\ Standing(g, n, step, frames) /\ Ended(g, n, last)
<1>1. PICK lv : Tree(g, n, lv, {n})
    BY DEF Lone
<1>2. n \in DOMAIN g /\ Heap(g)
    BY <1>1 DEF Tree
<1>3. n # NoNode
    BY <1>2, NodeIs
<1>4. Standing(g, n, step, frames)
    BY <1>1, <1>3 DEF Standing
<1>5. Ended(g, n, last)
    BY DEF Ended, Lone
<1>6. QED
    BY <1>3, <1>4, <1>5

\* The first node of an empty tree.
LEMMA NewRootIs ==
    ASSUME IInv, root = NoNode, NewRoot(NewNode(TRUE, Fresh(heap), 1))
    PROVE  Lone(heap', root', 1, 0)
<1>1. Heap(heap) /\ DOMAIN heap = {}
    BY DEF IInv, Standing
<1>2. root' = Fresh(heap)
    BY DEF NewRoot
<1>3. heap' = Allocate(heap, root', NewNode(TRUE, root', 1))
    BY DEF NewRoot
<1>4. QED
    BY <1>1, <1>2, <1>3, FirstRootIs

\* insert_unique and insert_multi make a first root or begin their search.
LEMMA SearchPlaceKeeps ==
    ASSUME IInv, SearchPlace
    PROVE  IInv'
<1>1. /\ pc = "called" /\ pc' = "search"
            /\ call.kind \in {"insert", "insert_hint"}
      /\ rightmost' = rightmost /\ size' = size /\ source' = source
      /\ erased' = erased /\ count' = count /\ call' = call
    BY DEF SearchPlace
<1>2. Valued(call', source')
    BY <1>1 DEF IInv, Called, Valued
<1>3. /\ root' # NoNode
      /\ Standing(heap', root', pc', stack') /\ Ended(heap', root', rightmost')
      /\ Nonempty(heap', root', pc', stack', iter')
    <2>1. CASE root = NoNode
        <3>1. NewRoot(NewNode(TRUE, Fresh(heap), 1))
            BY <2>1 DEF SearchPlace
        <3>2. Lone(heap', root', 1, 0)
            BY <2>1, <3>1, NewRootIs
        <3>3. pc' \notin {"make_room", "split"}
            BY <1>1
        <3>4. root' # NoNode /\ Standing(heap', root', pc', stack')
              /\ Ended(heap', root', rightmost')
            BY <3>2, <3>3, LoneStands
        <3>5. heap'[root'].leaf
            BY <3>2 DEF Lone
        <3>6. Nonempty(heap', root', pc', stack', iter')
            BY <1>1, <3>5 DEF Nonempty, Exempt
        <3>7. QED
            BY <3>4, <3>6
    <2>2. CASE root # NoNode
        <3>1. heap' = heap /\ root' = root
            BY <2>2 DEF SearchPlace
        <3>2. Standing(heap', root', pc', stack')
            BY <1>1, <3>1 DEF IInv, Standing
        <3>3. Ended(heap', root', rightmost')
            BY <1>1, <3>1 DEF IInv
        <3>4. Nonempty(heap', root', pc', stack', iter')
            BY <1>1, <3>1 DEF IInv, Nonempty, Exempt
        <3>5. QED
            BY <2>2, <3>1, <3>2, <3>3, <3>4
    <2>3. QED
        BY <2>1, <2>2
<1>4. Called(root', pc', call', source')
    BY <1>1, <1>2, <1>3 DEF Called, Inserting, Erasing
<1>5. At(heap', root', pc', stack', iter', res')
    BY <1>1 DEF At
<1>6. Enough(heap', pc', count', erased')
    BY <1>1 DEF IInv, Enough, Erasing
<1>7. size' \in Int
    BY <1>1 DEF IInv
<1>8. QED
    BY <1>3, <1>4, <1>5, <1>6, <1>7 DEF IInv

\* The first value of a copy.
LEMMA CopyFirstKeeps ==
    ASSUME IInv, CopyFirst
    PROVE  IInv'
<1>1. /\ pc = "copy" /\ pc' = "insert" /\ root = NoNode /\ source # <<>>
      /\ rightmost' = rightmost /\ size' = size /\ source' = source
      /\ erased' = erased /\ count' = count /\ call' = call
      /\ NewRoot(NewNode(TRUE, Fresh(heap), 1)) /\ iter' = Slot(root', 0)
    BY DEF CopyFirst
<1>2. Valued(call', source')
    BY <1>1 DEF IInv, Called, Valued
<1>3. Lone(heap', root', 1, 0)
    BY <1>1, NewRootIs
<1>4. pc' \notin {"make_room", "split"}
    BY <1>1
<1>5. root' # NoNode /\ Standing(heap', root', pc', stack')
      /\ Ended(heap', root', rightmost')
    BY <1>3, <1>4, LoneStands
<1>6. heap'[root'].leaf /\ root' \in DOMAIN heap' /\ Count(heap', root') = 0
    BY <1>3 DEF Lone
<1>7. Nonempty(heap', root', pc', stack', iter')
    BY <1>1, <1>6 DEF Nonempty, Exempt
<1>8. Called(root', pc', call', source')
    BY <1>1, <1>2, <1>5 DEF Called, Inserting, Erasing
<1>9. LeafPlaceOf(heap', iter')
    BY <1>1, <1>6 DEF LeafPlaceOf
<1>10. At(heap', root', pc', stack', iter', res')
    BY <1>1, <1>9 DEF At
<1>11. Enough(heap', pc', count', erased')
    BY <1>1 DEF IInv, Enough, Erasing
<1>12. size' \in Int
    BY <1>1 DEF IInv
<1>13. QED
    BY <1>5, <1>7, <1>8, <1>10, <1>11, <1>12 DEF IInv

\* The value of the call stands in its leaf.
LEMMA InsertedKeeps ==
    ASSUME IInv, Inserting(pc), NEW h, NEW top, NEW lv,
           NEW S, Tree(h, top, lv, S),
           NEW s, LeafPlaceOf(h, s), ~IsFull(h, s.node), Inserted(h, s),
           call' = call, count' = count, erased' = erased, root' = top,
           Ended(h, top, rightmost'), size' \in Int,
           \A n \in DOMAIN h \ {s.node} : Count(h, n) # 0
    PROVE  IInv'
<1>1. Valued(call, source)
    BY DEF IInv, Called
<1>2. Value \in Values
    <2>1. CASE call.kind = "copy"
        <3>1. source \in Seq(Values) /\ source # <<>>
            BY <1>1, <2>1 DEF Valued
        <3>2. QED
            BY <2>1, <3>1 DEF Value
    <2>2. CASE call.kind # "copy"
        BY <1>1, <2>2 DEF Valued, Value
    <2>3. QED
        BY <2>1, <2>2
<1>3. PICK n \in DOMAIN h, i \in Nat : s = Slot(n, i) /\ h[n].leaf
          /\ i <= Count(h, n)
    BY DEF LeafPlaceOf
<1>4. s.node = n /\ s.position = i
    BY <1>3, SlotIs
<1>5. Count(h, n) \in Nat
    BY CountIs DEF Tree
<1>6. s.position \in 0..Count(h, s.node)
    BY <1>3, <1>4, <1>5
<1>7. heap' = InsertValue(h, s, Value)
    BY DEF Inserted
<1>8. s.node \in DOMAIN h /\ h[s.node].leaf
    BY <1>3, <1>4
<1>9. PICK values : /\ Revalued(h, heap', s.node, values)
                    /\ Tree(heap', top, lv, S)
                    /\ Count(heap', s.node) = Count(h, s.node) + 1
    BY <1>2, <1>6, <1>7, <1>8, InsertValueIs
<1>10. DOMAIN heap' = DOMAIN h /\ \A m \in DOMAIN h : heap'[m].leaf = h[m].leaf
    BY <1>9 DEF Revalued
<1>11. \A m \in DOMAIN heap' : Count(heap', m) # 0
    BY <1>4, <1>5, <1>9, <1>10, RevaluedCounts
<1>12. /\ pc' \in {"copy", "done"}
       /\ pc' = "copy" => call.kind = "copy" /\ source' = Tail(source)
    BY DEF Inserted
<1>13. top # NoNode
    BY <1>9, NodeIs DEF Tree
<1>14. Standing(heap', root', pc', stack')
    BY <1>9, <1>12, <1>13 DEF Standing
<1>15. Ended(heap', root', rightmost')
    <2>1. top \in DOMAIN h
        BY DEF Tree
    <2>2. QED
        BY <1>10, <2>1 DEF Ended, LeafOf
<1>16. Nonempty(heap', root', pc', stack', iter')
    BY <1>11 DEF Nonempty
<1>17. Called(root', pc', call', source')
    <2>1. pc' = "copy" => source' \in Seq(Values)
        BY <1>1, <1>12 DEF Valued
    <2>2. QED
        BY <1>12, <2>1 DEF Called, Inserting, Erasing
<1>18. At(heap', root', pc', stack', iter', res')
    BY <1>12 DEF At
<1>19. Enough(heap', pc', count', erased')
    BY <1>12 DEF IInv, Enough, Erasing
<1>20. QED
    BY <1>14, <1>15, <1>16, <1>17, <1>18, <1>19 DEF IInv

(***************************************************************************)
(* Inserting into a leaf                                                   *)
(***************************************************************************)

\* The leaf has room.
LEMMA InsertIntoLeafKeeps ==
    ASSUME IInv, InsertIntoLeaf
    PROVE  IInv'
<1>1. /\ pc = "insert" /\ ~IsFull(heap, iter.node) /\ Inserted(heap, iter)
      /\ root' = root /\ rightmost' = rightmost
      /\ erased' = erased /\ count' = count /\ call' = call
    BY DEF InsertIntoLeaf
<1>2. Inserting(pc)
    BY <1>1 DEF Inserting
<1>3. root # NoNode /\ LeafPlaceOf(heap, iter)
    BY <1>1, <1>2 DEF IInv, Called, At
<1>4. PICK lv, S : Tree(heap, root, lv, S)
    BY <1>3 DEF IInv, Standing
<1>5. size' \in Int
    BY DEF IInv, InsertIntoLeaf
<1>6. Ended(heap, root, rightmost')
    BY <1>1 DEF IInv
<1>7. iter.node \in DOMAIN heap
    BY <1>3, SlotIs DEF LeafPlaceOf
<1>8. ASSUME NEW n \in DOMAIN heap \ {iter.node}
      PROVE  Count(heap, n) # 0
    <2>1. Count(heap, n) # 0 \/ heap[root].leaf
        BY <1>1 DEF IInv, Nonempty, Exempt
    <2>2. ~heap[root].leaf
        BY ZenonT(30), <1>4, <1>7, LoneLeaf
    <2>3. QED
        BY <2>1, <2>2
<1>9. QED
    BY <1>1, <1>2, <1>3, <1>4, <1>5, <1>6, <1>8, InsertedKeeps

\* The leaf has room now.
LEMMA InsertIntoRoomKeeps ==
    ASSUME IInv, InsertIntoRoom
    PROVE  IInv'
<1>1. /\ pc = "room" /\ Inserted(heap, iter)
      /\ root' = root /\ rightmost' = rightmost /\ size' = size + 1
      /\ erased' = erased /\ count' = count /\ call' = call
    BY DEF InsertIntoRoom
<1>2. Inserting(pc)
    BY <1>1 DEF Inserting
<1>3. root # NoNode /\ LeafPlaceOf(heap, iter) /\ ~IsFull(heap, iter.node)
    BY <1>1, <1>2 DEF IInv, Called, At
<1>4. PICK lv, S : Tree(heap, root, lv, S)
    BY <1>3 DEF IInv, Standing
<1>5. size' \in Int
    BY <1>1 DEF IInv
<1>6. Ended(heap, root, rightmost')
    BY <1>1 DEF IInv
<1>7. \A n \in DOMAIN heap \ {iter.node} : Count(heap, n) # 0
    BY <1>1 DEF IInv, Nonempty, Exempt
<1>8. QED
    BY <1>1, <1>2, <1>3, <1>4, <1>5, <1>6, <1>7, InsertedKeeps

\* A leaf of less than full size is the root.
LEMMA SmallIsRoot ==
    ASSUME NEW h, NEW top, NEW lv, NEW S, Tree(h, top, lv, S),
           NEW n \in DOMAIN h,
           h[n].leaf, h[n].max_count < NodeValues
    PROVE  n = top
<1>1. n # top => h[n].max_count = NodeValues
    BY DEF Tree, Sized
<1>2. h[n].max_count \in 1..NodeValues
    BY NodeIs DEF Tree
<1>3. QED
    BY <1>1, <1>2, NodeValuesAssumption

\* A root that is a small leaf is replaced by a larger one.
LEMMA GrowRootKeeps ==
    ASSUME IInv, GrowRoot
    PROVE  IInv'
<1> DEFINE new   == Fresh(heap)
           max   == GrownSize(heap[root].max_count)
           grown == Allocate(heap, new, NewNode(TRUE, new, max))
           g     == Free(MoveContents(grown, root, new), {root})
           s     == Slot(new, iter.position)
<1>1. /\ pc = "insert" /\ IsFull(heap, iter.node)
      /\ heap[iter.node].max_count < NodeValues
      /\ Inserted(g, s) /\ root' = new /\ rightmost' = rightmost
            /\ size' = size
      /\ erased' = erased /\ count' = count /\ call' = call
    BY DEF GrowRoot
<1>2. Inserting(pc)
    BY <1>1 DEF Inserting
<1>3. root # NoNode /\ LeafPlaceOf(heap, iter)
    BY <1>1, <1>2 DEF IInv, Called, At
<1>4. PICK lv, S : Tree(heap, root, lv, S)
    BY <1>3 DEF IInv, Standing
<1>5. PICK n \in DOMAIN heap, i \in Nat :
         iter = Slot(n, i) /\ heap[n].leaf /\ i <= Count(heap, n)
    BY <1>3 DEF LeafPlaceOf
<1>6. iter.node = n /\ iter.position = i
    BY <1>5, SlotIs
<1>7. n = root
    BY <1>1, <1>4, <1>5, <1>6, SmallIsRoot
<1>8. heap[root].max_count \in 1..NodeValues
          /\ heap[root].max_count < NodeValues
      /\ Count(heap, root) = heap[root].max_count /\ heap[root].leaf
    BY <1>1, <1>4, <1>5, <1>6, <1>7, NodeIs DEF Tree, IsFull
<1>9. max \in 1..NodeValues /\ Count(heap, root) < max
    <2>1. max = IF NodeValues <= 2 * heap[root].max_count THEN NodeValues
                ELSE 2 * heap[root].max_count
        BY <1>8, NodeValuesAssumption, MinOfTwo DEF GrownSize
    <2>2. QED
        BY <1>8, <2>1, NodeValuesAssumption
<1>10. Lone(g, new, max, Count(heap, root))
    <2> HIDE DEF max
    <2>1. Count(heap, root) <= max
        BY <1>8, <1>9
    <2>2. QED
        BY <1>4, <1>8, <1>9, <2>1, GrowIs
<1> HIDE DEF g, max, new
<1>11. PICK lw : Tree(g, new, lw, {new})
    BY <1>10 DEF Lone
<1>12. DOMAIN g = {new} /\ g[new].leaf /\ g[new].max_count = max
       /\ Count(g, new) = Count(heap, root)
    BY <1>10 DEF Lone
<1>13. s.node = new /\ s = Slot(new, i)
    BY <1>6, SlotIs
<1> HIDE DEF s
<1>14. ~IsFull(g, s.node)
    BY <1>8, <1>9, <1>12, <1>13 DEF IsFull
<1>15. LeafPlaceOf(g, s)
    BY <1>5, <1>7, <1>12, <1>13 DEF LeafPlaceOf
<1>16. Ended(g, new, rightmost')
    BY <1>12 DEF Ended
<1>17. size' \in Int
    BY <1>1 DEF IInv
<1>18. \A m \in DOMAIN g \ {s.node} : Count(g, m) # 0
    BY <1>12, <1>13
<1>19. QED
    BY <1>1, <1>2, <1>11, <1>14, <1>15, <1>16, <1>17, <1>18, InsertedKeeps

\* Slots of numbers are frames, and frames are such slots.
LEMMA FramesAre ==
    /\ \A n, i \in Nat : Slot(n, i) \in Frames
    /\ \A s \in Frames : /\ s = Slot(s.node, s.position)
                        /\ s.node \in Nat /\ s.position \in Nat
BY DEF Frames, Slot

\* One frame for the leaf where there is no room.
LEMMA FirstFrame ==
    ASSUME NEW h, NEW top, NEW lv, NEW S, Tree(h, top, lv, S),
           NEW n \in DOMAIN h, h[n].leaf, IsFull(h, n),
           h[n].max_count = NodeValues, NEW i \in Nat, i <= Count(h, n),
           NEW frames, frames = <<Slot(n, i)>>
    PROVE  Chain(h, frames, lv)
<1>1. n \in Nat /\ lv[n] = 0
    BY NodeIs DEF Tree, Sized
<1>2. i \in 0..NodeValues
    BY NodeValuesAssumption DEF IsFull
<1>3. Slot(n, i) \in Frames
    BY <1>1, FramesAre
<1>4. frames \in Seq(Frames) /\ Len(frames) = 1 /\ frames[1] = Slot(n, i)
    BY <1>3
<1>5. FrameIs(h, Slot(n, i), lv, 0)
    BY <1>1, <1>2, SlotIs DEF FrameIs
<1>6. \A j \in 1..Len(frames) : FrameIs(h, frames[j], lv, Len(frames) - j)
    BY <1>4, <1>5
<1>7. \A j \in 1..(Len(frames) - 1) :
         Child(h, frames[j].node, frames[j].position) = frames[j + 1].node
    BY <1>4
<1>8. Len(frames) >= 1
    BY <1>4
<1>9. QED
    BY <1>4, <1>6, <1>7, <1>8 DEF Chain

\* The leaf is full: rebalance_or_split begins.
LEMMA MakeRoomKeeps ==
    ASSUME IInv, MakeRoom
    PROVE  IInv'
<1>1. /\ pc = "insert" /\ IsFull(heap, iter.node)
      /\ heap[iter.node].max_count >= NodeValues
      /\ pc' = "make_room" /\ stack' = <<iter>>
      /\ heap' = heap /\ root' = root
      /\ rightmost' = rightmost /\ size' = size /\ source' = source
      /\ erased' = erased /\ count' = count /\ call' = call
    BY DEF MakeRoom, tree
<1>2. Inserting(pc)
    BY <1>1 DEF Inserting
<1>3. root # NoNode /\ LeafPlaceOf(heap, iter) /\ Valued(call, source)
    BY <1>1, <1>2 DEF IInv, Called, At
<1>4. PICK lv, S : Tree(heap, root, lv, S)
    BY <1>3 DEF IInv, Standing
<1>5. PICK n \in DOMAIN heap, i \in Nat :
         iter = Slot(n, i) /\ heap[n].leaf /\ i <= Count(heap, n)
    BY <1>3 DEF LeafPlaceOf
<1>6. iter.node = n
    BY <1>5, SlotIs
<1>7. heap[n].max_count = NodeValues
    <2>1. heap[n].max_count \in 1..NodeValues
              /\ heap[n].max_count >= NodeValues
        BY <1>1, <1>4, <1>6, NodeIs DEF Tree
    <2>2. QED
        BY <2>1, NodeValuesAssumption
<1>8. Chain(heap, stack', lv)
    BY <1>1, <1>4, <1>5, <1>6, <1>7, FirstFrame
<1>9. Standing(heap', root', pc', stack')
    BY <1>1, <1>3, <1>4, <1>8 DEF Standing
<1>10. Ended(heap', root', rightmost')
    BY <1>1 DEF IInv
<1>11. Nonempty(heap', root', pc', stack', iter')
    <2>1. ASSUME NEW m \in DOMAIN heap
          PROVE  Count(heap, m) # 0
        <3>1. Count(heap, m) # 0 \/ heap[root].leaf
            BY <1>1 DEF IInv, Nonempty, Exempt
        <3>2. CASE heap[root].leaf
            <4>1. DOMAIN heap = {root}
                BY <1>4, <3>2, LoneLeaf
            <4>2. Count(heap, n) = NodeValues
                BY <1>1, <1>6, <1>7 DEF IsFull
            <4>3. QED
                BY <1>5, <4>1, <4>2, NodeValuesAssumption
        <3>3. QED
            BY <3>1, <3>2
    <2>2. QED
        BY <1>1, <2>1 DEF Nonempty
<1>12. Called(root', pc', call', source')
    BY <1>1, <1>3 DEF Called, Inserting, Erasing
<1>13. At(heap', root', pc', stack', iter', res')
    BY <1>1 DEF At
<1>14. Enough(heap', pc', count', erased')
    BY <1>1 DEF IInv, Enough, Erasing
<1>15. QED
    BY <1>1, <1>9, <1>10, <1>11, <1>12, <1>13, <1>14 DEF IInv

(***************************************************************************)
(* Clearing and copying                                                    *)
(***************************************************************************)

\* Nothing is allocated when there is no root.
LEMMA EmptyStands ==
    ASSUME NEW h, DOMAIN h = {}, h = [n \in {} |-> h[n]], NEW step, NEW frames,
           NEW last, NEW s
    PROVE  /\ Standing(h, NoNode, step, frames) /\ Ended(h, NoNode, last)
           /\ Nonempty(h, NoNode, step, frames, s)
<1>1. IsFiniteSet(DOMAIN h)
    BY FS_EmptySet
<1>2. Heap(h)
    BY <1>1 DEF Heap
<1>3. QED
    BY <1>2 DEF Standing, Ended, Nonempty

\* All nodes go.
LEMMA ClearKeeps ==
    ASSUME IInv, Clear
    PROVE  IInv'
<1>1. /\ pc' = "done" /\ root' = NoNode /\ size' = 0
      /\ heap' = Free(heap, Range(Nodes(heap, root)))
      /\ erased' = erased /\ count' = count
    BY DEF Clear
<1>2. DOMAIN heap \subseteq Range(Nodes(heap, root))
    <2>1. CASE root = NoNode
        BY <2>1 DEF IInv, Standing
    <2>2. CASE root # NoNode
        <3>1. PICK lv, S : Tree(heap, root, lv, S)
            BY <2>2 DEF IInv, Standing
        <3>2. PICK walk : walk = Nodes(heap, root)
            OBVIOUS
        <3>3. Enum(walk, DOMAIN heap)
            BY <3>1, <3>2, NodesAre
        <3>4. QED
            BY <3>2, <3>3 DEF Enum, Range
    <2>3. QED
        BY <2>1, <2>2
<1>3. DOMAIN heap' = {} /\ heap' = [n \in {} |-> heap'[n]]
    BY <1>1, <1>2 DEF Free
<1>4. /\ Standing(heap', NoNode, pc', stack')
            /\ Ended(heap', NoNode, rightmost')
      /\ Nonempty(heap', NoNode, pc', stack', iter')
    BY <1>3, EmptyStands
<1>5. Called(root', pc', call', source')
    BY <1>1 DEF Called, Inserting, Erasing
<1>6. At(heap', root', pc', stack', iter', res')
    BY <1>1 DEF At
<1>7. Enough(heap', pc', count', erased')
    BY <1>1 DEF IInv, Enough, Erasing
<1>8. QED
    BY <1>1, <1>4, <1>5, <1>6, <1>7 DEF IInv

\* The values of a tree in order, which a copy starts from.
LEMMA ContentsAre ==
    ASSUME IInv
    PROVE  Contents \in Seq(Values)
<1>1. PICK slots : slots = Slots(heap, root)
    OBVIOUS
<1>2. Contents = [i \in DOMAIN slots |-> ValueAt(heap, slots[i])]
    BY <1>1 DEF Contents
<1>3. CASE root = NoNode
    <2>1. slots = <<>>
        BY <1>1, <1>3 DEF Slots
    <2>2. Contents = <<>>
        BY <1>2, <2>1
    <2>3. QED
        BY <2>2
<1>4. CASE root # NoNode
    <2>1. PICK lv, S : Tree(heap, root, lv, S)
        BY <1>4 DEF IInv, Standing
    <2>2. Enum(slots, Places(heap))
        BY <1>1, <2>1, SlotsAre
    <2>3. PICK N \in Nat : N = Len(slots) /\ DOMAIN slots = 1..N
        BY <2>2 DEF Enum
    <2>4. ASSUME NEW i \in 1..N
          PROVE  ValueAt(heap, slots[i]) \in Values
        <3>1. slots[i] \in Places(heap)
            BY <2>2, <2>3 DEF Enum
        <3>2. PICK n \in DOMAIN heap, j \in Nat : slots[i] = Slot(n, j)
                  /\ j < Count(heap, n)
            BY <3>1, PlacesAre DEF ValuePlaceOf
        <3>3. heap[n].values \in Seq(Values)
                  /\ Count(heap, n) = Len(heap[n].values)
            BY <2>1, NodeIs DEF Tree, Count
        <3>4. j + 1 \in 1..Len(heap[n].values)
            BY <3>2, <3>3
        <3>5. heap[n].values[j + 1] \in Values
            BY <3>3, <3>4
        <3>6. slots[i].node = n /\ slots[i].position = j
            BY <3>2, SlotIs
        <3>7. QED
            BY <3>5, <3>6 DEF ValueAt
    <2>5. Contents = [i \in 1..N |-> ValueAt(heap, slots[i])]
        BY <1>2, <2>3
    <2>6. QED
        BY <2>4, <2>5
<1>5. QED
    BY <1>3, <1>4

\* A copy starts from an empty tree.
LEMMA StartCopyKeeps ==
    ASSUME IInv, StartCopy
    PROVE  IInv'
<1>1. /\ pc' = "copy" /\ root' = NoNode /\ size' = 0
      /\ heap' = <<>> /\ source' = Contents
      /\ erased' = erased /\ count' = count /\ call' = call
            /\ call.kind = "copy"
    BY DEF StartCopy
<1>2. DOMAIN heap' = {} /\ heap' = [n \in {} |-> heap'[n]]
    BY <1>1
<1>3. /\ Standing(heap', NoNode, pc', stack')
            /\ Ended(heap', NoNode, rightmost')
      /\ Nonempty(heap', NoNode, pc', stack', iter')
    BY <1>2, EmptyStands
<1>4. Called(root', pc', call', source')
    BY <1>1, ContentsAre DEF Called, Inserting, Erasing
<1>5. At(heap', root', pc', stack', iter', res')
    BY <1>1 DEF At
<1>6. Enough(heap', pc', count', erased')
    BY <1>1 DEF IInv, Enough, Erasing
<1>7. QED
    BY <1>1, <1>3, <1>4, <1>5, <1>6 DEF IInv

(***************************************************************************)
(* Erasing from a leaf                                                     *)
(***************************************************************************)

\* A value is to be erased from a place.
LEMMA EraseKeeps ==
    ASSUME IInv, pc \in {"called", "advance"}, root # NoNode,
           pc' = "erase", heap' = heap, root' = root, rightmost' = rightmost,
           size' = size, erased' = erased, count' \in Int,
           PlaceIn(heap, iter'), count' - erased <= Weight(heap)
    PROVE  IInv'
<1>1. Standing(heap', root', pc', stack')
    BY DEF IInv, Standing
<1>2. Ended(heap', root', rightmost')
    BY DEF IInv
<1>3. Nonempty(heap', root', pc', stack', iter')
    BY DEF IInv, Nonempty, Exempt
<1>4. Called(root', pc', call', source')
    BY DEF Called, Inserting, Erasing
<1>5. At(heap', root', pc', stack', iter', res')
    BY DEF At
<1>6. Enough(heap', pc', count', erased')
    BY DEF IInv, Enough, Erasing
<1>7. QED
    BY <1>1, <1>2, <1>3, <1>4, <1>5, <1>6 DEF IInv

\* A tree without empty nodes has a value.
LEMMA WeightOfCall ==
    ASSUME IInv, root # NoNode, \A n \in DOMAIN heap : Count(heap, n) # 0
    PROVE  Weight(heap) \in Nat /\ Weight(heap) >= 1
<1>1. PICK lv, S : Tree(heap, root, lv, S)
    BY DEF IInv, Standing
<1>2. root \in DOMAIN heap /\ Heap(heap)
    BY <1>1 DEF Tree
<1>3. Count(heap, root) \in Nat /\ Count(heap, root) > 0
    BY <1>2, CountIs
<1>4. IsFiniteSet(Places(heap))
    BY <1>1, PlacesFinite
<1>5. QED
    BY <1>2, <1>3, <1>4, WeightPositive

\* erase is called with an iterator.
LEMMA EraseAtKeeps ==
    ASSUME IInv, EraseAt
    PROVE  IInv'
<1>1. /\ pc = "called" /\ pc' = "erase" /\ heap' = heap /\ root' = root
      /\ rightmost' = rightmost /\ size' = size /\ erased' = erased
      /\ count' = 1 /\ iter' = IteratorAt(call.at) /\ call.kind = "erase"
    BY DEF EraseAt, tree
<1>2. root # NoNode /\ call.at \in Nat
    BY <1>1 DEF IInv, Called
<1>3. PlaceIn(heap, iter')
    BY <1>1, <1>2, IteratorIs
<1>4. \A n \in DOMAIN heap : Count(heap, n) # 0
    BY <1>1, NoneEmpty
<1>5. Weight(heap) \in Nat /\ Weight(heap) >= 1 /\ erased \in Nat
    BY <1>2, <1>4, WeightOfCall DEF IInv, Enough
<1>6. count' - erased <= Weight(heap) /\ count' \in Int
    BY <1>1, <1>5
<1>7. QED
    BY <1>1, <1>2, <1>3, <1>6, EraseKeeps

\* A value has a number below that of the end.
LEMMA PlaceOfIs ==
    ASSUME IInv, root # NoNode, NEW s, ValuePlaceOf(heap, s) \/ s = End
    PROVE  /\ PlaceOf(s) \in 0..Weight(heap)
           /\ Weight(heap) \in Nat
<1>1. PICK lv, S : Tree(heap, root, lv, S)
    BY DEF IInv, Standing
<1>2. PICK slots : slots = Slots(heap, root)
    OBVIOUS
<1>3. Enum(slots, Places(heap))
    BY <1>1, <1>2, SlotsAre
<1>4. PICK N \in Nat : N = Len(slots) /\ DOMAIN slots = 1..N
    BY <1>3 DEF Enum
<1>5. Weight(heap) = N
    BY <1>1, <1>2, <1>4, PlacesFinite DEF Weight
<1>6. PlaceOf(s) = IF s \in Range(slots)
                   THEN (CHOOSE i \in DOMAIN slots : slots[i] = s) - 1
                   ELSE IF s = End THEN Len(slots) ELSE Lost
    BY <1>2 DEF PlaceOf
<1>7. CASE s \in Range(slots)
    <2>1. \E i \in DOMAIN slots : slots[i] = s
        BY <1>7 DEF Range
    <2>2. PICK c : c = CHOOSE i \in DOMAIN slots : slots[i] = s
        OBVIOUS
    <2>3. c \in 1..N
        BY <1>4, <2>1, <2>2
    <2>4. PlaceOf(s) = c - 1
        BY <1>6, <1>7, <2>2
    <2>5. QED
        BY <1>5, <2>3, <2>4
<1>8. CASE s \notin Range(slots)
    <2>1. ~ValuePlaceOf(heap, s)
        <3>1. s \notin Places(heap)
            BY <1>3, <1>4, <1>8 DEF Enum, Range
        <3>2. QED
            BY <3>1, PlacesAre
    <2>2. PlaceOf(s) = N
        BY <1>4, <1>6, <1>8, <2>1
    <2>3. QED
        BY <1>5, <2>2
<1>9. QED
    BY <1>7, <1>8

\* There is nothing to find in an empty tree.
LEMMA NothingFound ==
    ASSUME NEW h, NEW k
    PROVE  LowerBound(h, NoNode, k) = NoSlot /\ Find(h, NoNode, k) = NoSlot
<1>1. Locate(h, NoNode, k) = NoSlot
    BY DEF Locate, Descend
<1>2. NoSlot.node = NoNode
    BY SlotIs DEF NoSlot
<1>3. LowerBound(h, NoNode, k) = NoSlot
    BY <1>1, <1>2 DEF LowerBound, InternalLast
<1>4. QED
    BY <1>3 DEF Find

\* erase_unique and erase_multi look their values up.
LEMMA EraseKeyKeeps ==
    ASSUME IInv, EraseKey
    PROVE  IInv'
<1>1. PICK first : first = IF Unique THEN Find(heap, root, call.key)
                           ELSE LowerBound(heap, root, call.key)
    OBVIOUS
<1>2. PICK last : last = OrEnd(UpperBound(heap, root, call.key))
    OBVIOUS
<1>3. PICK n : n = IF first = NoSlot THEN 0
                   ELSE IF Unique THEN 1 ELSE PlaceOf(last) - PlaceOf(first)
    OBVIOUS
<1>4. /\ pc = "called" /\ pc' = (IF n = 0 THEN "done" ELSE "erase")
      /\ heap' = heap /\ root' = root /\ rightmost' = rightmost /\ size' = size
      /\ erased' = erased /\ count' = n /\ iter' = first
    BY <1>1, <1>2, <1>3 DEF EraseKey, tree
<1>5. \A m \in DOMAIN heap : Count(heap, m) # 0
    BY <1>4, NoneEmpty
<1>6. erased \in Nat
    BY DEF IInv, Enough
<1>7. CASE first = NoSlot
    <2>1. n = 0
        BY <1>3, <1>7
    <2>2. pc' = "done" /\ count' \in Int
        BY <1>4, <2>1
    <2>3. QED
        BY <1>4, <1>5, <2>2, DoneKeeps
<1>8. CASE first # NoSlot
    <2>1. root # NoNode
        BY <1>1, <1>8, NothingFound
    <2>2. PICK lv, S : Tree(heap, root, lv, S)
        BY <2>1 DEF IInv, Standing
    <2>3. ValuePlaceOf(heap, first)
        BY <1>1, <1>8, <2>2, BoundsAre
    <2>4. ValuePlaceOf(heap, last) \/ last = End
        BY <1>2, <2>2, BoundsAre DEF OrEnd
    <2>5. Weight(heap) \in Nat /\ Weight(heap) >= 1
        BY <1>5, <2>1, WeightOfCall
    <2>6. PlaceOf(first) \in 0..Weight(heap)
        BY <2>1, <2>3, PlaceOfIs
    <2>7. PlaceOf(last) \in 0..Weight(heap)
        BY <2>1, <2>4, PlaceOfIs
    <2>8. n \in Int /\ n <= Weight(heap)
        BY <1>3, <1>8, <2>5, <2>6, <2>7
    <2>9. CASE n = 0
        <3>1. pc' = "done" /\ count' \in Int
            BY <1>4, <2>9
        <3>2. QED
            BY <1>4, <1>5, <3>1, DoneKeeps
    <2>10. CASE n # 0
        <3>1. pc' = "erase" /\ count' \in Int
                  /\ count' - erased <= Weight(heap)
            BY <1>4, <1>6, <2>5, <2>8, <2>10
        <3>2. PlaceIn(heap, iter')
            BY <1>4, <2>3 DEF PlaceIn
        <3>3. QED
            BY <1>4, <2>1, <3>1, <3>2, EraseKeeps
    <2>11. QED
        BY <2>9, <2>10
<1>9. QED
    BY <1>7, <1>8

\* One value is erased from a leaf, itself or in exchange for one of an
\* internal node.
LEMMA RemoveFromLeafKeeps ==
    ASSUME IInv, RemoveFromLeaf
    PROVE  IInv'
<1>1. PICK from : from = ErasedAt(heap, iter)
    OBVIOUS
<1>2. /\ pc = "erase" /\ pc' = "rebalance"
      /\ root' = root /\ rightmost' = rightmost
      /\ erased' = erased + 1 /\ count' = count /\ iter' = from /\ res' = from
    BY <1>1 DEF RemoveFromLeaf, ErasedAt
<1>3. heap' = RemoveValue(Swapped(heap, iter, from), from)
    BY <1>1 DEF RemoveFromLeaf, ErasedAt, Swapped
<1>4. root # NoNode /\ PlaceIn(heap, iter)
    BY <1>2 DEF IInv, Called, At, Erasing
<1>5. PICK lv, S : Tree(heap, root, lv, S)
    BY <1>4 DEF IInv, Standing
<1>6. \A m \in DOMAIN heap : Count(heap, m) # 0
    BY <1>2, NoneEmpty
<1>7. Tree(heap', root, lv, S) /\ RemovedAt(heap, heap', from)
    BY <1>1, <1>3, <1>4, <1>5, <1>6, RemovalIs
<1>8. PICK n \in DOMAIN heap, i \in Nat :
         /\ from = Slot(n, i) /\ heap[n].leaf /\ i <= Count(heap', n)
         /\ \A m \in DOMAIN heap \ {n} : Count(heap', m) = Count(heap, m)
    BY <1>7 DEF RemovedAt
<1>9. from.node = n
    BY <1>8, SlotIs
<1>10. DOMAIN heap' = DOMAIN heap
           /\ \A m \in DOMAIN heap : heap'[m].leaf = heap[m].leaf
    BY <1>7 DEF RemovedAt, SameShape
<1>11. LeafPlaceOf(heap', from)
    BY <1>8, <1>10 DEF LeafPlaceOf
<1>12. Standing(heap', root', pc', stack')
    BY <1>2, <1>4, <1>7 DEF Standing
<1>13. Ended(heap', root', rightmost')
    <2>1. root \in DOMAIN heap
        BY <1>5 DEF Tree
    <2>2. QED
        BY <1>2, <1>10, <2>1 DEF IInv, Ended, LeafOf
<1>14. Nonempty(heap', root', pc', stack', iter')
    <2>1. ASSUME NEW m \in DOMAIN heap, m # n
          PROVE  Count(heap', m) # 0
        BY <1>6, <1>8, <2>1
    <2>2. QED
        BY <1>2, <1>9, <1>10, <2>1 DEF Nonempty, Exempt
<1>15. Called(root', pc', call', source')
    BY <1>2, <1>4 DEF Called, Inserting, Erasing
<1>16. At(heap', root', pc', stack', iter', res')
    BY <1>2, <1>8, <1>9, <1>10, <1>11 DEF At
<1>17. Enough(heap', pc', count', erased')
    <2>1. Weight(heap) - 1 <= Weight(heap')
        BY <1>7 DEF RemovedAt
    <2>2. count \in Int /\ erased \in Nat /\ count - erased <= Weight(heap)
        BY <1>2 DEF IInv, Enough, Erasing
    <2>3. Weight(heap) \in Nat /\ Weight(heap') \in Nat
        BY <1>5, <1>7, PlacesFinite DEF Weight
    <2>4. count - (erased + 1) <= Weight(heap')
        BY <2>1, <2>2, <2>3
    <2>5. QED
        BY <1>2, <2>2, <2>4 DEF Enough
<1>18. size' \in Int
    BY DEF IInv, RemoveFromLeaf
<1>19. QED
    BY <1>12, <1>13, <1>14, <1>15, <1>16, <1>17, <1>18 DEF IInv

(***************************************************************************)
(* The way back up to the root                                             *)
(***************************************************************************)

\* The way back up is over.
LEMMA AdvanceKeeps ==
    ASSUME IInv, pc = "rebalance", pc' = "advance",
           NEW lv, NEW S, Tree(heap', root', lv, S),
           Ended(heap', root', rightmost'),
           LeafPlaceOf(heap', res'), \A n \in DOMAIN heap' :
               Count(heap', n) # 0,
           Weight(heap) <= Weight(heap'), count' = count, erased' = erased,
           size' \in Int
    PROVE  IInv'
<1>1. PICK r : r = root'
    OBVIOUS
<1>2. r # NoNode
    BY <1>1, NodeIs DEF Tree
<1>3. Standing(heap', root', pc', stack')
    BY <1>1, <1>2 DEF Standing
<1>4. Nonempty(heap', root', pc', stack', iter')
    BY DEF Nonempty
<1>5. Called(root', pc', call', source')
    BY <1>1, <1>2 DEF Called, Inserting, Erasing
<1>6. At(heap', root', pc', stack', iter', res')
    BY DEF At
<1>7. Enough(heap', pc', count', erased')
    <2>1. count \in Int /\ erased \in Nat /\ count - erased <= Weight(heap)
        BY DEF IInv, Enough, Erasing
    <2>2. root # NoNode
        BY DEF IInv, Called, Erasing
    <2>3. PICK lw, T : Tree(heap, root, lw, T)
        BY <2>2 DEF IInv, Standing
    <2>4. Weight(heap) \in Nat
        BY <2>3, PlacesFinite DEF Weight
    <2>5. PICK g : g = heap'
        OBVIOUS
    <2>6. Weight(g) \in Nat
        BY <2>5, PlacesFinite DEF Weight
    <2>7. count - erased <= Weight(heap')
        BY <2>1, <2>4, <2>5, <2>6
    <2>8. QED
        BY <2>1, <2>7 DEF Enough
<1>8. QED
    BY <1>3, <1>4, <1>5, <1>6, <1>7 DEF IInv

\* Where a call that erases stands when the way back up begins or goes on.
LEMMA OnTheWayUp ==
    ASSUME IInv, pc = "rebalance"
    PROVE  /\ root # NoNode /\ \E lv, S : Tree(heap, root, lv, S)
           /\ iter.node \in DOMAIN heap /\ LeafPlaceOf(heap, res)
           /\ heap[iter.node].leaf => iter = res
           /\ \A n \in DOMAIN heap : n # iter.node => Count(heap, n) # 0
           /\ heap[root].leaf \/ LeafOf(heap, rightmost)
           /\ size \in Int /\ count \in Int /\ erased \in Nat
           /\ count - erased <= Weight(heap)
<1>1. root # NoNode
    BY DEF IInv, Called, Erasing
<1>2. \E lv, S : Tree(heap, root, lv, S)
    BY <1>1 DEF IInv, Standing
<1>3. /\ iter.node \in DOMAIN heap /\ LeafPlaceOf(heap, res)
      /\ heap[iter.node].leaf => iter = res
    BY DEF IInv, At
<1>4. \A n \in DOMAIN heap : n # iter.node => Count(heap, n) # 0
    BY DEF IInv, Nonempty, Exempt
<1>5. heap[root].leaf \/ LeafOf(heap, rightmost)
    BY <1>1 DEF IInv, Ended
<1>6. size \in Int /\ count \in Int /\ erased \in Nat
      /\ count - erased <= Weight(heap)
    BY DEF IInv, Enough, Erasing
<1>7. QED
    BY <1>1, <1>2, <1>3, <1>4, <1>5, <1>6

\* The tree stays as it is.
LEMMA StopsKeeps ==
    ASSUME IInv, pc = "rebalance", pc' = "advance", heap' = heap, root' = root,
           rightmost' = rightmost, size' = size, count' = count,
               erased' = erased,
           LeafPlaceOf(heap, res'), Count(heap, iter.node) # 0
    PROVE  IInv'
<1>1. PICK lv, S : Tree(heap, root, lv, S)
    BY OnTheWayUp
<1>2. \A n \in DOMAIN heap : Count(heap, n) # 0
    BY OnTheWayUp
<1>3. Tree(heap', root', lv, S) /\ Ended(heap', root', rightmost')
    BY <1>1 DEF IInv
<1>4. Weight(heap) <= Weight(heap')
    <2>1. Weight(heap) \in Nat
        BY <1>1, PlacesFinite DEF Weight
    <2>2. QED
        BY <2>1
<1>5. size' \in Int
    BY DEF IInv
<1>6. LeafPlaceOf(heap', res') /\ \A n \in DOMAIN heap' : Count(heap', n) # 0
    BY <1>2
<1>7. QED
    BY <1>3, <1>4, <1>5, <1>6, AdvanceKeeps

\* The way back up ends at a root with values.
LEMMA RootKeptKeeps ==
    ASSUME IInv, RootKept
    PROVE  IInv'
<1>1. /\ pc = "rebalance" /\ pc' = "advance" /\ heap' = heap /\ root' = root
      /\ rightmost' = rightmost /\ size' = size /\ count' = count
      /\ erased' = erased /\ res' = res /\ Count(heap, iter.node) # 0
    BY DEF RootKept, RootReached, tree
<1>2. LeafPlaceOf(heap, res')
    BY <1>1, OnTheWayUp
<1>3. QED
    BY <1>1, <1>2, StopsKeeps

\* The way back up ends at a node with enough values.
LEMMA EnoughValuesKeeps ==
    ASSUME IInv, EnoughValues
    PROVE  IInv'
<1>1. /\ pc = "rebalance" /\ pc' = "advance" /\ heap' = heap /\ root' = root
      /\ rightmost' = rightmost /\ size' = size /\ count' = count
      /\ erased' = erased /\ res' = res
      /\ Count(heap, iter.node) >= MinNodeValues
    BY DEF EnoughValues, tree
<1>2. MinNodeValues \in Nat /\ MinNodeValues >= 1
    BY NodeValuesAssumption DEF MinNodeValues
<1>3. Count(heap, iter.node) # 0
    BY <1>1, <1>2
<1>4. LeafPlaceOf(heap, res')
    BY <1>1, OnTheWayUp
<1>5. QED
    BY <1>1, <1>3, <1>4, StopsKeeps

\* A node without values has a sibling that can be merged or can give some.
LEMMA EmptyIsFilled ==
    ASSUME IInv, pc = "rebalance", iter.node # root, CannotMerge(iter.node),
           ~CanTakeRight(iter), ~CanTakeLeft(iter)
    PROVE  Count(heap, iter.node) # 0
<1> SUFFICES ASSUME Count(heap, iter.node) = 0 PROVE FALSE
    OBVIOUS
<1>1. PICK lv, S : Tree(heap, root, lv, S)
    BY OnTheWayUp
<1>2. PICK n \in DOMAIN heap : n = iter.node
    BY OnTheWayUp
<1>3. n # root /\ Heap(heap)
    BY <1>1, <1>2 DEF Tree
<1>4. PICK p \in DOMAIN heap : p = heap[n].parent /\ lv[p] = lv[n] + 1
    BY <1>1, <1>3, ParentIs
<1>5. p # n
    <2>1. lv[n] \in Nat
        BY <1>1 DEF Tree, Sized
    <2>2. QED
        BY <1>4, <2>1
<1>6. Count(heap, p) # 0 /\ Count(heap, p) \in Nat
    BY <1>2, <1>3, <1>5, CountIs, OnTheWayUp
<1>7. heap[n].position \in 0..Count(heap, p)
    BY <1>1, <1>3, <1>4, ParentIs
<1>8. MinNodeValues \in Nat /\ MinNodeValues < NodeValues
    BY NodeValuesAssumption DEF MinNodeValues
<1>9. CASE HasRight(heap, n)
    <2>1. PICK r \in DOMAIN heap : r = Right(heap, n) /\ r # root
        BY <1>1, <1>3, <1>9, RightIs
    <2>2. ~CanMergeRight(n)
        BY <1>2 DEF CannotMerge
    <2>3. ~Fit(n, r)
        BY <1>9, <2>1, <2>2 DEF CanMergeRight
    <2>4. heap[n].max_count = NodeValues /\ Count(heap, r) \in Nat
        BY <1>1, <1>3, <2>1, CountIs DEF Tree, Sized
    <2>5. Count(heap, n) = 0
        BY <1>2
    <2>6. Count(heap, r) > MinNodeValues
        BY <1>8, <2>3, <2>4, <2>5, NodeValuesAssumption DEF Fit
    <2>7. QED
        BY <1>2, <1>9, <2>1, <2>5, <2>6 DEF CanTakeRight
<1>10. CASE ~HasRight(heap, n)
    <2>1. HasLeft(heap, n)
        BY <1>4, <1>6, <1>7, <1>10 DEF HasLeft, HasRight
    <2>2. PICK l \in DOMAIN heap : l = Left(heap, n) /\ l # root
        BY <1>1, <1>3, <2>1, LeftIs
    <2>3. ~CanMergeLeft(n)
        BY <1>2 DEF CannotMerge
    <2>4. ~Fit(l, n)
        BY <2>1, <2>2, <2>3 DEF CanMergeLeft
    <2>5. heap[l].max_count = NodeValues /\ Count(heap, l) \in Nat
        BY <1>1, <1>3, <2>2, CountIs DEF Tree, Sized
    <2>6. Count(heap, n) = 0
        BY <1>2
    <2>7. Count(heap, l) > MinNodeValues
        BY <1>8, <2>4, <2>5, <2>6, NodeValuesAssumption DEF Fit
    <2>8. QED
        BY <1>2, <2>1, <2>2, <2>6, <2>7 DEF CanTakeLeft
<1>11. QED
    BY <1>9, <1>10

\* The way back up ends at a node that no sibling can help.
LEMMA LeaveUnderfullKeeps ==
    ASSUME IInv, LeaveUnderfull
    PROVE  IInv'
<1>1. /\ pc = "rebalance" /\ pc' = "advance" /\ heap' = heap /\ root' = root
      /\ rightmost' = rightmost /\ size' = size /\ count' = count
      /\ erased' = erased /\ res' = IF heap[iter.node].leaf THEN iter ELSE res
      /\ iter.node # root /\ CannotMerge(iter.node)
      /\ ~CanTakeRight(iter) /\ ~CanTakeLeft(iter)
    BY DEF LeaveUnderfull, EndsAt, Underfull
<1>2. Count(heap, iter.node) # 0
    BY <1>1, EmptyIsFilled
<1>3. res' = res
    BY <1>1, OnTheWayUp
<1>4. LeafPlaceOf(heap, res')
    BY <1>1, <1>3, OnTheWayUp
<1>5. QED
    BY <1>1, <1>2, <1>4, StopsKeeps

\* The call goes on with the next value to erase, or ends.
LEMMA AdvanceStepKeeps ==
    ASSUME IInv, Advance
    PROVE  IInv'
<1>1. PICK valid : valid = IF res.position = Count(heap, res.node)
                           THEN Increment(heap,
                               Slot(res.node, res.position - 1)) ELSE res
    OBVIOUS
<1>2. /\ pc = "advance" /\ heap' = heap /\ root' = root
      /\ rightmost' = rightmost /\ size' = size /\ count' = count
      /\ erased' = erased /\ EraseReturns(PastErased(valid))
    BY <1>1 DEF Advance, tree
<1>3. root # NoNode /\ LeafPlaceOf(heap, res)
    BY <1>2 DEF IInv, Called, At, Erasing
<1>4. PICK lv, S : Tree(heap, root, lv, S)
    BY <1>3 DEF IInv, Standing
<1>5. PICK n \in DOMAIN heap, i \in Nat :
         res = Slot(n, i) /\ heap[n].leaf /\ i <= Count(heap, n)
    BY <1>3 DEF LeafPlaceOf
<1>6. res.node = n /\ res.position = i
    BY <1>5, SlotIs
<1>7. PlaceIn(heap, valid)
    <2>1. CASE i = Count(heap, n)
        <3>1. valid = Increment(heap, Slot(n, i - 1))
            BY <1>1, <1>6, <2>1
        <3>2. PICK j \in Int : j = i - 1 /\ j + 1 >= 0
            OBVIOUS
        <3>3. PlaceIn(heap, Increment(heap, Slot(n, j)))
            BY <1>4, <1>5, <3>2, IncrementIs
        <3>4. QED
            BY <3>1, <3>2, <3>3
    <2>2. CASE i # Count(heap, n)
        BY <1>1, <1>3, <1>6, <2>2 DEF PlaceIn
    <2>3. QED
        BY <2>1, <2>2
<1>8. PlaceIn(heap, PastErased(valid))
    BY <1>4, <1>7, IncrementPlace DEF PastErased
<1>9. /\ pc' = (IF erased < count THEN "erase" ELSE "done")
      /\ iter' = PastErased(valid)
    BY <1>2 DEF EraseReturns
<1>10. count \in Int /\ count - erased <= Weight(heap)
    BY <1>2 DEF IInv, Enough, Erasing
<1>11. CASE erased < count
    BY <1>2, <1>3, <1>8, <1>9, <1>10, <1>11, EraseKeeps
<1>12. CASE ~(erased < count)
    <2>1. \A m \in DOMAIN heap : Count(heap, m) # 0
        BY <1>2, NoneEmpty
    <2>2. pc' = "done" /\ count' \in Int
        BY <1>2, <1>9, <1>10, <1>12
    <2>3. QED
        BY <1>2, <2>1, <2>2, DoneKeeps
<1>13. QED
    BY <1>11, <1>12

\* The last value is gone, and so is the root.
LEMMA LastValueErasedKeeps ==
    ASSUME IInv, LastValueErased
    PROVE  IInv'
<1>1. /\ pc = "rebalance" /\ iter.node = root /\ Count(heap, root) = 0
      /\ heap[root].leaf /\ heap' = Free(heap, {root}) /\ root' = NoNode
      /\ pc' = (IF erased < count THEN "erase" ELSE "done")
      /\ size' = size /\ count' = count /\ erased' = erased
    BY DEF LastValueErased, RootReached, EraseReturns, RootIsLeaf
<1>2. PICK lv, S : Tree(heap, root, lv, S)
    BY <1>1, OnTheWayUp
<1>3. DOMAIN heap = {root}
    BY <1>1, <1>2, LoneLeaf
<1>4. DOMAIN heap' = {} /\ heap' = [n \in {} |-> heap'[n]]
    BY <1>1, <1>3 DEF Free
<1>5. Weight(heap) = 0
    BY <1>1, <1>3, WeightNone
<1>6. pc' = "done"
    BY <1>1, <1>5, OnTheWayUp
<1>7. /\ Standing(heap', NoNode, pc', stack')
            /\ Ended(heap', NoNode, rightmost')
      /\ Nonempty(heap', NoNode, pc', stack', iter')
    BY <1>4, EmptyStands
<1>8. Called(root', pc', call', source')
    BY <1>6 DEF Called, Inserting, Erasing
<1>9. At(heap', root', pc', stack', iter', res')
    BY <1>6 DEF At
<1>10. Enough(heap', pc', count', erased')
    BY <1>1, <1>6 DEF IInv, Enough, Erasing
<1>11. size' \in Int
    BY <1>1 DEF IInv
<1>12. QED
    BY <1>1, <1>7, <1>8, <1>9, <1>10, <1>11 DEF IInv

\* A root without values goes, and its only child, a leaf, is the root.
LEMMA LeafBecomesRootKeeps ==
    ASSUME IInv, LeafBecomesRoot
    PROVE  IInv'
<1>1. PICK c : c = Child(heap, root, 0)
    OBVIOUS
<1>2. /\ pc = "rebalance" /\ pc' = "advance" /\ iter.node = root
      /\ Count(heap, root) = 0 /\ ~heap[root].leaf /\ heap[c].leaf
      /\ heap' = RootDropped(heap, root, c) /\ root' = c
      /\ size' = 0 /\ count' = count /\ erased' = erased /\ res' = res
    BY <1>1 DEF LeafBecomesRoot, RootReached, RootIsLeaf, RootDropped
<1>3. PICK lv, S : Tree(heap, root, lv, S)
    BY <1>2, OnTheWayUp
<1>4. OnlyKid(heap, root, c)
    BY <1>1, <1>2 DEF OnlyKid
<1>5. Lone(heap', c, NodeValues, Count(heap, c)) /\ DOMAIN heap = {root, c}
    BY <1>2, <1>3, <1>4, LeafRootIs
<1>6. PICK lw : Tree(heap', c, lw, {c})
    BY <1>5 DEF Lone
<1>7. DOMAIN heap' = {c} /\ heap'[c].leaf /\ Count(heap', c) = Count(heap, c)
    BY <1>5 DEF Lone
<1>8. c # root
    BY <1>3, <1>2, <1>4, OnlyChild
<1>9. Count(heap, c) # 0
    BY <1>2, <1>5, <1>8, OnTheWayUp
<1>10. LeafPlaceOf(heap', res')
    <2>1. PICK n \in DOMAIN heap, i \in Nat :
             res = Slot(n, i) /\ heap[n].leaf /\ i <= Count(heap, n)
        BY <1>2, OnTheWayUp DEF LeafPlaceOf
    <2>2. n = c
        BY <1>2, <1>5, <2>1
    <2>3. QED
        BY <1>2, <1>7, <2>1, <2>2 DEF LeafPlaceOf
<1>11. Weight(heap) <= Weight(heap')
    <2>1. \A n \in DOMAIN heap : \/ n \in DOMAIN heap'
                                       /\ Count(heap', n) = Count(heap, n)
                                 \/ Count(heap, n) = 0
        BY <1>2, <1>5, <1>7
    <2>2. \A n \in DOMAIN heap' : \/ n \in DOMAIN heap
                                        /\ Count(heap', n) = Count(heap, n)
                                  \/ Count(heap', n) = 0
        BY <1>5, <1>7
    <2>3. Weight(heap') = Weight(heap)
        BY <2>1, <2>2, WeightSame
    <2>4. Weight(heap) \in Nat
        BY <1>3, PlacesFinite DEF Weight
    <2>5. QED
        BY <2>3, <2>4
<1>12. Tree(heap', root', lw, {c}) /\ Ended(heap', root', rightmost')
    BY <1>2, <1>6, <1>7 DEF Ended
<1>13. size' \in Int /\ \A n \in DOMAIN heap' : Count(heap', n) # 0
    BY <1>2, <1>7, <1>9
<1>14. QED
    BY <1>2, <1>10, <1>11, <1>12, <1>13, AdvanceKeeps

\* A root without values takes the contents of its only child.
LEMMA ChildMovesIntoRootKeeps ==
    ASSUME IInv, ChildMovesIntoRoot
    PROVE  IInv'
<1>1. PICK c : c = Child(heap, root, 0)
    OBVIOUS
<1>2. /\ pc = "rebalance" /\ pc' = "advance" /\ iter.node = root
      /\ Count(heap, root) = 0 /\ ~heap[root].leaf /\ ~heap[c].leaf
      /\ heap' = RootReplaced(heap, root, c) /\ root' = root
            /\ rightmost' = rightmost
      /\ size' = size /\ count' = count /\ erased' = erased /\ res' = res
    BY <1>1 DEF ChildMovesIntoRoot, RootReached, RootIsLeaf, RootReplaced
<1>3. PICK lv, S : Tree(heap, root, lv, S)
    BY <1>2, OnTheWayUp
<1>4. OnlyKid(heap, root, c)
    BY <1>1, <1>2 DEF OnlyKid
<1>5. c \in DOMAIN heap /\ c # root /\ root \in DOMAIN heap
    BY <1>2, <1>3, <1>4, OnlyChild, RootOfTree
<1>6. PICK lw : lw = [m \in DOMAIN heap |-> IF m = root THEN lv[c] ELSE lv[m]]
    OBVIOUS
<1>7. lw[root] = lv[c] /\ \A m \in DOMAIN heap \ {root} : lw[m] = lv[m]
    BY <1>5, <1>6
<1>8. Tree(heap', root, lw, S \ {c}) /\ Sunk(heap, heap', root, c)
    BY <1>2, <1>3, <1>4, <1>7, SunkIs
<1>9. /\ DOMAIN heap' = DOMAIN heap \ {c}
      /\ \A m \in DOMAIN heap' : heap'[m].leaf = heap[m].leaf
      /\ Count(heap', root) = Count(heap, c)
      /\ \A m \in DOMAIN heap' \ {root} : Count(heap', m) = Count(heap, m)
    BY <1>8 DEF Sunk
<1>10. \A n \in DOMAIN heap : n # root => Count(heap, n) # 0
    BY <1>2, OnTheWayUp
<1>11. \A n \in DOMAIN heap' : Count(heap', n) # 0
    BY <1>5, <1>9, <1>10
<1>12. LeafPlaceOf(heap', res')
    <2>1. PICK n \in DOMAIN heap, i \in Nat :
             res = Slot(n, i) /\ heap[n].leaf /\ i <= Count(heap, n)
        BY <1>2, OnTheWayUp DEF LeafPlaceOf
    <2>2. n # c /\ n # root
        BY <1>2, <2>1
    <2>3. n \in DOMAIN heap' /\ heap'[n].leaf /\ i <= Count(heap', n)
        BY <1>9, <2>1, <2>2
    <2>4. QED
        BY <1>2, <2>1, <2>3 DEF LeafPlaceOf
<1>13. Ended(heap', root', rightmost')
    <2>1. LeafOf(heap, rightmost)
        BY <1>2, OnTheWayUp
    <2>2. rightmost # c
        BY <1>2, <2>1 DEF LeafOf
    <2>3. QED
        BY <1>2, <1>9, <2>1, <2>2 DEF Ended, LeafOf
<1>14. Weight(heap) <= Weight(heap')
    <2>1. PICK g : g = heap'
        OBVIOUS
    <2>2. IsFiniteSet(Places(g))
        BY <1>8, <2>1, PlacesFinite
    <2>3. /\ DOMAIN g = DOMAIN heap \ {c}
          /\ Count(g, root) = Count(heap, c)
          /\ \A m \in DOMAIN g \ {root} : Count(g, m) = Count(heap, m)
        BY <1>9, <2>1
    <2>4. Weight(heap) <= Weight(g)
        BY <1>2, <1>5, <2>2, <2>3, WeightMoved
    <2>5. QED
        BY <2>1, <2>4
<1>15. Tree(heap', root', lw, S \ {c}) /\ size' \in Int
    BY <1>2, <1>8, OnTheWayUp
<1>16. QED
    BY <1>2, <1>11, <1>12, <1>13, <1>14, <1>15, AdvanceKeeps

(***************************************************************************)
(* Merging and rebalancing after a removal                                 *)
(***************************************************************************)

\* Siblings are both leaves or both internal.
LEMMA SiblingsAre ==
    ASSUME NEW h, NEW top, NEW lv, NEW S, Tree(h, top, lv, S),
           NEW n \in DOMAIN h, n # top, HasRight(h, n), NEW r, r = Right(h, n)
    PROVE  /\ r \in DOMAIN h /\ r # top /\ r # n /\ h[r].parent = h[n].parent
           /\ h[r].leaf <=> h[n].leaf
           /\ h[n].parent \in DOMAIN h /\ ~h[h[n].parent].leaf
           /\ h[n].parent # n /\ h[n].parent # r
           /\ ~h[top].leaf
           /\ h[n].max_count = NodeValues /\ h[r].max_count = NodeValues
           /\ Count(h, n) \in 0..NodeValues /\ Count(h, r) \in 0..NodeValues
<1>1. r \in DOMAIN h /\ r # top /\ r # n /\ h[r].parent = h[n].parent
          /\ lv[r] = lv[n]
    BY RightIs
<1>2. PICK p \in DOMAIN h : p = h[n].parent /\ ~h[p].leaf /\ lv[p] = lv[n] + 1
    BY ParentIs
<1>3. h[r].leaf <=> h[n].leaf
    BY <1>1 DEF Tree, Sized
<1>4. lv[n] \in Nat
    BY DEF Tree, Sized
<1>5. p # n /\ p # r
    BY <1>1, <1>2, <1>4
<1>6. ~h[top].leaf
    BY <1>2, LoneLeaf
<1>7. h[n].max_count = NodeValues /\ h[r].max_count = NodeValues
    BY <1>1 DEF Tree, Sized
<1>8. Count(h, n) <= h[n].max_count /\ Count(h, r) <= h[r].max_count
    BY <1>1 DEF Tree, Sized
<1>9. Count(h, n) \in Nat /\ Count(h, r) \in Nat
    BY <1>1, CountIs DEF Tree
<1>10. Count(h, n) \in 0..NodeValues /\ Count(h, r) \in 0..NodeValues
    BY <1>7, <1>8, <1>9, NodeValuesAssumption
<1>11. QED
    BY <1>1, <1>2, <1>3, <1>5, <1>6, <1>7, <1>10

\* The place j of m among the places of n, which has a values, and of the
\* sibling on its right.
Across(n, a, m, j) == IF m = n THEN j + 1 ELSE a + (j + 2)

\* Places across two siblings, one by one.
LEMMA AcrossIs ==
    ASSUME NEW n, NEW m, NEW a, NEW j
    PROVE  /\ m = n => Across(n, a, m, j) = j + 1
           /\ m # n => Across(n, a, m, j) = a + (j + 2)
BY DEF Across

\* What a call returns stays where it is when internal nodes change.
LEMMA PlaceStays ==
    ASSUME NEW h, NEW g, NEW s, LeafPlaceOf(h, s),
           \A m \in DOMAIN h : h[m].leaf =>
              m \in DOMAIN g /\ g[m].leaf /\ Count(g, m) = Count(h, m)
    PROVE  LeafPlaceOf(g, s)
BY DEF LeafPlaceOf

\* Two siblings become one node.
LEMMA MergeNodesKeeps ==
    ASSUME IInv, pc = "rebalance", count' = count, erased' = erased,
           NEW n \in DOMAIN heap, n # root, HasRight(heap, n),
           NEW r, r = Right(heap, n), Fit(n, r), iter.node \in {n, r},
           NEW s, MergeNodes(n, s),
           heap[n].leaf => \E j \in Nat : /\ s = Slot(n, j)
                                          /\ j <= Count(heap,
                                                n) + 1 + Count(heap, r)
    PROVE  IInv'
<1>1. PICK lv, S : Tree(heap, root, lv, S)
    BY OnTheWayUp
<1>2. PICK p : p = heap[n].parent
    OBVIOUS
<1>3. /\ r \in DOMAIN heap /\ r # root /\ r # n
      /\ heap[r].leaf <=> heap[n].leaf
      /\ p \in DOMAIN heap /\ ~heap[p].leaf /\ p # n /\ p # r
      /\ ~heap[root].leaf
      /\ Count(heap, n) \in 0..NodeValues /\ Count(heap, r) \in 0..NodeValues
    BY <1>1, <1>2, SiblingsAre
<1>4. /\ heap' = Merge(heap, n)
      /\ rightmost' = IF rightmost = r THEN n ELSE rightmost
      /\ iter' = Slot(p, s.position)
      /\ res' = IF heap[n].leaf THEN s ELSE res
      /\ root' = root /\ size' = size /\ pc' = "rebalance"
    BY <1>2 DEF MergeNodes
<1>5. Tree(heap', root, lv, S) /\ Merged(heap, heap', n, r)
    <2>1. 1 + Count(heap, n) + Count(heap, r) <= heap[n].max_count
        BY DEF Fit
    <2>2. QED
        BY <1>1, <1>4, <2>1, MergeIs
<1>6. /\ DOMAIN heap' = DOMAIN heap \ {r}
      /\ \A m \in DOMAIN heap' : heap'[m].leaf = heap[m].leaf
      /\ Count(heap', n) = Count(heap, n) + 1 + Count(heap, r)
      /\ Count(heap', p) + 1 = Count(heap, p)
      /\ \A m \in DOMAIN heap' \ {n, p} : Count(heap', m) = Count(heap, m)
    BY <1>2, <1>5 DEF Merged
<1>7. iter'.node = p
    BY <1>4, SlotIs
<1>8. p \in DOMAIN heap' /\ ~heap'[p].leaf
    BY <1>3, <1>6
<1>9. LeafPlaceOf(heap', res')
    <2>1. CASE heap[n].leaf
        <3>1. PICK j \in Nat : s = Slot(n, j) /\ j <= Count(heap', n)
            BY <1>6, <2>1
        <3>2. n \in DOMAIN heap' /\ heap'[n].leaf
            BY <1>3, <1>6, <2>1
        <3>3. res' = s
            BY <1>4, <2>1
        <3>4. QED
            BY <3>1, <3>2, <3>3 DEF LeafPlaceOf
    <2>2. CASE ~heap[n].leaf
        <3>1. \A m \in DOMAIN heap : heap[m].leaf =>
                 m \in DOMAIN heap' /\ heap'[m].leaf
                     /\ Count(heap', m) = Count(heap, m)
            BY <1>3, <1>6, <2>2
        <3>2. PICK g : g = heap'
            OBVIOUS
        <3>3. LeafPlaceOf(heap, res)
            BY OnTheWayUp
        <3>4. LeafPlaceOf(g, res)
            BY <3>1, <3>2, <3>3, PlaceStays
        <3>5. QED
            BY <1>4, <2>2, <3>2, <3>4
    <2>3. QED
        BY <2>1, <2>2
<1>10. root # NoNode
    BY OnTheWayUp
<1>11. Standing(heap', root', pc', stack')
    BY <1>4, <1>5, <1>10 DEF Standing
<1>12. Ended(heap', root', rightmost')
    <2>1. LeafOf(heap, rightmost)
        BY <1>3, OnTheWayUp
    <2>2. LeafOf(heap', rightmost')
        BY <1>3, <1>4, <1>6, <2>1 DEF LeafOf
    <2>3. QED
        BY <2>2 DEF Ended
<1>13. Nonempty(heap', root', pc', stack', iter')
    <2>1. \A m \in DOMAIN heap : m # iter.node => Count(heap, m) # 0
        BY OnTheWayUp
    <2>2. Count(heap', n) # 0
        BY <1>3, <1>6
    <2>3. \A m \in DOMAIN heap' : m # p => Count(heap', m) # 0
        BY <1>3, <1>6, <2>1, <2>2
    <2>4. QED
        BY <1>4, <1>7, <2>3 DEF Nonempty, Exempt
<1>14. Called(root', pc', call', source')
    BY <1>4, <1>10 DEF Called, Inserting, Erasing
<1>15. At(heap', root', pc', stack', iter', res')
    BY <1>4, <1>7, <1>8, <1>9 DEF At
<1>16. Enough(heap', pc', count', erased')
    <2>1. PICK g : g = heap'
        OBVIOUS
    <2>2. IsFiniteSet(Places(g)) /\ Weight(g) \in Nat
        BY <1>5, <2>1, PlacesFinite DEF Weight
    <2>3. Weight(heap) \in Nat
        BY <1>1, PlacesFinite DEF Weight
    <2>4. PICK a \in Nat : a = Count(heap, n)
        BY <1>3
    <2>5. PICK b \in Nat : b = Count(heap, r)
        BY <1>3
    <2>6. PICK c \in Nat : c = Count(g, p) /\ Count(heap, p) = c + 1
        <3>1. Heap(g)
            BY <1>5, <2>1 DEF Tree
        <3>2. Count(g, p) \in Nat
            BY <1>8, <2>1, <3>1, CountIs
        <3>3. QED
            BY <1>6, <2>1, <3>2
    <2>7. /\ DOMAIN g = DOMAIN heap \ {r} /\ Count(g, n) = a + 1 + b
          /\ \A m \in DOMAIN g \ {n, p} : Count(g, m) = Count(heap, m)
        BY <1>6, <2>1, <2>4, <2>5
    <2>8. Weight(heap) <= Weight(g)
        BY <1>3, <2>2, <2>4, <2>5, <2>6, <2>7, WeightMerged
    <2>9. count \in Int /\ erased \in Nat /\ count - erased <= Weight(heap)
        BY OnTheWayUp
    <2>10. count - erased <= Weight(heap')
        BY <2>1, <2>2, <2>3, <2>8, <2>9
    <2>11. QED
        BY <2>9, <2>10 DEF Enough
<1>17. size' \in Int
    BY <1>4, OnTheWayUp
<1>18. QED
    BY <1>11, <1>12, <1>13, <1>14, <1>15, <1>16, <1>17 DEF IInv

\* n takes in its right sibling r, and the place to return is the same among
\* the places of both.
TakesIn(n, r, s) ==
    /\ n \in DOMAIN heap /\ n # root /\ HasRight(heap, n)
    /\ r = Right(heap, n) /\ Fit(n, r) /\ iter.node \in {n, r}
    /\ MergeNodes(n, s)
    /\ heap[n].leaf => \E f \in {n, r}, i, j \in Nat :
          /\ res = Slot(f, i) /\ s = Slot(n, j)
          /\ j <= Count(heap, n) + 1 + Count(heap, r)
          /\ j + 1 = Across(n, Count(heap, n), f, i)

\* The node takes in its right sibling.
LEMMA MergeRightIs ==
    ASSUME IInv, MergeRight
    PROVE  pc = "rebalance" /\ \E n, r, s : TakesIn(n, r, s)
<1>1. /\ pc = "rebalance" /\ iter.node # root /\ CanMergeRight(iter.node)
      /\ MergeNodes(iter.node, iter)
    BY DEF MergeRight, Underfull
<1>2. PICK n \in DOMAIN heap : n = iter.node
    BY <1>1, OnTheWayUp
<1>3. PICK r : r = Right(heap, n)
    OBVIOUS
<1>4. HasRight(heap, n) /\ Fit(n, r) /\ n # root /\ MergeNodes(n, iter)
    BY <1>1, <1>2, <1>3 DEF CanMergeRight
<1>5. PICK lv, S : Tree(heap, root, lv, S)
    BY <1>1, OnTheWayUp
<1>6. Count(heap, n) \in 0..NodeValues /\ Count(heap, r) \in 0..NodeValues
    BY <1>3, <1>4, <1>5, SiblingsAre
<1>7. heap[n].leaf => \E f \in {n, r}, i, j \in Nat :
         /\ res = Slot(f, i) /\ iter = Slot(n, j)
         /\ j <= Count(heap, n) + 1 + Count(heap, r)
         /\ j + 1 = Across(n, Count(heap, n), f, i)
    <2>1. SUFFICES ASSUME heap[n].leaf
                   PROVE  \E f \in {n, r}, i, j \in Nat :
                             /\ res = Slot(f, i) /\ iter = Slot(n, j)
                             /\ j <= Count(heap, n) + 1 + Count(heap, r)
                             /\ j + 1 = Across(n, Count(heap, n), f, i)
        OBVIOUS
    <2>2. LeafPlaceOf(heap, iter) /\ res = iter
        BY <1>1, <1>2, <2>1, OnTheWayUp
    <2>3. PICK m \in DOMAIN heap, j \in Nat : iter = Slot(m, j)
              /\ j <= Count(heap, m)
        BY <2>2 DEF LeafPlaceOf
    <2>4. m = n
        BY <1>2, <2>3, SlotIs
    <2>5. j <= Count(heap, n) + 1 + Count(heap, r)
        BY <1>6, <2>3, <2>4
    <2>6. j + 1 = Across(n, Count(heap, n), n, j)
        BY AcrossIs
    <2>7. QED
        BY <2>2, <2>3, <2>4, <2>5, <2>6
<1>8. TakesIn(n, r, iter)
    BY <1>2, <1>3, <1>4, <1>7 DEF TakesIn
<1>9. QED
    BY <1>1, <1>8

\* The left sibling takes in the node.
LEMMA MergeLeftIs ==
    ASSUME IInv, MergeLeft
    PROVE  pc = "rebalance" /\ \E n, r, s : TakesIn(n, r, s)
<1>1. PICK r \in DOMAIN heap : r = iter.node
    BY OnTheWayUp DEF MergeLeft, Underfull
<1>2. PICK n : n = Left(heap, r)
    OBVIOUS
<1>3. PICK s : s = Slot(n, iter.position + 1 + Count(heap, n))
    OBVIOUS
<1>4. /\ pc = "rebalance" /\ r # root /\ HasLeft(heap, r) /\ Fit(n, r)
      /\ MergeNodes(n, s)
    BY <1>1, <1>2, <1>3 DEF MergeLeft, Underfull, CanMergeLeft
<1>5. PICK lv, S : Tree(heap, root, lv, S)
    BY <1>4, OnTheWayUp
<1>6. /\ n \in DOMAIN heap /\ n # root /\ HasRight(heap, n)
            /\ r = Right(heap, n)
    BY <1>2, <1>4, <1>5, LeftIs
<1>7. /\ Count(heap, n) \in 0..NodeValues /\ Count(heap, r) \in 0..NodeValues
      /\ heap[r].leaf <=> heap[n].leaf
    BY <1>5, <1>6, SiblingsAre
<1>8. heap[n].leaf => \E f \in {n, r}, i, j \in Nat :
         /\ res = Slot(f, i) /\ s = Slot(n, j)
         /\ j <= Count(heap, n) + 1 + Count(heap, r)
         /\ j + 1 = Across(n, Count(heap, n), f, i)
    <2>1. SUFFICES ASSUME heap[n].leaf
                   PROVE  \E f \in {n, r}, i, j \in Nat :
                             /\ res = Slot(f, i) /\ s = Slot(n, j)
                             /\ j <= Count(heap, n) + 1 + Count(heap, r)
                             /\ j + 1 = Across(n, Count(heap, n), f, i)
        OBVIOUS
    <2>2. LeafPlaceOf(heap, iter) /\ res = iter
        BY <1>1, <1>4, <1>7, <2>1, OnTheWayUp
    <2>3. PICK m \in DOMAIN heap, i \in Nat : iter = Slot(m, i)
              /\ i <= Count(heap, m)
        BY <2>2 DEF LeafPlaceOf
    <2>4. m = r /\ iter.position = i
        BY <1>1, <2>3, SlotIs
    <2>5. PICK j \in Nat : /\ j = i + 1 + Count(heap, n)
                           /\ j <= Count(heap, n) + 1 + Count(heap, r)
        BY <1>7, <2>3, <2>4
    <2>6. PICK a \in Nat : a = Count(heap, n)
        BY <1>7
    <2>7. Across(n, a, r, i) = a + (i + 2)
        <3>1. r # n
            BY <1>5, <1>6, RightIs
        <3>2. QED
            BY <3>1, AcrossIs
    <2>8. j + 1 = Across(n, Count(heap, n), r, i)
        BY <2>5, <2>6, <2>7
    <2>9. QED
        BY <1>3, <2>2, <2>3, <2>4, <2>5, <2>8
<1>9. TakesIn(n, r, s)
    BY <1>1, <1>4, <1>6, <1>8 DEF TakesIn
<1>10. QED
    BY <1>4, <1>9

LEMMA MergeKeeps ==
    ASSUME IInv, MergeLeft \/ MergeRight
    PROVE  IInv'
<1>1. PICK n, r, s : pc = "rebalance" /\ TakesIn(n, r, s)
    BY MergeLeftIs, MergeRightIs
<1>2. /\ n \in DOMAIN heap /\ n # root /\ HasRight(heap, n)
      /\ r = Right(heap, n) /\ Fit(n, r) /\ iter.node \in {n, r}
      /\ MergeNodes(n, s)
      /\ heap[n].leaf => \E j \in Nat :
            s = Slot(n, j) /\ j <= Count(heap, n) + 1 + Count(heap, r)
    BY <1>1 DEF TakesIn
<1>3. count' = count /\ erased' = erased
    BY <1>2 DEF MergeNodes
<1>4. QED
    BY <1>1, <1>2, <1>3, MergeNodesKeeps

\* Two siblings share their values out, and both have some.
LEMMA TakeKeeps ==
    ASSUME IInv, pc = "rebalance", pc' = "advance", root' = root,
           rightmost' = rightmost, size' = size, count' = count,
               erased' = erased,
           NEW n \in DOMAIN heap, n # root, HasRight(heap, n),
           NEW r, r = Right(heap, n), iter.node \in {n, r},
           NEW k \in 1..NodeValues,
           Count(heap, n) + Count(heap, r) - k \in 1..NodeValues,
           heap' = Share(heap, n, k),
           heap[n].leaf => \E m \in {n, r}, j \in Nat : res' = Slot(m, j)
              /\ j <= IF m = n THEN k ELSE Count(heap, n) + Count(heap, r) - k,
           ~heap[n].leaf => res' = res
    PROVE  IInv'
<1>1. PICK lv, S : Tree(heap, root, lv, S)
    BY OnTheWayUp
<1>2. /\ r \in DOMAIN heap /\ r # n
      /\ heap[r].leaf <=> heap[n].leaf
      /\ ~heap[root].leaf
      /\ Count(heap, n) \in 0..NodeValues /\ Count(heap, r) \in 0..NodeValues
    BY <1>1, SiblingsAre
<1>3. PICK u : u = Both(heap, n, r)
    OBVIOUS
<1>4. PICK g : g = heap'
    OBVIOUS
<1>5. k \in 0..NodeValues
          /\ Count(heap, n) + Count(heap, r) - k \in 0..NodeValues
    BY NodeValuesAssumption
<1>6. Tree(g, root, lv, S) /\ Shared(heap, g, n, r, k, u)
    BY <1>1, <1>3, <1>4, <1>5, ShareIs
<1>7. /\ DOMAIN g = DOMAIN heap
      /\ \A m \in DOMAIN heap : g[m].leaf = heap[m].leaf
      /\ Count(g, n) = k
      /\ Count(g, r) = Count(heap, n) + Count(heap, r) - k
      /\ \A m \in DOMAIN heap \ {n, r} : Count(g, m) = Count(heap, m)
    BY <1>6 DEF Shared
<1>8. LeafPlaceOf(g, res')
    <2>1. CASE heap[n].leaf
        <3>1. PICK m \in {n, r}, j \in Nat : res' = Slot(m, j)
                /\ j <= IF m = n THEN k
                      ELSE Count(heap, n) + Count(heap, r) - k
            BY <2>1
        <3>2. m \in DOMAIN g /\ g[m].leaf /\ j <= Count(g, m)
            BY <1>2, <1>7, <2>1, <3>1
        <3>3. QED
            BY <3>1, <3>2 DEF LeafPlaceOf
    <2>2. CASE ~heap[n].leaf
        <3>1. \A m \in DOMAIN heap : heap[m].leaf =>
                 m \in DOMAIN g /\ g[m].leaf /\ Count(g, m) = Count(heap, m)
            BY <1>2, <1>7, <2>2
        <3>2. LeafPlaceOf(heap, res)
            BY OnTheWayUp
        <3>3. LeafPlaceOf(g, res)
            BY <3>1, <3>2, PlaceStays
        <3>4. QED
            BY <2>2, <3>3
    <2>3. QED
        BY <2>1, <2>2
<1>9. Ended(g, root, rightmost')
    <2>1. LeafOf(heap, rightmost)
        BY <1>2, OnTheWayUp
    <2>2. QED
        BY <1>7, <2>1 DEF Ended, LeafOf
<1>10. \A m \in DOMAIN g : Count(g, m) # 0
    <2>1. \A m \in DOMAIN heap : m # iter.node => Count(heap, m) # 0
        BY OnTheWayUp
    <2>2. Count(g, n) # 0 /\ Count(g, r) # 0
        BY <1>7
    <2>3. QED
        BY <1>7, <2>1, <2>2
<1>11. Weight(heap) <= Weight(g)
    <2>1. IsFiniteSet(Places(g))
        BY <1>6, PlacesFinite
    <2>2. PICK a \in Nat : a = Count(heap, n)
        BY <1>2
    <2>3. PICK b \in Nat : b = Count(heap, r)
        BY <1>2
    <2>4. k \in Nat /\ k <= a + b
        BY <2>2, <2>3
    <2>5. Count(g, n) = k /\ Count(g, r) = a + b - k
        BY <1>7, <2>2, <2>3
    <2>6. \A m \in DOMAIN heap \ {n, r} : Count(g, m) = Count(heap, m)
        BY <1>7
    <2>7. DOMAIN g = DOMAIN heap
        BY <1>7
    <2>8. QED
        BY <1>2, <2>1, <2>2, <2>3, <2>4, <2>5, <2>6, <2>7, WeightShared
<1>12. size' \in Int
    BY OnTheWayUp
<1>13. QED
    BY <1>4, <1>6, <1>8, <1>9, <1>10, <1>11, <1>12, AdvanceKeeps

\* How many values go from a sibling with b of them to a node with a.
LEMMA ToTakeIs ==
    ASSUME NEW n, NEW m, NEW a \in Nat, NEW b \in Nat, Count(heap, n) = a,
           Count(heap, m) = b, a < MinNodeValues, MinNodeValues < b
    PROVE  /\ ToTake(n, m) \in 1..(b - 1)
           /\ a + ToTake(n, m) <= b
<1>1. MinNodeValues \in Nat /\ MinNodeValues >= 1
    BY NodeValuesAssumption DEF MinNodeValues
<1>2. PICK h \in Int : h = (b - a) \div 2
    OBVIOUS
<1>3. h >= 1 /\ 2 * h <= b - a
    BY <1>1, <1>2
<1>4. b - 1 \in Int
    OBVIOUS
<1>5. ToTake(n, m) = IF h <= b - 1 THEN h ELSE b - 1
    BY <1>2, <1>4, MinOfTwo DEF ToTake
<1>6. QED
    BY <1>1, <1>3, <1>5

\* An iterator on a leaf is what the call returns.
LEMMA IterOnLeaf ==
    ASSUME IInv, pc = "rebalance",
           NEW n \in DOMAIN heap, n = iter.node, heap[n].leaf
    PROVE  iter = res /\ \E j \in Nat : iter = Slot(n, j)
        /\ j <= Count(heap, n)
<1>1. iter = res /\ LeafPlaceOf(heap, iter)
    BY OnTheWayUp
<1>2. PICK m \in DOMAIN heap, j \in Nat : iter = Slot(m, j)
          /\ j <= Count(heap, m)
    BY <1>1 DEF LeafPlaceOf
<1>3. m = n
    BY <1>2, SlotIs
<1>4. QED
    BY <1>1, <1>2, <1>3

\* The place to return, on n or its right sibling r, is the same among the
\* places of both when n has k values.
SamePlace(n, r, k) ==
    \E f, m \in {n, r}, i, j \in Nat :
       /\ res = Slot(f, i) /\ res' = Slot(m, j)
       /\ j <= IF m = n THEN k ELSE Count(heap, n) + Count(heap, r) - k
       /\ Across(n, k, m, j) = Across(n, Count(heap, n), f, i)

\* n and its right sibling share their values out.
SharesOut(n, r, k) ==
    /\ n \in DOMAIN heap /\ n # root /\ HasRight(heap, n)
    /\ r = Right(heap, n) /\ iter.node \in {n, r}
    /\ k \in 1..NodeValues
    /\ Count(heap, n) + Count(heap, r) - k \in 1..NodeValues
    /\ heap' = Share(heap, n, k)
    /\ heap[n].leaf => SamePlace(n, r, k)
    /\ ~heap[n].leaf => res' = res

\* The way up ends.
WayEnds ==
    /\ pc = "rebalance" /\ pc' = "advance" /\ root' = root
    /\ rightmost' = rightmost /\ size' = size /\ call' = call
    /\ source' = source /\ count' = count /\ erased' = erased
    /\ internal_delete' = internal_delete

\* The right sibling gives values.
LEMMA TakeFromRightIs ==
    ASSUME IInv, TakeFromRight
    PROVE  WayEnds /\ \E n, r, k : SharesOut(n, r, k)
<1>1. PICK n \in DOMAIN heap : n = iter.node
    BY OnTheWayUp DEF TakeFromRight, Underfull
<1>2. PICK r : r = Right(heap, n)
    OBVIOUS
<1>3. PICK m : m = ToTake(n, r)
    OBVIOUS
<1>4. /\ pc = "rebalance" /\ pc' = "advance" /\ root' = root
      /\ rightmost' = rightmost /\ size' = size /\ count' = count
            /\ erased' = erased
      /\ n # root /\ HasRight(heap, n) /\ Count(heap, n) < MinNodeValues
      /\ Count(heap, r) > MinNodeValues
      /\ heap' = RebalanceRightToLeft(heap, n, m)
      /\ res' = IF heap[n].leaf THEN iter ELSE res
    BY <1>1, <1>2, <1>3 DEF TakeFromRight, Underfull, CanTakeRight, EndsAt
<1>5. PICK lv, S : Tree(heap, root, lv, S)
    BY <1>4, OnTheWayUp
<1>6. r # n /\ Count(heap, n) \in 0..NodeValues
          /\ Count(heap, r) \in 0..NodeValues
    BY <1>2, <1>4, <1>5, SiblingsAre
<1>7. PICK a \in Nat : a = Count(heap, n)
    BY <1>6
<1>8. PICK b \in Nat : b = Count(heap, r)
    BY <1>6
<1>9. MinNodeValues \in Nat
    BY NodeValuesAssumption DEF MinNodeValues
<1>10. a < MinNodeValues /\ MinNodeValues < b
    BY <1>4, <1>7, <1>8, <1>9
<1>11. m \in 1..(b - 1) /\ a + m <= b
    BY <1>3, <1>7, <1>8, <1>10, ToTakeIs
<1>12. b <= NodeValues
    BY <1>6, <1>8
<1>13. PICK k \in 1..NodeValues : k = a + m
    BY <1>11, <1>12, NodeValuesAssumption
<1>14. (a + b) - k \in 1..NodeValues
    BY <1>11, <1>12, <1>13, NodeValuesAssumption
<1>15. Count(heap, n) + Count(heap, r) - k \in 1..NodeValues
    BY <1>7, <1>8, <1>14
<1>16. heap' = Share(heap, n, k)
    BY <1>4, <1>7, <1>13 DEF RebalanceRightToLeft
<1>17. heap[n].leaf => SamePlace(n, r, k)
    <2>1. SUFFICES ASSUME heap[n].leaf
                   PROVE  SamePlace(n, r, k)
        OBVIOUS
    <2>2. PICK j \in Nat : iter = Slot(n, j) /\ iter = res
                           /\ j <= Count(heap, n)
        BY <1>1, <1>4, <2>1, IterOnLeaf
    <2>3. j <= k
        BY <1>7, <1>11, <1>13, <2>2
    <2>4. Across(n, k, n, j) = Across(n, Count(heap, n), n, j)
        BY AcrossIs
    <2>5. res = Slot(n, j) /\ res' = Slot(n, j)
        BY <1>4, <2>1, <2>2
    <2>6. j <= IF n = n THEN k ELSE Count(heap, n) + Count(heap, r) - k
        BY <2>3
    <2>7. QED
        BY <2>4, <2>5, <2>6 DEF SamePlace
<1>18. ~heap[n].leaf => res' = res
    BY <1>4
<1>19. iter.node \in {n, r}
    BY <1>1
<1>20. SharesOut(n, r, k)
    BY <1>2, <1>4, <1>15, <1>16, <1>17, <1>18, <1>19 DEF SharesOut
<1>21. WayEnds
    BY <1>4 DEF TakeFromRight, EndsAt, WayEnds
<1>22. QED
    BY <1>20, <1>21

\* The left sibling gives values.
LEMMA TakeFromLeftIs ==
    ASSUME IInv, TakeFromLeft
    PROVE  WayEnds /\ \E n, r, k : SharesOut(n, r, k)
<1>1. PICK r \in DOMAIN heap : r = iter.node
    BY OnTheWayUp DEF TakeFromLeft, Underfull
<1>2. PICK n : n = Left(heap, r)
    OBVIOUS
<1>3. PICK m : m = ToTake(r, n)
    OBVIOUS
<1>4. PICK s : s = Slot(r, iter.position + m)
    OBVIOUS
<1>5. s.node = r
    BY <1>4, SlotIs
<1>6. /\ pc = "rebalance" /\ pc' = "advance" /\ root' = root
      /\ rightmost' = rightmost /\ size' = size /\ count' = count
            /\ erased' = erased
      /\ r # root /\ HasLeft(heap, r) /\ Count(heap, r) < MinNodeValues
      /\ Count(heap, n) > MinNodeValues
      /\ heap' = RebalanceLeftToRight(heap, n, m)
      /\ res' = IF heap[s.node].leaf THEN s ELSE res
    BY <1>1, <1>2, <1>3, <1>4 DEF TakeFromLeft, Underfull, CanTakeLeft, EndsAt
<1>7. PICK lv, S : Tree(heap, root, lv, S)
    BY <1>6, OnTheWayUp
<1>8. n \in DOMAIN heap /\ n # root /\ HasRight(heap, n) /\ r = Right(heap, n)
    BY <1>2, <1>6, <1>7, LeftIs
<1>9. r # n /\ (heap[r].leaf <=> heap[n].leaf)
      /\ Count(heap, n) \in 0..NodeValues /\ Count(heap, r) \in 0..NodeValues
    BY <1>7, <1>8, SiblingsAre
<1>10. PICK a \in Nat : a = Count(heap, r)
    BY <1>9
<1>11. PICK b \in Nat : b = Count(heap, n)
    BY <1>9
<1>12. MinNodeValues \in Nat
    BY NodeValuesAssumption DEF MinNodeValues
<1>13. a < MinNodeValues /\ MinNodeValues < b
    BY <1>6, <1>10, <1>11, <1>12
<1>14. m \in 1..(b - 1) /\ a + m <= b
    BY <1>3, <1>10, <1>11, <1>13, ToTakeIs
<1>15. b <= NodeValues
    BY <1>9, <1>11
<1>16. PICK k \in 1..NodeValues : k = b - m
    BY <1>14, <1>15, NodeValuesAssumption
<1>17. (b + a) - k = a + m /\ (b + a) - k \in 1..NodeValues
    BY <1>14, <1>15, <1>16, NodeValuesAssumption
<1>18. Count(heap, n) + Count(heap, r) - k = a + m
       /\ Count(heap, n) + Count(heap, r) - k \in 1..NodeValues
    BY <1>10, <1>11, <1>17
<1>19. heap' = Share(heap, n, k)
    BY <1>6, <1>11, <1>16 DEF RebalanceLeftToRight
<1>20. heap[n].leaf => SamePlace(n, r, k)
    <2>1. SUFFICES ASSUME heap[n].leaf
                   PROVE  SamePlace(n, r, k)
        OBVIOUS
    <2>2. heap[r].leaf
        BY <1>9, <2>1
    <2>3. PICK i \in Nat : iter = Slot(r, i) /\ iter = res
                           /\ i <= Count(heap, r)
        BY <1>1, <1>6, <2>2, IterOnLeaf
    <2>4. iter.position = i
        BY <2>3, SlotIs
    <2>5. PICK j \in Nat : j = i + m /\ j <= a + m
        BY <1>10, <1>14, <2>3
    <2>6. res' = Slot(r, j) /\ res = Slot(r, i)
        BY <1>4, <1>5, <1>6, <2>2, <2>3, <2>4, <2>5
    <2>7. j <= IF r = n THEN k ELSE Count(heap, n) + Count(heap, r) - k
        BY <1>9, <1>18, <2>5
    <2>8. Across(n, k, r, j) = Across(n, Count(heap, n), r, i)
        <3>1. Across(n, k, r, j) = k + (j + 2)
            BY <1>9, AcrossIs
        <3>2. Across(n, b, r, i) = b + (i + 2)
            BY <1>9, AcrossIs
        <3>3. k + (j + 2) = b + (i + 2)
            BY <1>14, <1>16, <2>5
        <3>4. QED
            BY <1>11, <3>1, <3>2, <3>3
    <2>9. QED
        BY <2>6, <2>7, <2>8 DEF SamePlace
<1>21. ~heap[n].leaf => res' = res
    BY <1>5, <1>6, <1>9
<1>22. iter.node \in {n, r}
    BY <1>1
<1>23. SharesOut(n, r, k)
    BY <1>8, <1>18, <1>19, <1>20, <1>21, <1>22 DEF SharesOut
<1>24. WayEnds
    BY <1>6 DEF TakeFromLeft, EndsAt, WayEnds
<1>25. QED
    BY <1>23, <1>24

LEMMA TakeFromSiblingKeeps ==
    ASSUME IInv, TakeFromLeft \/ TakeFromRight
    PROVE  IInv'
<1>1. PICK n, r, k : WayEnds /\ SharesOut(n, r, k)
    BY TakeFromLeftIs, TakeFromRightIs
<1>2. /\ n \in DOMAIN heap /\ n # root /\ HasRight(heap, n)
      /\ r = Right(heap, n) /\ iter.node \in {n, r}
      /\ k \in 1..NodeValues
      /\ Count(heap, n) + Count(heap, r) - k \in 1..NodeValues
      /\ heap' = Share(heap, n, k)
      /\ ~heap[n].leaf => res' = res
    BY <1>1 DEF SharesOut
<1>3. heap[n].leaf => \E m \in {n, r}, j \in Nat : res' = Slot(m, j)
         /\ j <= IF m = n THEN k ELSE Count(heap, n) + Count(heap, r) - k
    BY <1>1 DEF SharesOut, SamePlace
<1>4. /\ pc = "rebalance" /\ pc' = "advance" /\ root' = root
      /\ rightmost' = rightmost /\ size' = size /\ count' = count
      /\ erased' = erased
    BY <1>1 DEF WayEnds
<1>5. QED
    BY <1>2, <1>3, <1>4, TakeKeeps

(***************************************************************************)
(* Making room: the recursion up the full ancestors                        *)
(***************************************************************************)

\* The frame of the invocation that runs.
LEMMA FrameOf ==
    ASSUME NEW h, NEW frames, NEW lv, Chain(h, frames, lv)
    PROVE  /\ Len(frames) \in Nat /\ Len(frames) >= 1
                 /\ Head(frames) = frames[1]
           /\ frames \in Seq(Frames)
           /\ \A i \in 1..Len(frames) :
                 FrameIs(h, frames[i], lv, Len(frames) - i)
           /\ \A i \in 1..(Len(frames) - 1) :
                 Child(h, frames[i].node, frames[i].position)
                     = frames[i + 1].node
           /\ \E n \in DOMAIN h, i \in 0..NodeValues :
                 /\ Head(frames) = Slot(n, i) /\ n = Head(frames).node
                 /\ i = Head(frames).position
                 /\ IsFull(h, n) /\ h[n].max_count = NodeValues
                 /\ lv[n] = Len(frames) - 1
<1>1. frames \in Seq(Frames) /\ Len(frames) \in Nat /\ Len(frames) >= 1
    BY DEF Chain
<1>2. frames[1] \in Frames /\ Head(frames) = frames[1]
    BY <1>1
<1>3. \A i \in 1..Len(frames) : FrameIs(h, frames[i], lv, Len(frames) - i)
    BY DEF Chain
<1>4. FrameIs(h, frames[1], lv, Len(frames) - 1)
    BY <1>1, <1>3
<1>5. PICK n \in DOMAIN h, i \in 0..NodeValues :
         n = frames[1].node /\ i = frames[1].position
    BY <1>4 DEF FrameIs
<1>6. frames[1] = Slot(n, i)
    BY <1>2, <1>5, FramesAre
<1>7. IsFull(h, n) /\ h[n].max_count = NodeValues /\ lv[n] = Len(frames) - 1
    BY <1>4, <1>5 DEF FrameIs
<1>8. \A i2 \in 1..(Len(frames) - 1) :
         Child(h, frames[i2].node, frames[i2].position) = frames[i2 + 1].node
    BY DEF Chain
<1>9. QED
    BY <1>1, <1>2, <1>3, <1>5, <1>6, <1>7, <1>8

\* While room is made there is a root and a chain of full nodes.
LEMMA MakingRoom ==
    ASSUME IInv, pc \in {"make_room", "split"}
    PROVE  /\ root # NoNode /\ Valued(call, source)
           /\ \E lv, S : Tree(heap, root, lv, S) /\ Chain(heap, stack, lv)
           /\ size \in Int /\ count \in Int /\ erased \in Nat
<1>1. root # NoNode /\ Valued(call, source)
    BY DEF IInv, Called, Inserting
<1>2. \E lv, S : Tree(heap, root, lv, S) /\ Chain(heap, stack, lv)
    BY <1>1 DEF IInv, Standing
<1>3. size \in Int /\ count \in Int /\ erased \in Nat
    BY DEF IInv, Enough
<1>4. QED
    BY <1>1, <1>2, <1>3

\* A frame for a full parent makes the chain longer.
LEMMA PushedIs ==
    ASSUME NEW h, NEW top, NEW lv, NEW S, Tree(h, top, lv, S),
           NEW frames, Chain(h, frames, lv),
           NEW n, n = Head(frames).node, n # top,
           NEW p, p = h[n].parent, IsFull(h, p),
           NEW more, more = <<Slot(p, h[n].position)>> \o frames
    PROVE  Chain(h, more, lv)
<1>1. PICK L \in Nat : L = Len(frames) /\ L >= 1
    BY FrameOf
<1>2. n \in DOMAIN h /\ lv[n] = L - 1 /\ n = frames[1].node
    BY <1>1, FrameOf
<1>3. /\ p \in DOMAIN h /\ ~h[p].leaf /\ h[n].position \in 0..Count(h, p)
      /\ Child(h, p, h[n].position) = n /\ lv[p] = lv[n] + 1
    BY <1>2, ParentIs
<1>4. h[p].max_count = NodeValues
    BY <1>3 DEF Tree, Sized
<1>5. PICK i \in 0..NodeValues : i = h[n].position
    BY <1>3, <1>4 DEF IsFull
<1>6. p \in Nat /\ i \in Nat
    BY <1>3, <1>5, NodeIs DEF Tree
<1>7. Slot(p, i) \in Frames /\ Slot(p, i).node = p /\ Slot(p, i).position = i
    BY <1>6, FramesAre, SlotIs
<1>8. PICK one : one = <<Slot(p, i)>>
    OBVIOUS
<1>9. one \in Seq(Frames) /\ Len(one) = 1 /\ one[1] = Slot(p, i)
    BY <1>7, <1>8
<1>10. frames \in Seq(Frames)
    BY FrameOf
<1>11. more = one \o frames
    BY <1>5, <1>8
<1>12. /\ more \in Seq(Frames) /\ Len(more) = L + 1 /\ more[1] = Slot(p, i)
       /\ \A j \in 2..(L + 1) : more[j] = frames[j - 1]
    <2>1. /\ more \in Seq(Frames) /\ Len(more) = Len(one) + Len(frames)
          /\ \A j \in 1..Len(one) : more[j] = one[j]
          /\ \A j \in (Len(one) + 1)..(Len(one) + Len(frames)) :
                more[j] = frames[j - Len(one)]
        BY <1>10, <1>11, <1>9, ConcatIs
    <2>2. QED
        BY <1>1, <1>9, <2>1
<1>13. ASSUME NEW j \in 1..Len(more)
       PROVE  FrameIs(h, more[j], lv, Len(more) - j)
    <2>1. CASE j = 1
        <3>1. FrameIs(h, Slot(p, i), lv, L)
            BY <1>1, <1>2, <1>3, <1>4, <1>7 DEF FrameIs
        <3>2. more[j] = Slot(p, i) /\ Len(more) - j = L
            BY <1>12, <2>1
        <3>3. QED
            BY <3>1, <3>2
    <2>2. CASE j # 1
        <3>1. PICK k \in 1..L : k = j - 1 /\ more[j] = frames[k]
            BY <1>12, <2>2
        <3>2. FrameIs(h, frames[k], lv, L - k)
            BY <1>1, <3>1, FrameOf
        <3>3. L - k = Len(more) - j
            BY <1>12, <3>1
        <3>4. QED
            BY <3>1, <3>2, <3>3
    <2>3. QED
        BY <2>1, <2>2
<1>14. ASSUME NEW j \in 1..(Len(more) - 1)
       PROVE  Child(h, more[j].node, more[j].position) = more[j + 1].node
    <2>1. CASE j = 1
        <3>1. more[j + 1] = frames[1]
            BY <1>1, <1>12, <2>1
        <3>2. more[j] = Slot(p, i)
            BY <1>12, <2>1
        <3>3. QED
            BY <1>2, <1>3, <1>5, <1>7, <3>1, <3>2
    <2>2. CASE j # 1
        <3>1. PICK k \in 1..(L - 1) :
                 k = j - 1 /\ more[j] = frames[k]
                     /\ more[j + 1] = frames[k + 1]
            BY <1>12, <2>2
        <3>2. Child(h, frames[k].node, frames[k].position) = frames[k + 1].node
            BY <1>1, <3>1, FrameOf
        <3>3. QED
            BY <3>1, <3>2
    <2>3. QED
        BY <2>1, <2>2
<1>15. Len(more) >= 1
    BY <1>1, <1>12
<1>16. QED
    BY <1>12, <1>13, <1>14, <1>15 DEF Chain

\* There is room in the parent of the frame.
LEMMA SplitNextKeeps ==
    ASSUME IInv, pc = "make_room", pc' = "split",
           NEW lv, NEW S, Tree(heap', root', lv, S), Chain(heap', stack', lv),
           Ended(heap', root', rightmost'), size' \in Int,
           call' = call, source' = source, count' = count, erased' = erased,
           NEW n, n = Head(stack').node, n # root',
           ~IsFull(heap', heap'[n].parent),
           \A m \in DOMAIN heap' : Count(heap', m) # 0 \/ m = heap'[n].parent
    PROVE  IInv'
<1>1. PICK r : r = root'
    OBVIOUS
<1>2. r # NoNode
    BY <1>1, NodeIs DEF Tree
<1>3. Standing(heap', root', pc', stack')
    BY <1>1, <1>2 DEF Standing
<1>4. Nonempty(heap', root', pc', stack', iter')
    BY DEF Nonempty, Exempt
<1>5. Called(root', pc', call', source')
    BY <1>1, <1>2, MakingRoom DEF Called, Inserting, Erasing
<1>6. At(heap', root', pc', stack', iter', res')
    BY DEF At
<1>7. Enough(heap', pc', count', erased')
    BY MakingRoom DEF Enough, Erasing
<1>8. QED
    BY <1>3, <1>4, <1>5, <1>6, <1>7 DEF IInv

\* Room is made in the parent first.
LEMMA AskParentKeeps ==
    ASSUME IInv, AskParent
    PROVE  IInv'
<1>1. PICK n : n = Head(stack).node
    OBVIOUS
<1>2. PICK p : p = heap[n].parent
    OBVIOUS
<1>3. /\ pc = "make_room" /\ n # root /\ heap' = heap /\ root' = root
      /\ rightmost' = rightmost /\ size' = size /\ count' = count
            /\ erased' = erased
      /\ call' = call /\ source' = source
      /\ IF IsFull(heap, p)
         THEN stack' = <<Slot(p, heap[n].position)>> \o stack /\ pc' = pc
         ELSE pc' = "split" /\ stack' = stack
    BY <1>1, <1>2 DEF AskParent, Frame, tree
<1>4. PICK lv, S : Tree(heap, root, lv, S) /\ Chain(heap, stack, lv)
    BY <1>3, MakingRoom
<1>5. \A m \in DOMAIN heap : Count(heap, m) # 0
    BY <1>3 DEF IInv, Nonempty, Exempt
<1>6. Ended(heap', root', rightmost')
    BY <1>3 DEF IInv
<1>7. CASE IsFull(heap, p)
    <2>1. pc' = "make_room" /\ stack' = <<Slot(p, heap[n].position)>> \o stack
        BY <1>3, <1>7
    <2>2. PICK more : more = stack'
        OBVIOUS
    <2>3. Chain(heap, more, lv)
        BY <1>1, <1>2, <1>3, <1>4, <1>7, <2>1, <2>2, PushedIs
    <2>4. Standing(heap', root', pc', stack')
        BY <1>3, <1>4, <2>2, <2>3, MakingRoom DEF Standing
    <2>5. Nonempty(heap', root', pc', stack', iter')
        BY <1>3, <1>5 DEF Nonempty
    <2>6. Called(root', pc', call', source')
        BY <1>3, <2>1, MakingRoom DEF Called, Inserting, Erasing
    <2>7. At(heap', root', pc', stack', iter', res')
        BY <2>1 DEF At
    <2>8. Enough(heap', pc', count', erased')
        BY <1>3, <2>1, MakingRoom DEF Enough, Erasing
    <2>9. size' \in Int
        BY <1>3, MakingRoom
    <2>10. QED
        BY <1>6, <2>4, <2>5, <2>6, <2>7, <2>8, <2>9 DEF IInv
<1>8. CASE ~IsFull(heap, p)
    <2>1. pc' = "split" /\ stack' = stack
        BY <1>3, <1>8
    <2>2. Tree(heap', root', lv, S) /\ Chain(heap', stack', lv)
              /\ size' \in Int
        BY <1>3, <1>4, <2>1, MakingRoom
    <2>3. n = Head(stack').node /\ n # root' /\ ~IsFull(heap', heap'[n].parent)
        BY <1>1, <1>2, <1>3, <1>8, <2>1
    <2>4. \A m \in DOMAIN heap' : Count(heap', m) # 0 \/ m = heap'[n].parent
        BY <1>3, <1>5
    <2>5. QED
        BY <1>3, <1>6, <2>1, <2>2, <2>3, <2>4, SplitNextKeeps
<1>9. QED
    BY <1>7, <1>8

\* Nothing changes on the levels below that of n.
LowerKept(h, g, lv, lw, n) ==
    \A x \in DOMAIN h : lv[x] < lv[n] =>
        /\ x \in DOMAIN g /\ Count(g, x) = Count(h, x)
        /\ g[x].max_count = h[x].max_count /\ g[x].children = h[x].children
        /\ lw[x] = lv[x]

\* The frames of the invocations that wait are as they should be.
Waiting(h, frames, lv) ==
    /\ \A i \in 2..Len(frames) : FrameIs(h, frames[i], lv, Len(frames) - i)
    /\ \A i \in 2..(Len(frames) - 1) :
          Child(h, frames[i].node, frames[i].position) = frames[i + 1].node

\* Then the frames that wait stay as they should be.
LEMMA RestKept ==
    ASSUME NEW h, NEW frames, NEW lv, Chain(h, frames, lv), NEW g, NEW lw,
           NEW n, n = Head(frames).node, LowerKept(h, g, lv, lw, n)
    PROVE  Waiting(g, frames, lw)
<1>1. PICK L \in Nat : L = Len(frames)
    BY FrameOf
<1>2. lv[n] = L - 1
    BY <1>1, FrameOf
<1>3. \A i \in 1..L : FrameIs(h, frames[i], lv, L - i)
    BY <1>1, FrameOf
<1>4. \A i \in 1..(L - 1) :
         Child(h, frames[i].node, frames[i].position) = frames[i + 1].node
    BY <1>1, FrameOf
<1>5. ASSUME NEW i \in 2..L
      PROVE  FrameIs(g, frames[i], lw, L - i)
             /\ g[frames[i].node].children = h[frames[i].node].children
    <2>1. FrameIs(h, frames[i], lv, L - i)
        BY <1>3
    <2>2. PICK x \in DOMAIN h : x = frames[i].node /\ lv[x] = L - i
        BY <2>1 DEF FrameIs
    <2>3. lv[x] < lv[n]
        BY <1>2, <2>2
    <2>4. /\ x \in DOMAIN g /\ Count(g, x) = Count(h, x)
          /\ g[x].max_count = h[x].max_count /\ g[x].children = h[x].children
          /\ lw[x] = lv[x]
        BY <2>2, <2>3 DEF LowerKept
    <2>5. IsFull(g, x) /\ g[x].max_count = NodeValues
        BY <2>1, <2>2, <2>4 DEF FrameIs, IsFull
    <2>6. frames[i].position \in 0..NodeValues
        BY <2>1 DEF FrameIs
    <2>7. FrameIs(g, frames[i], lw, L - i)
        BY <2>2, <2>4, <2>5, <2>6 DEF FrameIs
    <2>8. QED
        BY <2>2, <2>4, <2>7
<1>6. ASSUME NEW i \in 2..(L - 1)
      PROVE  Child(g, frames[i].node, frames[i].position) = frames[i + 1].node
    <2>1. i \in 2..L /\ i \in 1..(L - 1)
        OBVIOUS
    <2>2. g[frames[i].node].children = h[frames[i].node].children
        BY <1>5, <2>1
    <2>3. Child(g, frames[i].node, frames[i].position)
             = Child(h, frames[i].node, frames[i].position)
        BY <2>2 DEF Child
    <2>4. QED
        BY <1>4, <2>1, <2>3
<1>7. QED
    BY <1>5, <1>6, <1>1 DEF Waiting

\* A leaf that is the root gets a parent.
LEMMA NewRootAboveLeafKeeps ==
    ASSUME IInv, NewRootAboveLeaf
    PROVE  IInv'
<1>1. PICK new : new = Fresh(heap)
    OBVIOUS
<1>2. PICK n : n = Head(stack).node
    OBVIOUS
<1>3. /\ pc = "make_room" /\ pc' = "split" /\ n = root /\ heap[root].leaf
      /\ heap' = RootAbove(heap, root, new) /\ root' = new
      /\ rightmost' = heap[root].parent
            /\ size' = Count(heap, heap[root].parent)
      /\ call' = call /\ stack' = stack /\ count' = count /\ erased' = erased
      /\ source' = source
    BY <1>1, <1>2 DEF NewRootAboveLeaf, Frame, RootIsLeaf, RootAbove,
       GrownAbove
<1>4. PICK lv, S : Tree(heap, root, lv, S) /\ Chain(heap, stack, lv)
    BY <1>3, MakingRoom
<1>5. PICK i \in 0..NodeValues :
         /\ stack[1] = Slot(n, i) /\ n \in DOMAIN heap
         /\ IsFull(heap, n) /\ heap[n].max_count = NodeValues
         /\ lv[n] = Len(stack) - 1
    BY <1>2, <1>4, FrameOf
<1>6. lv[root] = 0 /\ Len(stack) = 1
    <2>1. lv[root] = 0
        BY <1>3, <1>4, <1>5 DEF Tree, Sized
    <2>2. PICK L \in Nat : L = Len(stack)
        BY <1>4, FrameOf
    <2>3. lv[root] = L - 1
        BY <1>3, <1>5, <2>2
    <2>4. L = 1
        BY <2>1, <2>3
    <2>5. QED
        BY <2>1, <2>2, <2>4
<1>7. new \in Nat /\ new \notin DOMAIN heap
    BY <1>1, <1>4, FreshIsNew DEF Tree
<1>8. PICK lw : lw = [m \in {root, new} |-> IF m = root THEN 0 ELSE 1]
    OBVIOUS
<1>9. lw[root] = 0 /\ lw[new] = 1
    BY <1>3, <1>5, <1>7, <1>8
<1>10. Tree(heap', new, lw, {root, new}) /\ Raised(heap, heap', root, new)
    BY <1>1, <1>3, <1>4, <1>5, <1>9, NewAboveIs
<1>11. /\ DOMAIN heap' = {root, new} /\ new # root
       /\ heap'[root].leaf /\ heap'[root].parent = new
       /\ heap'[root].max_count = NodeValues
             /\ heap'[new].max_count = NodeValues
       /\ Count(heap', new) = 0 /\ Count(heap', root) = Count(heap, root)
    BY <1>3, <1>5, <1>10 DEF Raised
<1>12. Count(heap, root) = NodeValues
    BY <1>3, <1>5 DEF IsFull
<1>13. PICK g : g = heap'
    OBVIOUS
<1>14. Chain(heap', stack', lw)
    <2>1. stack \in Seq(Frames) /\ Len(stack) >= 1
        BY <1>4, FrameOf
    <2>2. FrameIs(g, Slot(n, i), lw, 0)
        BY <1>3, <1>9, <1>11, <1>12, <1>13, SlotIs DEF FrameIs, IsFull
    <2>3. \A j \in 1..Len(stack) : FrameIs(g, stack[j], lw, Len(stack) - j)
        BY <1>5, <1>6, <2>2
    <2>4. \A j \in 1..(Len(stack) - 1) :
             Child(g, stack[j].node, stack[j].position) = stack[j + 1].node
        BY <1>6
    <2>5. Chain(g, stack, lw)
        BY <2>1, <2>3, <2>4 DEF Chain
    <2>6. QED
        BY <1>3, <1>13, <2>5
<1>15. Ended(heap', root', rightmost')
    <2>1. rightmost' = root
        BY <1>3, <1>4, LoneLeaf
    <2>2. QED
        BY <1>11, <2>1 DEF Ended, LeafOf
<1>16. size' \in Int
    <2>1. heap[root].parent \in DOMAIN heap
        BY <1>4 DEF Tree
    <2>2. QED
        BY <1>3, <1>4, <2>1, CountIs DEF Tree
<1>17. n = Head(stack').node /\ n # root'
    BY <1>2, <1>3, <1>11
<1>18. ~IsFull(heap', heap'[n].parent)
    BY <1>3, <1>11, NodeValuesAssumption DEF IsFull
<1>19. \A m \in DOMAIN heap' : Count(heap', m) # 0 \/ m = heap'[n].parent
    BY <1>3, <1>11, <1>12, NodeValuesAssumption
<1>20. Tree(heap', root', lw, {root, new})
    BY <1>3, <1>10
<1>21. QED
    BY <1>3, <1>14, <1>15, <1>16, <1>17, <1>18, <1>19, <1>20, SplitNextKeeps

\* The frame of the invocation that runs, about another node.
HeadMoved(frames, new) == [frames EXCEPT ![1].node = new]

\* What that changes.
LEMMA FirstReplaced ==
    ASSUME NEW frames \in Seq(Frames), Len(frames) >= 1, NEW n, NEW i \in Nat,
           frames[1] = Slot(n, i), NEW new \in Nat,
           NEW more, more = HeadMoved(frames, new)
    PROVE  /\ more \in Seq(Frames) /\ Len(more) = Len(frames)
           /\ more[1] = Slot(new, i)
           /\ \A j \in 2..Len(frames) : more[j] = frames[j]
<1>1. PICK s : s = [frames[1] EXCEPT !.node = new]
    OBVIOUS
<1>2. s = Slot(new, i)
    BY <1>1 DEF Slot
<1>3. more = [frames EXCEPT ![1] = s]
    BY <1>1 DEF HeadMoved
<1>4. s \in Frames
    BY <1>2, FramesAre
<1>5. 1 \in 1..Len(frames)
    OBVIOUS
<1>6. /\ more \in Seq(Frames) /\ Len(more) = Len(frames)
      /\ more[1] = s
      /\ \A j \in 2..Len(frames) : more[j] = frames[j]
    BY <1>3, <1>4, <1>5
<1>7. QED
    BY <1>2, <1>6

\* An internal root moves its contents to a new node below it.
LEMMA NewNodeBelowRootKeeps ==
    ASSUME IInv, NewNodeBelowRoot
    PROVE  IInv'
<1>1. PICK new : new = Fresh(heap)
    OBVIOUS
<1>2. PICK n : n = Head(stack).node
    OBVIOUS
<1>3. /\ pc = "make_room" /\ pc' = "split" /\ n = root /\ ~heap[root].leaf
      /\ heap' = RootBelow(heap, root, new) /\ root' = root
      /\ rightmost' = rightmost /\ size' = size
      /\ stack' = [stack EXCEPT ![1].node = new]
      /\ call' = call /\ count' = count /\ erased' = erased /\ source' = source
    BY <1>1, <1>2 DEF NewNodeBelowRoot, Frame, RootIsLeaf, RootBelow,
       GrownAbove
<1>4. PICK lv, S : Tree(heap, root, lv, S) /\ Chain(heap, stack, lv)
    BY <1>3, MakingRoom
<1>5. PICK L \in Nat : L = Len(stack) /\ L >= 1
    BY <1>4, FrameOf
<1>6. PICK i \in 0..NodeValues :
         /\ stack[1] = Slot(n, i) /\ n \in DOMAIN heap
         /\ IsFull(heap, n) /\ heap[n].max_count = NodeValues
         /\ lv[n] = L - 1
    BY <1>2, <1>4, <1>5, FrameOf
<1>7. new \in Nat /\ new \notin DOMAIN heap
    BY <1>1, <1>4, FreshIsNew DEF Tree
<1>8. PICK lw : lw = [m \in DOMAIN heap \cup {new} |->
                         IF m = new THEN lv[root]
                         ELSE IF m = root THEN lv[root] + 1 ELSE lv[m]]
    OBVIOUS
<1>9. /\ lw[root] = lv[root] + 1 /\ lw[new] = lv[root]
      /\ \A m \in DOMAIN heap \ {root} : lw[m] = lv[m]
    BY <1>3, <1>6, <1>7, <1>8
<1>10. PICK T : T = S \cup {new}
    OBVIOUS
<1>11. PICK g : g = heap'
    OBVIOUS
<1>12. Tree(g, root, lw, T) /\ Lowered(heap, g, root, new)
    BY <1>1, <1>3, <1>4, <1>9, <1>10, <1>11, NewBelowIs
<1>13. /\ DOMAIN g = DOMAIN heap \cup {new}
       /\ \A m \in DOMAIN heap : g[m].leaf = heap[m].leaf
                                 /\ g[m].max_count = heap[m].max_count
       /\ g[new].max_count = NodeValues /\ g[new].parent = root
       /\ Count(g, root) = 0 /\ Count(g, new) = Count(heap, root)
       /\ g[new].children = heap[root].children
       /\ \A m \in DOMAIN heap \ {root} :
             Count(g, m) = Count(heap, m) /\ g[m].children = heap[m].children
    BY <1>12 DEF Lowered
<1>14. Count(heap, root) = NodeValues
    BY <1>3, <1>6 DEF IsFull
<1>15. LowerKept(heap, g, lv, lw, root)
    <2>1. ASSUME NEW x \in DOMAIN heap, lv[x] < lv[root]
          PROVE  x # root
        <3>1. lv[x] \in Nat
            BY <1>4 DEF Tree, Sized
        <3>2. QED
            BY <2>1, <3>1
    <2>2. QED
        BY <1>9, <1>13, <2>1 DEF LowerKept
<1>16. PICK more : more = stack'
    OBVIOUS
<1>17. /\ more \in Seq(Frames) /\ Len(more) = L
       /\ more[1] = Slot(new, i) /\ \A j \in 2..L : more[j] = stack[j]
    <2>1. stack \in Seq(Frames) /\ Len(stack) >= 1
        BY <1>4, FrameOf
    <2>2. more = HeadMoved(stack, new)
        BY <1>3, <1>16 DEF HeadMoved
    <2>3. i \in Nat
        BY NodeValuesAssumption
    <2>4. /\ more \in Seq(Frames) /\ Len(more) = Len(stack)
          /\ more[1] = Slot(new, i)
          /\ \A j \in 2..Len(stack) : more[j] = stack[j]
        <3>1. stack[1] = Slot(n, i)
            BY <1>6
        <3>2. new \in Nat
            BY <1>7
        <3>3. Len(stack) >= 1 /\ stack \in Seq(Frames)
            BY <2>1
        <3>4. QED
            BY <2>2, <2>3, <3>1, <3>2, <3>3, FirstReplaced
    <2>5. QED
        BY <1>5, <2>4
<1>18. /\ \A j \in 2..L : FrameIs(g, stack[j], lw, L - j)
       /\ \A j \in 2..(L - 1) :
             Child(g, stack[j].node, stack[j].position) = stack[j + 1].node
    <2>1. LowerKept(heap, g, lv, lw, n)
        BY <1>3, <1>15
    <2>2. Chain(heap, stack, lv) /\ L = Len(stack)
        BY <1>4, <1>5
    <2>3. Waiting(g, stack, lw)
        BY <1>2, <2>1, <2>2, RestKept
    <2>4. QED
        BY <2>2, <2>3 DEF Waiting
<1>19. Chain(g, more, lw)
    <2>1. FrameIs(g, Slot(new, i), lw, L - 1)
        <3>1. new \in DOMAIN g /\ IsFull(g, new)
                  /\ g[new].max_count = NodeValues
            BY <1>13, <1>14 DEF IsFull
        <3>2. lw[new] = L - 1
            BY <1>3, <1>6, <1>9
        <3>3. QED
            BY <3>1, <3>2, SlotIs DEF FrameIs
    <2>2. ASSUME NEW j \in 1..L
          PROVE  FrameIs(g, more[j], lw, L - j)
        <3>1. CASE j = 1
            BY <1>17, <2>1, <3>1
        <3>2. CASE j # 1
            <4>1. j \in 2..L
                BY <3>2
            <4>2. QED
                BY <1>17, <1>18, <4>1
        <3>3. QED
            BY <3>1, <3>2
    <2>3. ASSUME NEW j \in 1..(L - 1)
          PROVE  Child(g, more[j].node, more[j].position) = more[j + 1].node
        <3>1. j + 1 \in 2..L /\ more[j + 1] = stack[j + 1]
            BY <1>17
        <3>2. CASE j = 1
            <4>1. more[j].node = new /\ more[j].position = i
                BY <1>17, <3>2, SlotIs
            <4>2. Child(g, new, i) = Child(heap, n, i)
                BY <1>3, <1>13 DEF Child
            <4>3. stack[1].node = n /\ stack[1].position = i
                BY <1>6, SlotIs
            <4>4. Child(heap, stack[1].node, stack[1].position)
                      = stack[1 + 1].node
                BY <1>4, <1>5, <3>2, FrameOf
            <4>5. QED
                BY <3>1, <3>2, <4>1, <4>2, <4>3, <4>4
        <3>3. CASE j # 1
            <4>1. j \in 2..(L - 1) /\ j \in 2..L
                BY <3>3
            <4>2. QED
                BY <1>17, <1>18, <3>1, <4>1
        <3>4. QED
            BY <3>2, <3>3
    <2>4. Len(more) >= 1
        BY <1>5, <1>17
    <2>5. QED
        BY <1>17, <2>2, <2>3, <2>4 DEF Chain
<1>20. Ended(heap', root', rightmost')
    <2>1. LeafOf(heap, rightmost)
        BY <1>3, MakingRoom DEF IInv, Ended
    <2>2. LeafOf(g, rightmost)
        BY <1>13, <2>1 DEF LeafOf
    <2>3. QED
        BY <1>3, <1>11, <2>2 DEF Ended
<1>21. Head(more).node = new
    <2>1. Head(more) = Slot(new, i)
        BY <1>5, <1>17
    <2>2. QED
        BY <2>1, SlotIs
<1>22. new # root
    BY <1>3, <1>6, <1>7
<1>23. ~IsFull(g, g[new].parent)
    <2>1. g[root].max_count = NodeValues
        BY <1>3, <1>6, <1>13
    <2>2. QED
        BY <1>13, <2>1, NodeValuesAssumption DEF IsFull
<1>24. \A m \in DOMAIN g : Count(g, m) # 0 \/ m = g[new].parent
    <2>1. \A m \in DOMAIN heap : Count(heap, m) # 0
        BY <1>3 DEF IInv, Nonempty, Exempt
    <2>2. Count(g, new) # 0
        BY <1>13, <1>14, NodeValuesAssumption
    <2>3. QED
        BY <1>13, <2>1, <2>2
<1>25. /\ Tree(heap', root', lw, T) /\ Chain(heap', stack', lw)
       /\ new = Head(stack').node /\ new # root'
       /\ ~IsFull(heap', heap'[new].parent)
       /\ \A m \in DOMAIN heap' : Count(heap', m) # 0 \/ m = heap'[new].parent
    BY <1>3, <1>11, <1>12, <1>16, <1>19, <1>21, <1>22, <1>23, <1>24
<1>26. size' \in Int
    BY <1>3, MakingRoom
<1>27. QED
    BY <1>3, <1>20, <1>25, <1>26, SplitNextKeeps

\* The invocations that wait make a chain themselves.
LEMMA RestIs ==
    ASSUME NEW g, NEW frames \in Seq(Frames), NEW lw, Waiting(g, frames, lw),
           Len(frames) # 1, Len(frames) >= 1, NEW rest, rest = Tail(frames)
    PROVE  Chain(g, rest, lw) /\ Head(rest) = frames[2]
<1>1. PICK L \in Nat : L = Len(frames)
    OBVIOUS
<1>2. L = Len(frames) /\ L >= 2
    <2>1. L # 1 /\ L >= 1
        BY <1>1
    <2>2. QED
        BY <1>1, <2>1
<1>3. /\ rest \in Seq(Frames) /\ Len(rest) = L - 1
      /\ \A i \in 1..(L - 1) : rest[i] = frames[i + 1]
    BY <1>2
<1>4. ASSUME NEW i \in 1..Len(rest)
      PROVE  FrameIs(g, rest[i], lw, Len(rest) - i)
    <2>1. PICK j \in 2..L : j = i + 1 /\ rest[i] = frames[j]
              /\ Len(rest) - i = L - j
        BY <1>2, <1>3
    <2>2. FrameIs(g, frames[j], lw, L - j)
        BY <1>2, <2>1 DEF Waiting
    <2>3. QED
        BY <2>1, <2>2
<1>5. ASSUME NEW i \in 1..(Len(rest) - 1)
      PROVE  Child(g, rest[i].node, rest[i].position) = rest[i + 1].node
    <2>1. PICK j \in 2..(L - 1) :
             j = i + 1 /\ rest[i] = frames[j] /\ rest[i + 1] = frames[j + 1]
        BY <1>2, <1>3
    <2>2. Child(g, frames[j].node, frames[j].position) = frames[j + 1].node
        BY <1>2, <2>1 DEF Waiting
    <2>3. QED
        BY <2>1, <2>2
<1>6. Len(rest) >= 1 /\ Head(rest) = frames[2]
    BY <1>2, <1>3
<1>7. QED
    BY <1>3, <1>4, <1>5, <1>6 DEF Chain

\* In g there is room on the node m at place j, which is the place i of n in h.
Roomy(h, g, top, n, i, m, j) ==
    /\ m \in DOMAIN g /\ m # top /\ j \in Nat /\ j <= Count(g, m)
    /\ ~IsFull(g, m)
    /\ g[m].leaf = h[n].leaf
    /\ ~h[n].leaf => Child(g, m, j) = Child(h, n, i)

\* Room was made for the frame: the invocation returns.
LEMMA RoomAtKeeps ==
    ASSUME IInv, pc \in {"make_room", "split"},
           NEW lv, NEW S, Tree(heap, root, lv, S), Chain(heap, stack, lv),
           NEW g, g = heap', NEW lw, NEW T, Tree(g, root, lw, T), root' = root,
           Ended(g, root, rightmost'), size' = size, call' = call,
               source' = source,
           count' = count, erased' = erased,
           NEW n, n = Head(stack).node, NEW i, i = Head(stack).position,
           LowerKept(heap, g, lv, lw, n),
           NEW m, NEW j, Roomy(heap, g, root, n, i, m, j),
           \A x \in DOMAIN g : Count(g, x) # 0 \/ x = m,
           NEW s, s = Slot(m, j), RoomAt(s)
    PROVE  IInv'
<1>1. /\ m \in DOMAIN g /\ m # root /\ j \in Nat /\ j <= Count(g, m)
      /\ ~IsFull(g, m) /\ g[m].leaf = heap[n].leaf
      /\ ~heap[n].leaf => Child(g, m, j) = Child(heap, n, i)
    BY DEF Roomy
<1>2. /\ stack' = Tail(stack)
      /\ Len(stack) = 1 => iter' = s /\ pc' = "room"
      /\ Len(stack) # 1 => pc' = "split"
    BY DEF RoomAt
<1>3. PICK L \in Nat : L = Len(stack) /\ L >= 1
    BY FrameOf
<1>4. n \in DOMAIN heap /\ lv[n] = L - 1 /\ stack[1].node = n
          /\ stack[1].position = i
      /\ stack \in Seq(Frames)
    BY <1>3, FrameOf
<1>5. heap[n].leaf <=> L = 1
    <2>1. heap[n].leaf <=> lv[n] = 0
        BY <1>4 DEF Tree, Sized
    <2>2. QED
        BY <1>3, <1>4, <2>1
<1>6. s.node = m
    BY SlotIs
<1>7. root # NoNode /\ Valued(call, source) /\ size \in Int
      /\ count \in Int /\ erased \in Nat
    BY MakingRoom
<1>8. Enough(heap', pc', count', erased')
    BY <1>2, <1>7 DEF Enough, Erasing
<1>9. CASE L = 1
    <2>1. iter' = s /\ pc' = "room"
        BY <1>2, <1>3, <1>9
    <2>2. Standing(heap', root', pc', stack')
        BY <1>7, <2>1 DEF Standing
    <2>3. Nonempty(heap', root', pc', stack', iter')
        BY <1>6, <2>1 DEF Nonempty, Exempt
    <2>4. Called(root', pc', call', source')
        BY <1>7, <2>1 DEF Called, Inserting, Erasing
    <2>5. LeafPlaceOf(g, s)
        BY <1>1, <1>5, <1>9 DEF LeafPlaceOf
    <2>6. At(heap', root', pc', stack', iter', res')
        BY <1>1, <1>6, <2>1, <2>5 DEF At
    <2>7. QED
        BY <1>7, <1>8, <2>2, <2>3, <2>4, <2>6 DEF IInv
<1>10. CASE L # 1
    <2>1. pc' = "split" /\ stack' = Tail(stack)
        BY <1>2, <1>3, <1>10
    <2>2. PICK rest : rest = stack'
        OBVIOUS
    <2>3. Waiting(g, stack, lw)
        BY RestKept
    <2>4. Chain(g, rest, lw) /\ Head(rest) = stack[2]
        BY <1>3, <1>4, <1>10, <2>1, <2>2, <2>3, RestIs
    <2>5. PICK c : c = Head(rest).node
        OBVIOUS
    <2>6. Child(g, m, j) = c
        <3>1. Child(heap, stack[1].node, stack[1].position) = stack[1 + 1].node
            <4>1. 1 \in 1..(Len(stack) - 1)
                BY <1>3, <1>10
            <4>2. QED
                BY <4>1, FrameOf
        <3>2. Child(g, m, j) = Child(heap, n, i)
            BY <1>1, <1>5, <1>10
        <3>3. QED
            BY <1>4, <2>4, <2>5, <3>1, <3>2
    <2>7. c # root /\ g[c].parent = m
        <3>1. ~g[m].leaf
            BY <1>1, <1>5, <1>10
        <3>2. Count(g, m) \in Nat
            BY <1>1, CountIs DEF Tree
        <3>3. j \in 0..Count(g, m)
            BY <1>1, <3>2
        <3>4. QED
            BY <1>1, <2>6, <3>1, <3>3, ChildIs
    <2>8. Standing(heap', root', pc', stack')
        BY <1>7, <2>1, <2>2, <2>4 DEF Standing
    <2>9. Nonempty(heap', root', pc', stack', iter')
        BY <2>1, <2>2, <2>5, <2>7 DEF Nonempty, Exempt
    <2>10. Called(root', pc', call', source')
        BY <1>7, <2>1 DEF Called, Inserting, Erasing
    <2>11. At(heap', root', pc', stack', iter', res')
        BY <1>1, <2>1, <2>2, <2>5, <2>7 DEF At
    <2>12. QED
        BY <1>7, <1>8, <2>8, <2>9, <2>10, <2>11 DEF IInv
<1>11. QED
    BY <1>9, <1>10

(***************************************************************************)
(* Room that a sibling has                                                 *)
(***************************************************************************)

\* How many values a full node can give a sibling with b of them.
LEMMA ToMoveIs ==
    ASSUME NEW b \in Nat, b < NodeValues, NEW one \in {0, 1}, NEW m,
           m = Max({1, (NodeValues - b) \div (1 + one)})
    PROVE  m \in Nat /\ m >= 1 /\ b + m <= NodeValues
<1>1. PICK a \in Nat : a = NodeValues - b /\ a >= 1
    BY NodeValuesAssumption
<1>2. PICK h \in Nat : h = a \div (1 + one) /\ h <= a
    <2>1. CASE one = 0
        <3>1. a \div (1 + one) = a
            BY <2>1
        <3>2. QED
            BY <3>1
    <2>2. CASE one = 1
        <3>1. a \div (1 + one) = a \div 2
            BY <2>2
        <3>2. a \div 2 \in Nat /\ a \div 2 <= a
            OBVIOUS
        <3>3. QED
            BY <3>1, <3>2
    <2>3. QED
        BY <2>1, <2>2
<1>3. m = Max({1, h})
    BY <1>1, <1>2
<1>4. 1 \in Int /\ h \in Int
    OBVIOUS
<1>5. m = IF 1 >= h THEN 1 ELSE h
    BY <1>3, <1>4, MaxOfTwo
<1>6. QED
    BY <1>1, <1>2, <1>5, NodeValuesAssumption

\* The place j of m, which is n or its sibling r, and there is room at it when
\* they have k and c values.
Within(n, r, k, c, m, j) ==
    /\ m \in {n, r} /\ j \in Nat
    /\ m = n => j <= k /\ k < NodeValues
    /\ m = r => j <= c /\ c < NodeValues

\* n and its right sibling r, one of which has no room.
Siblings(n, r) ==
    /\ n \in DOMAIN heap /\ n # root /\ HasRight(heap, n) /\ r = Right(heap, n)
    /\ Head(stack).node \in {n, r}

\* Only values and children move.
OnlyNodesChange ==
    /\ root' = root /\ rightmost' = rightmost /\ size' = size /\ call' = call
    /\ source' = source /\ count' = count /\ erased' = erased

\* Room was made by sharing values out with a sibling.
LEMMA SharedRoomKeeps ==
    ASSUME IInv, pc = "make_room", OnlyNodesChange,
           NEW lv, NEW S, Tree(heap, root, lv, S), Chain(heap, stack, lv),
           NEW n, NEW r, Siblings(n, r), NEW a \in Nat, a = Count(heap, n),
           NEW b \in Nat, b = Count(heap, r),
           NEW k \in 1..NodeValues, NEW c \in 1..NodeValues, c = a + b - k,
           heap' = Share(heap, n, k), NEW g, g = heap',
           NEW i, i = Head(stack).position, NEW m, NEW j,
           NEW s, s = Slot(m, j),
           RoomAt(s), Within(n, r, k, c, m, j),
           Across(n, k, m, j) = Across(n, a, Head(stack).node, i)
    PROVE  IInv'
<1>1. /\ root' = root /\ rightmost' = rightmost /\ size' = size /\ call' = call
      /\ source' = source /\ count' = count /\ erased' = erased
    BY DEF OnlyNodesChange
<1>2. /\ n \in DOMAIN heap /\ n # root /\ HasRight(heap, n)
            /\ r = Right(heap, n)
      /\ Head(stack).node \in {n, r}
    BY DEF Siblings
<1>3. /\ m \in {n, r} /\ j \in Nat
      /\ m = n => j <= k /\ k < NodeValues
      /\ m = r => j <= c /\ c < NodeValues
    BY DEF Within
<1>4. /\ r \in DOMAIN heap /\ r # root /\ r # n
      /\ heap[r].leaf <=> heap[n].leaf
      /\ ~heap[root].leaf
      /\ heap[n].max_count = NodeValues /\ heap[r].max_count = NodeValues
    BY <1>2, SiblingsAre
<1>5. lv[r] = lv[n]
    BY <1>2, RightIs
<1>6. PICK u : u = Both(heap, n, r)
    OBVIOUS
<1>7. k \in 0..NodeValues
          /\ Count(heap, n) + Count(heap, r) - k \in 0..NodeValues
    BY NodeValuesAssumption
<1>8. Tree(g, root, lv, S) /\ Shared(heap, g, n, r, k, u)
    BY <1>2, <1>6, <1>7, ShareIs
<1>9. /\ DOMAIN g = DOMAIN heap
      /\ \A x \in DOMAIN heap :
            g[x].leaf = heap[x].leaf /\ g[x].max_count = heap[x].max_count
      /\ Count(g, n) = k /\ Count(g, r) = a + b - k
      /\ \A x \in DOMAIN heap \ {n, r} :
            Count(g, x) = Count(heap, x) /\ g[x].children = heap[x].children
    BY <1>8 DEF Shared
<1>10. PICK f : f = Head(stack).node
    OBVIOUS
<1>11. f \in {n, r} /\ f \in DOMAIN heap /\ i \in 0..NodeValues
       /\ IsFull(heap, f) /\ lv[f] = lv[n]
    <2>1. PICK e \in DOMAIN heap, d \in 0..NodeValues :
             e = Head(stack).node /\ d = Head(stack).position
                 /\ IsFull(heap, e)
        BY FrameOf
    <2>2. f = e /\ i = d
        BY <1>10, <2>1
    <2>3. f \in {n, r}
        BY <1>2, <1>10
    <2>4. QED
        BY <1>2, <1>5, <2>1, <2>2, <2>3
<1>12. LowerKept(heap, g, lv, lv, f)
    <2>1. ASSUME NEW x \in DOMAIN heap, lv[x] < lv[f]
          PROVE  x # n /\ x # r
        <3>1. lv[x] \in Nat
            BY DEF Tree, Sized
        <3>2. QED
            BY <1>5, <1>11, <2>1, <3>1
    <2>2. QED
        BY <1>9, <2>1 DEF LowerKept
<1>13. ~heap[f].leaf => Child(g, m, j) = Child(heap, f, i)
    <2>1. SUFFICES ASSUME ~heap[f].leaf
            PROVE Child(g, m, j) = Child(heap, f, i)
        OBVIOUS
    <2>2. ~heap[n].leaf
        BY <1>4, <1>11, <2>1
    <2>3. /\ \A x \in 0..a : Child(heap, n, x) = u[x + 1]
          /\ \A x \in 0..b : Child(heap, r, x) = u[a + (x + 2)]
          /\ \A x \in 0..k : Child(g, n, x) = u[x + 1]
          /\ \A x \in 0..(a + b - k) : Child(g, r, x) = u[k + (x + 2)]
        BY <1>8, <1>9, <2>2 DEF Shared
    <2>4. Count(heap, f) = NodeValues
        BY <1>4, <1>11 DEF IsFull
    <2>5. Child(heap, f, i) = u[Across(n, a, f, i)]
        <3>1. CASE f = n
            BY <1>11, <2>3, <2>4, <3>1, AcrossIs
        <3>2. CASE f # n
            <4>1. f = r /\ b = NodeValues
                BY <1>11, <2>4, <3>2
            <4>2. QED
                BY <1>11, <2>3, <3>2, <4>1, AcrossIs
        <3>3. QED
            BY <3>1, <3>2
    <2>6. Child(g, m, j) = u[Across(n, k, m, j)]
        <3>1. CASE m = n
            <4>1. j \in 0..k
                BY <1>3, <3>1
            <4>2. QED
                BY <2>3, <3>1, <4>1, AcrossIs
        <3>2. CASE m # n
            <4>1. m = r
                BY <1>3, <3>2
            <4>2. j \in 0..(a + b - k)
                BY <1>3, <4>1
            <4>3. QED
                BY <2>3, <3>2, <4>1, <4>2, AcrossIs
        <3>3. QED
            BY <3>1, <3>2
    <2>7. QED
        BY <1>10, <2>5, <2>6
<1>14. Roomy(heap, g, root, f, i, m, j)
    <2>1. m \in DOMAIN heap /\ m \in DOMAIN g /\ m # root
        BY <1>2, <1>3, <1>4, <1>9
    <2>2. g[m].leaf = heap[f].leaf /\ g[m].max_count = NodeValues
        <3>1. heap[m].leaf <=> heap[f].leaf
            BY <1>3, <1>4, <1>11
        <3>2. heap[m].leaf \in BOOLEAN /\ heap[f].leaf \in BOOLEAN
            BY <1>9, <1>11, <2>1, NodeIs DEF Tree
        <3>3. heap[m].max_count = NodeValues
            BY <1>3, <1>4
        <3>4. g[m].leaf = heap[m].leaf /\ g[m].max_count = heap[m].max_count
            BY <1>9, <2>1
        <3>5. QED
            BY <3>1, <3>2, <3>3, <3>4
    <2>3. j <= Count(g, m) /\ Count(g, m) < NodeValues
        BY <1>3, <1>4, <1>9
    <2>4. ~IsFull(g, m)
        BY <2>2, <2>3, NodeValuesAssumption DEF IsFull
    <2>5. QED
        BY <1>3, <1>13, <2>1, <2>2, <2>3, <2>4 DEF Roomy
<1>15. \A x \in DOMAIN g : Count(g, x) # 0 \/ x = m
    <2>1. \A x \in DOMAIN heap : Count(heap, x) # 0
        BY DEF IInv, Nonempty, Exempt
    <2>2. Count(g, n) # 0 /\ Count(g, r) # 0
        BY <1>9
    <2>3. QED
        BY <1>9, <2>1, <2>2
<1>16. Ended(g, root, rightmost')
    <2>1. LeafOf(heap, rightmost)
        BY <1>4, MakingRoom DEF IInv, Ended
    <2>2. QED
        BY <1>1, <1>9, <2>1 DEF Ended, LeafOf
<1>17. pc \in {"make_room", "split"}
    OBVIOUS
<1>18. QED
    BY <1>1, <1>8, <1>10, <1>12, <1>14, <1>15, <1>16, <1>17, RoomAtKeeps

\* The node of the frame, which is full, and a sibling that has room.
LEMMA FrameHasSibling ==
    ASSUME IInv, pc = "make_room",
           NEW lv, NEW S, Tree(heap, root, lv, S), Chain(heap, stack, lv)
    PROVE  /\ \E f \in DOMAIN heap, i \in Nat :
                 /\ f = Frame.node /\ i = Frame.position /\ Frame = Slot(f, i)
                 /\ i <= NodeValues
                 /\ Count(heap, f) = NodeValues
           /\ \A x \in DOMAIN heap : x # root /\ ~IsFull(heap, x) =>
                 \E b \in Nat : b = Count(heap, x) /\ b >= 1 /\ b < NodeValues
                                /\ heap[x].max_count = NodeValues
<1>1. PICK f \in DOMAIN heap, i \in 0..NodeValues :
         /\ Head(stack) = Slot(f, i) /\ f = Head(stack).node
         /\ i = Head(stack).position
         /\ IsFull(heap, f) /\ heap[f].max_count = NodeValues
    BY FrameOf
<1>2. Count(heap, f) = NodeValues
    BY <1>1 DEF IsFull
<1>3. i \in Nat /\ i <= NodeValues
    BY NodeValuesAssumption
<1>4. ASSUME NEW x \in DOMAIN heap, x # root, ~IsFull(heap, x)
      PROVE  \E b \in Nat : b = Count(heap, x) /\ b >= 1 /\ b < NodeValues
                             /\ heap[x].max_count = NodeValues
    <2>1. PICK b \in Nat : b = Count(heap, x)
        BY CountIs DEF Tree
    <2>2. b # 0
        BY <2>1 DEF IInv, Nonempty, Exempt
    <2>3. heap[x].max_count = NodeValues /\ Count(heap, x) <= heap[x].max_count
        BY <1>4 DEF Tree, Sized
    <2>4. b # NodeValues /\ b <= NodeValues
        BY <1>4, <2>1, <2>3 DEF IsFull
    <2>5. b < NodeValues /\ b >= 1
        BY <2>2, <2>4, NodeValuesAssumption
    <2>6. QED
        BY <2>1, <2>3, <2>5
<1>5. QED
    BY <1>1, <1>2, <1>3, <1>4 DEF Frame

\* How many values the left one of two siblings has afterwards.
LEMMA SharedCount ==
    ASSUME NEW lv, NEW S, Tree(heap, root, lv, S),
           NEW n \in DOMAIN heap, n # root, HasRight(heap, n),
           NEW r, r = Right(heap, n),
           NEW k \in 1..NodeValues,
           Count(heap, n) + Count(heap, r) - k \in 1..NodeValues,
           NEW g, g = Share(heap, n, k)
    PROVE  Count(g, n) = k
<1>1. k \in 0..NodeValues
          /\ Count(heap, n) + Count(heap, r) - k \in 0..NodeValues
    BY NodeValuesAssumption
<1>2. PICK u : u = Both(heap, n, r)
    OBVIOUS
<1>3. Shared(heap, g, n, r, k, u)
    BY <1>1, <1>2, ShareIs
<1>4. QED
    BY <1>3 DEF Shared

\* n and its right sibling share their values out, and there is room at the
\* place j of m now, which is the place i of the frame.
MakesRoom(n, r, a, b, k, c, i, m, j) ==
    /\ Siblings(n, r)
    /\ a \in Nat /\ a = Count(heap, n) /\ b \in Nat /\ b = Count(heap, r)
    /\ k \in 1..NodeValues /\ c \in 1..NodeValues /\ c = a + b - k
    /\ heap' = Share(heap, n, k) /\ i = Head(stack).position
    /\ RoomAt(Slot(m, j)) /\ Within(n, r, k, c, m, j)
    /\ Across(n, k, m, j) = Across(n, a, Head(stack).node, i)

\* So is room made on a sibling.
RoomBeside ==
    /\ pc = "make_room" /\ OnlyNodesChange
    /\ \E n, r, a, b, k, c, i, m, j : MakesRoom(n, r, a, b, k, c, i, m, j)

\* The left sibling takes values.
LEMMA RoomOnLeftIs ==
    ASSUME IInv, RoomOnLeft
    PROVE  RoomBeside
<1>1. pc = "make_room" /\ LeftHasRoom(Frame)
    BY DEF RoomOnLeft
<1>2. PICK lv, S : Tree(heap, root, lv, S) /\ Chain(heap, stack, lv)
    BY <1>1, MakingRoom
<1>3. PICK r \in DOMAIN heap, i \in Nat :
         /\ r = Frame.node /\ i = Frame.position /\ Frame = Slot(r, i)
         /\ i <= NodeValues
         /\ Count(heap, r) = NodeValues
    BY <1>1, <1>2, FrameHasSibling
<1>4. PICK n : n = Left(heap, r)
    OBVIOUS
<1>5. PICK t : t = ToMoveLeft(Frame)
    OBVIOUS
<1>6. /\ r # root /\ HasLeft(heap, r) /\ ~IsFull(heap, n)
      /\ i - t >= 0 \/ Count(heap, n) + t < heap[n].max_count
    BY <1>1, <1>3, <1>4, <1>5 DEF LeftHasRoom
<1>7. n \in DOMAIN heap /\ n # root /\ HasRight(heap, n) /\ r = Right(heap, n)
    BY <1>2, <1>4, <1>6, LeftIs
<1>8. PICK a \in Nat : a = Count(heap, n) /\ a >= 1 /\ a < NodeValues
                       /\ heap[n].max_count = NodeValues
    BY <1>1, <1>2, <1>6, <1>7, FrameHasSibling
<1>9. t \in Nat /\ t >= 1 /\ a + t <= NodeValues
    <2>1. PICK late \in BOOLEAN : late <=> i < NodeValues
        OBVIOUS
    <2>2. OneOf(i < NodeValues) \in {0, 1}
        BY DEF OneOf
    <2>3. PICK one \in {0, 1} : one = OneOf(i < NodeValues)
        BY <2>2
    <2>4. t = Max({1, (NodeValues - a) \div (1 + one)})
        BY <1>3, <1>4, <1>5, <1>8, <2>3 DEF ToMoveLeft
    <2>5. QED
        BY <1>8, <2>3, <2>4, ToMoveIs
<1>10. PICK b \in Nat : b = Count(heap, r) /\ b = NodeValues
    BY <1>3, NodeValuesAssumption
<1>11. PICK k \in 1..NodeValues : k = a + t
    BY <1>8, <1>9, NodeValuesAssumption
<1>12. (a + b) - k = NodeValues - t /\ (a + b) - k \in 1..NodeValues
    BY <1>8, <1>9, <1>10, <1>11, NodeValuesAssumption
<1>13. PICK g : g = heap'
    OBVIOUS
<1>14. PICK s : s = IF i - t < 0 THEN Slot(n, (i - t) + Count(g, n) + 1)
                    ELSE Slot(r, i - t)
    OBVIOUS
<1>15. /\ g = RebalanceRightToLeft(heap, n, t) /\ RoomAt(s)
       /\ root' = root /\ rightmost' = rightmost /\ size' = size
             /\ call' = call
       /\ source' = source /\ count' = count /\ erased' = erased
    BY <1>3, <1>4, <1>5, <1>13, <1>14 DEF RoomOnLeft
<1>16. g = Share(heap, n, k)
    BY <1>8, <1>11, <1>15 DEF RebalanceRightToLeft
<1>17. Count(g, n) = k
    <2>1. Count(heap, n) + Count(heap, r) - k \in 1..NodeValues
        BY <1>8, <1>10, <1>12
    <2>2. QED
        BY <1>2, <1>7, <1>16, <2>1, SharedCount
<1>18. Head(stack).node = r /\ i = Head(stack).position /\ r # n
    <2>1. r # n
        BY <1>2, <1>7, RightIs
    <2>2. QED
        BY <1>3, <2>1 DEF Frame
<1>19. CASE i - t < 0
    <2>1. PICK j \in Nat : j = i + a + 1
        OBVIOUS
    <2>2. (i - t) + k + 1 = j
        BY <1>9, <1>11, <2>1
    <2>3. s = Slot(n, j)
        BY <1>14, <1>17, <1>19, <2>2
    <2>4. k < NodeValues
        BY <1>6, <1>8, <1>9, <1>11, <1>19, NodeValuesAssumption
    <2>5. j <= k /\ j + 1 = a + (i + 2)
        BY <1>9, <1>11, <1>19, <2>1
    <2>6. PICK m : m = n
        OBVIOUS
    <2>7. m \in {n, r} /\ s = Slot(m, j)
        BY <2>3, <2>6
    <2>8. m = n => j <= k /\ k < NodeValues
        BY <2>4, <2>5
    <2>9. m = r => j <= a + b - k /\ a + b - k < NodeValues
        BY <1>18, <2>6
    <2>10. Across(n, k, m, j) = Across(n, a, Head(stack).node, i)
        <3>1. Across(n, k, m, j) = j + 1
            BY <2>6, AcrossIs
        <3>2. Across(n, a, Head(stack).node, i) = a + (i + 2)
            BY <1>18, AcrossIs
        <3>3. QED
            BY <2>5, <3>1, <3>2
    <2>11. (a + b) - k \in 1..NodeValues
        BY <1>12
    <2>12. i = Head(stack).position /\ Siblings(n, r) /\ OnlyNodesChange
        BY <1>7, <1>15, <1>18 DEF Siblings, OnlyNodesChange
    <2>13. a = Count(heap, n) /\ b = Count(heap, r) /\ pc = "make_room"
        BY <1>1, <1>8, <1>10
    <2>14. heap' = Share(heap, n, k)
        BY <1>13, <1>16
    <2>15. PICK c \in 1..NodeValues : c = (a + b) - k
        BY <2>11
    <2>16. Within(n, r, k, c, m, j) /\ RoomAt(s)
        BY <1>15, <2>7, <2>8, <2>9, <2>15 DEF Within
    <2>17. MakesRoom(n, r, a, b, k, c, i, m, j)
        BY <2>7, <2>10, <2>12, <2>13, <2>14, <2>15, <2>16 DEF MakesRoom
    <2>18. QED
        BY <2>12, <2>13, <2>17 DEF RoomBeside
<1>20. CASE ~(i - t < 0)
    <2>1. PICK d : d = i - t
        OBVIOUS
    <2>2. PICK j \in Nat : j = d /\ j = i - t
        BY <1>9, <1>20, <2>1
    <2>3. s = Slot(r, j)
        BY <1>14, <1>20, <2>1, <2>2
    <2>4. j <= (a + b) - k /\ (a + b) - k < NodeValues
        BY <1>3, <1>9, <1>12, <2>2, NodeValuesAssumption
    <2>5. k + (j + 2) = a + (i + 2)
        BY <1>9, <1>11, <2>2
    <2>6. PICK m : m = r
        OBVIOUS
    <2>7. m \in {n, r} /\ s = Slot(m, j)
        BY <2>3, <2>6
    <2>8. m = n => j <= k /\ k < NodeValues
        BY <1>18, <2>6
    <2>9. m = r => j <= a + b - k /\ a + b - k < NodeValues
        BY <2>4
    <2>10. Across(n, k, m, j) = Across(n, a, Head(stack).node, i)
        <3>1. Across(n, k, m, j) = k + (j + 2)
            BY <1>18, <2>6, AcrossIs
        <3>2. Across(n, a, Head(stack).node, i) = a + (i + 2)
            BY <1>18, AcrossIs
        <3>3. QED
            BY <2>5, <3>1, <3>2
    <2>11. (a + b) - k \in 1..NodeValues
        BY <1>12
    <2>12. i = Head(stack).position /\ Siblings(n, r) /\ OnlyNodesChange
        BY <1>7, <1>15, <1>18 DEF Siblings, OnlyNodesChange
    <2>13. a = Count(heap, n) /\ b = Count(heap, r) /\ pc = "make_room"
        BY <1>1, <1>8, <1>10
    <2>14. heap' = Share(heap, n, k)
        BY <1>13, <1>16
    <2>15. PICK c \in 1..NodeValues : c = (a + b) - k
        BY <2>11
    <2>16. Within(n, r, k, c, m, j) /\ RoomAt(s)
        BY <1>15, <2>7, <2>8, <2>9, <2>15 DEF Within
    <2>17. MakesRoom(n, r, a, b, k, c, i, m, j)
        BY <2>7, <2>10, <2>12, <2>13, <2>14, <2>15, <2>16 DEF MakesRoom
    <2>18. QED
        BY <2>12, <2>13, <2>17 DEF RoomBeside
<1>21. QED
    BY <1>19, <1>20

\* The right sibling takes values.
LEMMA RoomOnRightIs ==
    ASSUME IInv, RoomOnRight
    PROVE  RoomBeside
<1>1. pc = "make_room" /\ RightHasRoom(Frame)
    BY DEF RoomOnRight
<1>2. PICK lv, S : Tree(heap, root, lv, S) /\ Chain(heap, stack, lv)
    BY <1>1, MakingRoom
<1>3. PICK n \in DOMAIN heap, i \in Nat :
         /\ n = Frame.node /\ i = Frame.position /\ Frame = Slot(n, i)
         /\ i <= NodeValues
         /\ Count(heap, n) = NodeValues
    BY <1>1, <1>2, FrameHasSibling
<1>4. PICK r : r = Right(heap, n)
    OBVIOUS
<1>5. PICK t : t = ToMoveRight(Frame)
    OBVIOUS
<1>6. PICK a \in Nat : a = Count(heap, n) /\ a = NodeValues
    BY <1>3, NodeValuesAssumption
<1>7. /\ n # root /\ HasRight(heap, n) /\ ~IsFull(heap, r)
      /\ i <= a - t \/ Count(heap, r) + t < heap[r].max_count
    BY <1>1, <1>3, <1>4, <1>5, <1>6 DEF RightHasRoom
<1>8. r \in DOMAIN heap /\ r # root /\ r # n
    BY <1>2, <1>4, <1>7, RightIs
<1>9. PICK b \in Nat : b = Count(heap, r) /\ b >= 1 /\ b < NodeValues
                       /\ heap[r].max_count = NodeValues
    BY <1>1, <1>2, <1>7, <1>8, FrameHasSibling
<1>10. t \in Nat /\ t >= 1 /\ b + t <= NodeValues
    <2>1. OneOf(i > 0) \in {0, 1}
        BY DEF OneOf
    <2>2. PICK one \in {0, 1} : one = OneOf(i > 0)
        BY <2>1
    <2>3. t = Max({1, (NodeValues - b) \div (1 + one)})
        BY <1>3, <1>4, <1>5, <1>9, <2>2 DEF ToMoveRight
    <2>4. QED
        BY <1>9, <2>2, <2>3, ToMoveIs
<1>11. PICK k \in 1..NodeValues : k = a - t
    BY <1>6, <1>9, <1>10, NodeValuesAssumption
<1>12. PICK c \in 1..NodeValues : c = b + t
    BY <1>9, <1>10, NodeValuesAssumption
<1>13. c = a + b - k
    BY <1>10, <1>11, <1>12
<1>14. PICK g : g = heap'
    OBVIOUS
<1>15. PICK s : s = IF i > Count(g, n) THEN Slot(r, i - Count(g, n) - 1)
                    ELSE Frame
    OBVIOUS
<1>16. g = RebalanceLeftToRight(heap, n, t) /\ RoomAt(s) /\ OnlyNodesChange
    BY <1>3, <1>4, <1>5, <1>14, <1>15 DEF RoomOnRight, OnlyNodesChange
<1>17. g = Share(heap, n, k)
    BY <1>6, <1>11, <1>16 DEF RebalanceLeftToRight
<1>18. Count(g, n) = k
    <2>1. Count(heap, n) + Count(heap, r) - k \in 1..NodeValues
        BY <1>6, <1>9, <1>12, <1>13
    <2>2. QED
        BY <1>2, <1>4, <1>7, <1>17, <2>1, SharedCount
<1>19. Head(stack).node = n /\ i = Head(stack).position /\ Siblings(n, r)
    BY <1>3, <1>4, <1>7 DEF Frame, Siblings
<1>20. a = Count(heap, n) /\ b = Count(heap, r) /\ pc = "make_room"
    BY <1>1, <1>6, <1>9
<1>21. heap' = Share(heap, n, k)
    BY <1>14, <1>17
<1>22. CASE i > k
    <2>1. PICK d : d = i - k - 1
        OBVIOUS
    <2>2. PICK j \in Nat : j = d /\ j = i - k - 1
        BY <1>22, <2>1
    <2>3. s = Slot(r, j)
        BY <1>15, <1>18, <1>22, <2>1, <2>2
    <2>4. PICK m : m = r
        OBVIOUS
    <2>5. j <= c /\ c < NodeValues
        BY <1>3, <1>6, <1>7, <1>9, <1>10, <1>11, <1>12, <1>22, <2>2,
           NodeValuesAssumption
    <2>6. Within(n, r, k, c, m, j) /\ s = Slot(m, j)
        BY <1>8, <2>3, <2>4, <2>5 DEF Within
    <2>7. Across(n, k, m, j) = Across(n, a, Head(stack).node, i)
        <3>1. Across(n, k, m, j) = k + (j + 2)
            BY <1>8, <2>4, AcrossIs
        <3>2. Across(n, a, Head(stack).node, i) = i + 1
            BY <1>19, AcrossIs
        <3>3. k + (j + 2) = i + 1
            BY <2>2
        <3>4. QED
            BY <3>1, <3>2, <3>3
    <2>8. MakesRoom(n, r, a, b, k, c, i, m, j)
        BY <1>13, <1>16, <1>19, <1>20, <1>21, <2>6, <2>7 DEF MakesRoom
    <2>9. QED
        BY <1>16, <1>20, <2>8 DEF RoomBeside
<1>23. CASE ~(i > k)
    <2>1. PICK j \in Nat : j = i
        OBVIOUS
    <2>2. PICK m : m = n
        OBVIOUS
    <2>3. s = Slot(m, j)
        BY <1>3, <1>15, <1>18, <1>23, <2>1, <2>2
    <2>4. j <= k /\ k < NodeValues
        BY <1>6, <1>10, <1>11, <1>23, <2>1, NodeValuesAssumption
    <2>5. Within(n, r, k, c, m, j)
        BY <1>8, <2>2, <2>4 DEF Within
    <2>6. Across(n, k, m, j) = Across(n, a, Head(stack).node, i)
        <3>1. Across(n, k, m, j) = j + 1
            BY <2>2, AcrossIs
        <3>2. Across(n, a, Head(stack).node, i) = i + 1
            BY <1>19, AcrossIs
        <3>3. QED
            BY <2>1, <3>1, <3>2
    <2>7. MakesRoom(n, r, a, b, k, c, i, m, j)
        BY <1>13, <1>16, <1>19, <1>20, <1>21, <2>3, <2>5, <2>6 DEF MakesRoom
    <2>8. QED
        BY <1>16, <1>20, <2>7 DEF RoomBeside
<1>24. QED
    BY <1>22, <1>23

LEMMA RoomBesideKeeps ==
    ASSUME IInv, RoomOnLeft \/ RoomOnRight
    PROVE  IInv'
<1>1. RoomBeside
    BY RoomOnLeftIs, RoomOnRightIs
<1>2. PICK n, r, a, b, k, c, i, m, j : MakesRoom(n, r, a, b, k, c, i, m, j)
    BY <1>1 DEF RoomBeside
<1>3. /\ Siblings(n, r)
      /\ a \in Nat /\ a = Count(heap, n) /\ b \in Nat /\ b = Count(heap, r)
      /\ k \in 1..NodeValues /\ c \in 1..NodeValues /\ c = a + b - k
      /\ heap' = Share(heap, n, k) /\ i = Head(stack).position
      /\ RoomAt(Slot(m, j)) /\ Within(n, r, k, c, m, j)
      /\ Across(n, k, m, j) = Across(n, a, Head(stack).node, i)
    BY <1>2 DEF MakesRoom
<1>4. pc = "make_room" /\ OnlyNodesChange
    BY <1>1 DEF RoomBeside
<1>5. PICK lv, S : Tree(heap, root, lv, S) /\ Chain(heap, stack, lv)
    BY <1>4, MakingRoom
<1>6. PICK s : s = Slot(m, j)
    OBVIOUS
<1>7. PICK g : g = heap'
    OBVIOUS
<1>8. RoomAt(s)
    BY <1>3, <1>6
<1>9. QED
    BY <1>3, <1>4, <1>5, <1>6, <1>7, <1>8, SharedRoomKeeps

(***************************************************************************)
(* Splitting                                                               *)
(***************************************************************************)

\* A split changes nothing below the node.
LEMMA PartedKept ==
    ASSUME NEW h, NEW top, NEW lv, NEW S, Tree(h, top, lv, S),
           NEW n \in DOMAIN h, n # top, NEW new, new \notin DOMAIN h, NEW k,
           NEW g, NEW lw, Tree(g, top, lw, S), Parted(h, g, n, new, k),
           \A m \in DOMAIN h : lw[m] = lv[m]
    PROVE  LowerKept(h, g, lv, lw, n)
<1>1. PICK p \in DOMAIN h : p = h[n].parent /\ lv[p] = lv[n] + 1
    BY ParentIs
<1>2. /\ \A x \in DOMAIN h : x \in DOMAIN g
      /\ \A m \in DOMAIN h \ {n, p} :
            Count(g, m) = Count(h, m) /\ g[m].children = h[m].children
    BY <1>1 DEF Parted
<1>3. ASSUME NEW x \in DOMAIN h, lv[x] < lv[n]
      PROVE  x # n /\ x # p /\ x # top
    <2>1. lv[x] \in Nat /\ lv[n] \in Nat /\ lv[top] \in Nat /\ lv[n] < lv[top]
        BY DEF Tree, Sized
    <2>2. lv[x] # lv[n] /\ lv[x] # lv[p] /\ lv[x] # lv[top]
        BY <1>1, <1>3, <2>1
    <2>3. QED
        BY <2>2
<1>4. ASSUME NEW x \in DOMAIN h, lv[x] < lv[n]
      PROVE  g[x].max_count = h[x].max_count
    <2>1. x # top /\ x \in DOMAIN g
        BY <1>2, <1>3, <1>4
    <2>2. h[x].max_count = NodeValues
        BY <2>1 DEF Tree, Sized
    <2>3. g[x].max_count = NodeValues
        BY <2>1 DEF Tree, Sized
    <2>4. QED
        BY <2>2, <2>3
<1>5. QED
    BY <1>2, <1>3, <1>4 DEF LowerKept

\* The node n of the frame, which is full, keeps k values and gives the others
\* to a new one; there is room for the place i of the frame at s now.
Halved(lv, S, lw, n, i, new, k, s) ==
    /\ Tree(heap, root, lv, S) /\ Chain(heap, stack, lv)
    /\ n \in DOMAIN heap /\ i \in 0..NodeValues /\ Head(stack) = Slot(n, i)
    /\ n = Head(stack).node /\ i = Head(stack).position
    /\ Count(heap, n) = NodeValues /\ n # root
    /\ new \in Nat /\ new \notin DOMAIN heap
    /\ \A m \in DOMAIN heap : lw[m] = lv[m]
    /\ k \in 0..(NodeValues - 1)
    /\ k = 0 => i = 0
    /\ k = NodeValues - 1 => i = NodeValues
    /\ Tree(heap', root, lw, S) /\ Parted(heap, heap', n, new, k)
    /\ SplitOff(heap, heap', n, new, k)
    /\ RoomAt(s) /\ s = IF i > k THEN Slot(new, i - k - 1) ELSE Slot(n, i)
    /\ rightmost' = RightmostAfterSplit(n, new)

\* What a split leaves alone.
SplitLeaves ==
    /\ pc = "split" /\ root' = root /\ size' = size /\ call' = call
    /\ count' = count /\ erased' = erased /\ source' = source

\* The node is split.
LEMMA SplitNodeIs ==
    ASSUME IInv, SplitNode
    PROVE  /\ SplitLeaves
           /\ \E lv, S, lw, n, i, new, k, s : Halved(lv, S, lw, n, i, new, k, s)
<1>1. PICK new : new = Fresh(heap)
    OBVIOUS
<1>2. PICK f : f = Head(stack)
    OBVIOUS
<1>3. PICK g : g = heap'
    OBVIOUS
<1>4. PICK s : s = IF f.position > Count(g, f.node)
                   THEN Slot(new, f.position - Count(g, f.node) - 1) ELSE f
    OBVIOUS
<1>5. /\ pc = "split" /\ g = Split(heap, f, new) /\ RoomAt(s)
      /\ rightmost' = RightmostAfterSplit(f.node, new)
      /\ root' = root /\ size' = size /\ call' = call /\ count' = count
      /\ erased' = erased /\ source' = source
    BY <1>1, <1>2, <1>3, <1>4 DEF SplitNode, Frame
<1>6. PICK lv, S : Tree(heap, root, lv, S) /\ Chain(heap, stack, lv)
    BY <1>5, MakingRoom
<1>7. PICK n \in DOMAIN heap, i \in 0..NodeValues :
         /\ f = Slot(n, i) /\ n = Head(stack).node /\ i = Head(stack).position
         /\ IsFull(heap, n) /\ heap[n].max_count = NodeValues
    BY <1>2, <1>6, FrameOf
<1>8. f.node = n /\ f.position = i
    BY <1>7, SlotIs
<1>9. n # root /\ ~IsFull(heap, heap[n].parent)
    BY <1>5, <1>7 DEF IInv, At
<1>10. new \in Nat /\ new # NoNode /\ new \notin DOMAIN heap
    BY <1>1, <1>6, FreshIsNew DEF Tree
<1>11. PICK lw : lw = [m \in DOMAIN heap \cup {new} |->
                          IF m = new THEN lv[n] ELSE lv[m]]
    OBVIOUS
<1>12. (\A m \in DOMAIN heap : lw[m] = lv[m]) /\ lw[new] = lv[n]
    BY <1>10, <1>11
<1>13. Count(heap, n) = NodeValues
    BY <1>7 DEF IsFull
<1>14. /\ Staying(heap, f) \in 0..(NodeValues - 1)
       /\ Staying(heap, f) = 0 => f.position = 0
       /\ Staying(heap, f) = NodeValues - 1 => f.position = NodeValues
    BY <1>7, <1>8, <1>13, StayingIs, NodeValuesAssumption
<1>15. PICK k \in 0..(NodeValues - 1) : k = Staying(heap, f)
    BY <1>14
<1>16. (k = 0 => i = 0) /\ (k = NodeValues - 1 => i = NodeValues)
       /\ k \in 0..(NodeValues - 1)
    BY <1>8, <1>14, <1>15
<1>17. /\ Tree(g, root, lw, S) /\ Parted(heap, g, n, new, k)
       /\ SplitOff(heap, g, n, new, k)
    BY <1>5, <1>6, <1>7, <1>8, <1>9, <1>10, <1>12, <1>15, SplitIs
<1>18. Count(g, n) = k
    BY <1>17 DEF Parted
<1>19. s = IF i > k THEN Slot(new, i - k - 1) ELSE Slot(n, i)
    BY <1>4, <1>7, <1>8, <1>18
<1>20. Halved(lv, S, lw, n, i, new, k, s)
    BY <1>2, <1>3, <1>5, <1>6, <1>7, <1>8, <1>9, <1>10, <1>12, <1>13, <1>16,
       <1>17, <1>19 DEF Halved
<1>21. QED
    BY <1>5, <1>20 DEF SplitLeaves

LEMMA SplitNodeKeeps ==
    ASSUME IInv, SplitNode
    PROVE  IInv'
<1>1. /\ pc = "split" /\ root' = root /\ size' = size /\ call' = call
      /\ count' = count /\ erased' = erased /\ source' = source
    BY SplitNodeIs DEF SplitLeaves
<1>2. PICK lv, S, lw, n, i, new, k, s : Halved(lv, S, lw, n, i, new, k, s)
    BY SplitNodeIs
<1>3. PICK g : g = heap'
    OBVIOUS
<1>4. PICK f : f = Head(stack)
    OBVIOUS
<1>5. /\ pc = "split" /\ RoomAt(s)
      /\ rightmost' = RightmostAfterSplit(n, new)
      /\ root' = root /\ size' = size /\ call' = call /\ count' = count
      /\ erased' = erased /\ source' = source
    BY <1>1, <1>2 DEF Halved
<1>6. Tree(heap, root, lv, S) /\ Chain(heap, stack, lv)
    BY <1>2 DEF Halved
<1>7. /\ n \in DOMAIN heap /\ i \in 0..NodeValues
      /\ f = Slot(n, i) /\ n = Head(stack).node /\ i = Head(stack).position
    BY <1>2, <1>4 DEF Halved
<1>8. f.node = n /\ f.position = i
    BY <1>7, SlotIs
<1>9. n # root
    BY <1>2 DEF Halved
<1>10. new \in Nat /\ new \notin DOMAIN heap
    BY <1>2 DEF Halved
<1>11. \A m \in DOMAIN heap : lw[m] = lv[m]
    BY <1>2 DEF Halved
<1>12. Count(heap, n) = NodeValues
    BY <1>2 DEF Halved
<1>13. (k = 0 => i = 0) /\ (k = NodeValues - 1 => i = NodeValues)
       /\ k \in 0..(NodeValues - 1)
    BY <1>2 DEF Halved
<1>14. Tree(g, root, lw, S) /\ Parted(heap, g, n, new, k)
    BY <1>2, <1>3 DEF Halved
<1>15. PICK p \in DOMAIN heap : p = heap[n].parent
    BY <1>6, <1>7, <1>9, ParentIs
<1>16. /\ DOMAIN g = DOMAIN heap \cup {new}
       /\ g[new].leaf = heap[n].leaf
       /\ \A m \in DOMAIN heap : g[m].leaf = heap[m].leaf
       /\ Count(g, n) = k /\ Count(g, new) = NodeValues - (k + 1)
       /\ Count(g, p) = Count(heap, p) + 1
       /\ \A m \in DOMAIN heap \ {n, p} : Count(g, m) = Count(heap, m)
    BY <1>14, <1>12, <1>15 DEF Parted
<1>17. ~heap[n].leaf =>
          /\ \A j \in 0..k : Child(g, n, j) = Child(heap, n, j)
          /\ \A j \in 0..(NodeValues - (k + 1)) :
                Child(g, new, j) = Child(heap, n, j + (k + 1))
    BY <1>14, <1>12 DEF Parted
<1>18. LowerKept(heap, g, lv, lw, n)
    BY <1>6, <1>7, <1>9, <1>10, <1>11, <1>14, PartedKept
<1>19. Ended(g, root, rightmost')
    <2>1. heap[root].leaf \/ LeafOf(heap, rightmost)
        BY <1>5, MakingRoom DEF IInv, Ended
    <2>2. CASE heap[root].leaf
        BY <1>6, <1>16, <2>2 DEF Ended, Tree
    <2>3. CASE LeafOf(heap, rightmost)
        <3>1. LeafOf(g, rightmost) /\ (rightmost = n => LeafOf(g, new))
            BY <1>16, <2>3 DEF LeafOf
        <3>2. QED
            BY <1>5, <1>8, <3>1 DEF Ended, RightmostAfterSplit
    <2>4. QED
        BY <2>1, <2>2, <2>3
<1>20. \A x \in DOMAIN g : x # n /\ x # new => Count(g, x) # 0
    <2>1. \A x \in DOMAIN heap : Count(heap, x) # 0 \/ x = p
        BY <1>5, <1>7, <1>15 DEF IInv, Nonempty, Exempt
    <2>2. Count(g, p) # 0
        <3>1. Count(heap, p) \in Nat
            BY <1>6, CountIs DEF Tree
        <3>2. QED
            BY <1>16, <3>1
    <2>3. QED
        BY <1>16, <2>1, <2>2
<1>21. g[n].max_count = NodeValues /\ g[new].max_count = NodeValues
       /\ n \in DOMAIN g /\ new \in DOMAIN g /\ new # root
    <2>1. new # root /\ n \in DOMAIN g /\ new \in DOMAIN g
        BY <1>6, <1>7, <1>10, <1>16 DEF Tree
    <2>2. QED
        BY <1>9, <1>14, <2>1 DEF Tree, Sized
<1>22. ~IsFull(g, n) /\ ~IsFull(g, new)
    BY <1>13, <1>16, <1>21, NodeValuesAssumption DEF IsFull
<1>23. PICK c \in Nat : c = NodeValues - (k + 1)
    BY <1>13, NodeValuesAssumption
<1>24. Count(g, n) = k
    BY <1>16
<1>25. s = IF i > Count(g, n) THEN Slot(new, i - Count(g, n) - 1) ELSE f
    BY <1>2, <1>7, <1>24 DEF Halved
<1>26. CASE i > k
    <2>1. PICK d : d = i - k - 1
        OBVIOUS
    <2>2. PICK j \in Nat : j = d /\ j = i - k - 1
        BY <1>7, <1>13, <1>26, <2>1
    <2>3. s = Slot(new, j)
        <3>1. s = Slot(new, i - Count(g, n) - 1)
            BY <1>25, <1>24, <1>26
        <3>2. i - Count(g, n) - 1 = d
            BY <1>24, <2>1
        <3>3. s = Slot(new, d) /\ d = j
            BY <2>2, <3>1, <3>2
        <3>4. QED
            BY <3>3
    <2>4. j <= c /\ j + (k + 1) = i
        BY <1>7, <1>13, <1>23, <2>2, NodeValuesAssumption
    <2>5. ~heap[n].leaf => Child(g, new, j) = Child(heap, n, i)
        BY <1>17, <1>23, <2>4
    <2>6. Roomy(heap, g, root, n, i, new, j)
        <3>1. Count(g, new) = c /\ g[new].leaf = heap[n].leaf
            BY <1>16, <1>23
        <3>2. QED
            BY <1>21, <1>22, <2>2, <2>4, <2>5, <3>1 DEF Roomy
    <2>7. Count(g, n) # 0
        BY <1>13, <1>16, <1>26
    <2>8. \A x \in DOMAIN g : Count(g, x) # 0 \/ x = new
        BY <1>20, <2>7
    <2>9. QED
        BY <1>3, <1>5, <1>6, <1>7, <1>14, <1>18, <1>19, <2>3, <2>6, <2>8,
           RoomAtKeeps
<1>27. CASE ~(i > k)
    <2>1. s = Slot(n, i)
        BY <1>25, <1>24, <1>7, <1>27
    <2>2. i \in 0..k /\ i \in Nat /\ i <= k
        BY <1>7, <1>13, <1>27
    <2>3. ~heap[n].leaf => Child(g, n, i) = Child(heap, n, i)
        BY <1>17, <2>2
    <2>4. Roomy(heap, g, root, n, i, n, i)
        <3>1. g[n].leaf = heap[n].leaf
            BY <1>7, <1>16
        <3>2. i <= Count(g, n)
            BY <1>24, <2>2
        <3>3. QED
            BY <1>9, <1>21, <1>22, <2>2, <2>3, <3>1, <3>2 DEF Roomy
    <2>5. Count(g, new) # 0
        BY <1>13, <1>16, <1>27, NodeValuesAssumption
    <2>6. \A x \in DOMAIN g : Count(g, x) # 0 \/ x = n
        BY <1>20, <2>5
    <2>7. PICK m, j : m = n /\ j = i
        OBVIOUS
    <2>8. s = Slot(m, j) /\ Roomy(heap, g, root, n, i, m, j)
          /\ \A x \in DOMAIN g : Count(g, x) # 0 \/ x = m
        BY <2>1, <2>4, <2>6, <2>7
    <2>9. QED
        BY <1>3, <1>5, <1>6, <1>7, <1>14, <1>18, <1>19, <2>8, RoomAtKeeps
<1>28. QED
    BY <1>26, <1>27

(***************************************************************************)
(* The theorems                                                            *)
(***************************************************************************)

\* It holds at the start.
LEMMA InitHolds == Init => IInv
<1> SUFFICES ASSUME Init
             PROVE  IInv
    OBVIOUS
<1>1. /\ heap = <<>> /\ root = NoNode /\ size = 0 /\ pc = "idle"
      /\ count = 0 /\ erased = 0
    BY DEF Init
<1>2. PICK h : h = <<>>
    OBVIOUS
<1>3. DOMAIN h = {} /\ h = [n \in {} |-> h[n]]
    BY <1>2
<1>4. /\ Standing(h, NoNode, pc, stack) /\ Ended(h, NoNode, rightmost)
      /\ Nonempty(h, NoNode, pc, stack, iter)
    BY <1>3, EmptyStands
<1>5. Called(root, pc, call, source)
    BY <1>1 DEF Called, Inserting, Erasing
<1>6. At(heap, root, pc, stack, iter, res)
    BY <1>1 DEF At
<1>7. Enough(heap, pc, count, erased)
    BY <1>1 DEF Enough, Erasing
<1>8. QED
    BY <1>1, <1>2, <1>4, <1>5, <1>6, <1>7 DEF IInv

\* Steps of insertions keep it.
LEMMA InsertionKeeps ==
    ASSUME IInv, Insertion
    PROVE  IInv'
<1>1. CASE InsertAtHint
    BY <1>1, InsertAtHintKeeps
<1>2. CASE AnswerHint
    BY <1>2, AnswerHintKeeps
<1>3. CASE SearchPlace
    BY <1>3, SearchPlaceKeeps
<1>4. CASE FoundKey
    BY <1>4, FoundKeyKeeps
<1>5. CASE FoundPlace
    BY <1>5, FoundPlaceKeeps
<1>6. CASE InsertIntoLeaf
    BY <1>6, InsertIntoLeafKeeps
<1>7. CASE GrowRoot
    BY <1>7, GrowRootKeeps
<1>8. CASE MakeRoom
    BY <1>8, MakeRoomKeeps
<1>9. CASE InsertIntoRoom
    BY <1>9, InsertIntoRoomKeeps
<1>10. CASE RoomOnLeft
    BY <1>10, RoomOnLeftIs, RoomBesideKeeps
<1>11. CASE RoomOnRight
    BY <1>11, RoomOnRightIs, RoomBesideKeeps
<1>12. CASE AskParent
    BY <1>12, AskParentKeeps
<1>13. CASE NewRootAboveLeaf
    BY <1>13, NewRootAboveLeafKeeps
<1>14. CASE NewNodeBelowRoot
    BY <1>14, NewNodeBelowRootKeeps
<1>15. CASE SplitNode
    BY <1>15, SplitNodeKeeps
<1>16. QED
    BY <1>1, <1>2, <1>3, <1>4, <1>5, <1>6, <1>7, <1>8, <1>9, <1>10, <1>11,
       <1>12, <1>13, <1>14, <1>15 DEF Insertion

\* Steps of erasures keep it.
LEMMA ErasureKeeps ==
    ASSUME IInv, Erasure
    PROVE  IInv'
<1>1. CASE EraseAt
    BY <1>1, EraseAtKeeps
<1>2. CASE EraseKey
    BY <1>2, EraseKeyKeeps
<1>3. CASE RemoveFromLeaf
    BY <1>3, RemoveFromLeafKeeps
<1>4. CASE RootKept
    BY <1>4, RootKeptKeeps
<1>5. CASE LastValueErased
    BY <1>5, LastValueErasedKeeps
<1>6. CASE LeafBecomesRoot
    BY <1>6, LeafBecomesRootKeeps
<1>7. CASE ChildMovesIntoRoot
    BY <1>7, ChildMovesIntoRootKeeps
<1>8. CASE EnoughValues
    BY <1>8, EnoughValuesKeeps
<1>9. CASE MergeLeft
    BY <1>9, MergeLeftIs, MergeKeeps
<1>10. CASE MergeRight
    BY <1>10, MergeRightIs, MergeKeeps
<1>11. CASE TakeFromRight
    BY <1>11, TakeFromRightIs, TakeFromSiblingKeeps
<1>12. CASE TakeFromLeft
    BY <1>12, TakeFromLeftIs, TakeFromSiblingKeeps
<1>13. CASE LeaveUnderfull
    BY <1>13, LeaveUnderfullKeeps
<1>14. CASE Advance
    BY <1>14, AdvanceStepKeeps
<1>15. QED
    BY <1>1, <1>2, <1>3, <1>4, <1>5, <1>6, <1>7, <1>8, <1>9, <1>10, <1>11,
       <1>12, <1>13, <1>14 DEF Erasure

\* Steps of clear and of copies keep it.
LEMMA CopyingKeeps ==
    ASSUME IInv, Copying
    PROVE  IInv'
<1>1. CASE StartCopy
    BY <1>1, StartCopyKeeps
<1>2. CASE CopyFirst
    BY <1>2, CopyFirstKeeps
<1>3. CASE CopyNext
    BY <1>3, CopyNextKeeps
<1>4. CASE CopyEnd
    BY <1>4, CopyEndKeeps
<1>5. QED
    BY <1>1, <1>2, <1>3, <1>4 DEF Copying

\* Stuttering keeps it.
LEMMA StutterKeeps ==
    ASSUME IInv, UNCHANGED vars
    PROVE  IInv'
<1>1. /\ heap' = heap /\ root' = root /\ rightmost' = rightmost /\ size' = size
      /\ pc' = pc /\ call' = call /\ iter' = iter /\ stack' = stack
            /\ res' = res
      /\ count' = count /\ erased' = erased /\ source' = source
    BY DEF vars, tree
<1>2. Standing(heap', root', pc', stack') /\ Ended(heap', root', rightmost')
    BY <1>1 DEF IInv
<1>3. Nonempty(heap', root', pc', stack', iter')
      /\ Called(root', pc', call', source')
    BY <1>1 DEF IInv
<1>4. At(heap', root', pc', stack', iter', res')
      /\ Enough(heap', pc', count', erased')
    BY <1>1 DEF IInv
<1>5. QED
    BY <1>1, <1>2, <1>3, <1>4 DEF IInv

\* Each step keeps it.
LEMMA StepKeeps == IInv /\ [Next]_vars => IInv'
<1> SUFFICES ASSUME IInv, [Next]_vars
             PROVE  IInv'
    OBVIOUS
<1>1. CASE Ask
    BY <1>1, AskKeeps
<1>2. CASE Return
    BY <1>2, ReturnKeeps
<1>3. CASE Insertion
    BY <1>3, InsertionKeeps
<1>4. CASE Erasure
    BY <1>4, ErasureKeeps
<1>5. CASE Clear
    BY <1>5, ClearKeeps
<1>6. CASE Copying
    BY <1>6, CopyingKeeps
<1>7. CASE UNCHANGED vars
    BY <1>7, StutterKeeps
<1>8. QED
    BY <1>1, <1>2, <1>3, <1>4, <1>5, <1>6, <1>7 DEF Next

\* The inductive invariant holds in every reachable state.
LEMMA TreeInvariant == Spec => []IInv
<1>1. QED
    BY InitHolds, StepKeeps, PTL DEF Spec

\* The chain of frames has the assertions in it.
LEMMA RoomFollows == IInv => RoomIsMade
<1> SUFFICES ASSUME IInv
             PROVE  RoomIsMade
    OBVIOUS
<1>1. ASSUME pc \in {"make_room", "split"}
      PROVE  IsFull(heap, Head(stack).node)
    <2>1. PICK lv, S : Tree(heap, root, lv, S) /\ Chain(heap, stack, lv)
        BY <1>1, MakingRoom
    <2>2. QED
        BY <2>1, FrameOf
<1>2. pc = "split" => ~IsFull(heap, heap[Head(stack).node].parent)
    BY DEF IInv, At
<1>3. ASSUME pc = "room"
      PROVE  /\ heap[iter.node].leaf /\ ~IsFull(heap, iter.node)
             /\ iter.position \in 0..Count(heap, iter.node)
    <2>1. LeafPlaceOf(heap, iter) /\ ~IsFull(heap, iter.node)
        BY <1>3 DEF IInv, At
    <2>2. PICK n \in DOMAIN heap, i \in Nat :
             iter = Slot(n, i) /\ heap[n].leaf /\ i <= Count(heap, n)
        BY <2>1 DEF LeafPlaceOf
    <2>3. iter.node = n /\ iter.position = i
        BY <2>2, SlotIs
    <2>4. Heap(heap)
        BY <1>3 DEF IInv, Standing, Called, Inserting, Tree
    <2>5. Count(heap, n) \in Nat
        BY <2>4, CountIs
    <2>6. i \in 0..Count(heap, n)
        BY <2>2, <2>5
    <2>7. QED
        BY <2>1, <2>2, <2>3, <2>6
<1>4. QED
    BY <1>1, <1>2, <1>3 DEF RoomIsMade, Frame

\* A tree is balanced.
LEMMA BalanceFollows == IInv => Balanced
<1> SUFFICES ASSUME IInv, pc = "idle"
             PROVE  /\ Cardinality(DOMAIN heap) = Len(Nodes(heap, root))
                    /\ DOMAIN heap = Range(Nodes(heap, root))
                    /\ \A n \in DOMAIN heap :
                          /\ heap[n].leaf
                                => Height(heap, n) = Height(heap, Leftmost)
                          /\ ~heap[n].leaf =>
                                Len(heap[n].children) = Count(heap, n) + 1
                          /\ n # root => heap[n].max_count = NodeValues
    BY DEF Balanced
<1>1. CASE root = NoNode
    <2>1. DOMAIN heap = {}
        BY <1>1 DEF IInv, Standing
    <2>2. Nodes(heap, root) = <<>>
        BY <1>1 DEF Nodes
    <2>3. Cardinality(DOMAIN heap) = 0
        BY <2>1, FS_EmptySet
    <2>4. Range(<<>>) = {} /\ Len(<<>>) = 0
        BY DEF Range
    <2>5. QED
        BY <2>1, <2>2, <2>3, <2>4
<1>2. CASE root # NoNode
    <2>1. PICK lv, S : Tree(heap, root, lv, S)
        BY <1>2 DEF IInv, Standing
    <2>2. PICK nodes : nodes = Nodes(heap, root)
        OBVIOUS
    <2>3. Enum(nodes, DOMAIN heap)
        BY <2>1, <2>2, NodesAre
    <2>4. Cardinality(DOMAIN heap) = Len(nodes)
        BY <2>3, EnumCounts
    <2>5. DOMAIN heap = Range(nodes)
        <3>1. nodes \in Seq(DOMAIN heap)
              /\ \A x \in DOMAIN heap : \E i \in 1..Len(nodes) : nodes[i] = x
            BY <2>3 DEF Enum
        <3>2. DOMAIN nodes = 1..Len(nodes)
              /\ \A i \in 1..Len(nodes) : nodes[i] \in DOMAIN heap
            BY <3>1
        <3>3. QED
            BY <3>1, <3>2 DEF Range
    <2>6. Leftmost \in DOMAIN heap /\ heap[Leftmost].leaf
        BY <1>2, <2>1 DEF Tree, Leftmost
    <2>7. \A n \in DOMAIN heap : heap[n].leaf => lv[n] = 0
        BY <2>1 DEF Tree, Sized
    <2>8. ASSUME NEW n \in DOMAIN heap, heap[n].leaf
          PROVE  Height(heap, n) = Height(heap, Leftmost)
        <3>1. Height(heap, n) = lv[root] - lv[n]
            BY <2>1, HeightIs
        <3>2. Height(heap, Leftmost) = lv[root] - lv[Leftmost]
            BY <2>1, <2>6, HeightIs
        <3>3. QED
            BY <2>6, <2>7, <2>8, <3>1, <3>2
    <2>9. \A n \in DOMAIN heap : ~heap[n].leaf =>
                                    Len(heap[n].children) = Count(heap, n) + 1
        BY <2>1 DEF Tree, Children
    <2>10. \A n \in DOMAIN heap : n # root => heap[n].max_count = NodeValues
        BY <2>1 DEF Tree, Sized
    <2>11. QED
        BY <2>2, <2>4, <2>5, <2>8, <2>9, <2>10
<1>3. QED
    BY <1>1, <1>2

\* The assertions of internal_insert and rebalance_or_split
\* (glibs/btree.h:1989-2069, 1421) hold for every size of the nodes, however
\* deep the recursion goes: room is made on full nodes only, a split finds room
\* in the parent, and when the recursion is over the value has a place in a
\* leaf with room.
THEOREM RoomIsAlwaysMade == Spec => []RoomIsMade
<1>1. QED
    BY TreeInvariant, RoomFollows, PTL

\* Between calls the tree is balanced, whatever was inserted, erased and copied
\* before: splits, merges and changes of the root (glibs/btree.h:1989-2199)
\* lose no node, leave all leaves at one depth, give an internal node one child
\* more than it has values and leave no node but a root that is a leaf at less
\* than full size.
THEOREM TreeStaysBalanced == Spec => []Balanced
<1>1. QED
    BY TreeInvariant, BalanceFollows, PTL
=============================================================================

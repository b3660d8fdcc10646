-------------------------- MODULE BTreeOrderProofs --------------------------
(***************************************************************************)
(* The order of the values: every step of BTree keeps the contents of the  *)
(* tree in the order of their keys and changes them as the call asks, so   *)
(* the tree implements the ordered multimap.                               *)
(***************************************************************************)
EXTENDS BTreeContentsProofs

(***************************************************************************)
(* Steps that leave the tree as it is                                      *)
(***************************************************************************)

\* Nothing but the tree counts between the steps of these names.
LEMMA MeantNext ==
    ASSUME NEW C, NEW x, NEW step, NEW asked, NEW all, NEW gone,
           Meant(C, x, step, asked, <<>>, all, gone),
           NEW next \in {"done", "idle", "search"}, NEW asked2, NEW all2,
           NEW gone2, next = "idle" => gone2 = 0,
           next = "search" => asked2.kind # "copy" /\ NoHint(C, asked2), NEW y
    PROVE  Meant(C, y, next, asked2, <<>>, all2, gone2)
BY DEF Meant, Erasing, InPlace

\* The tree is left as it is, and so is what it holds.
TreeStays ==
    heap' = heap /\ root' = root /\ rightmost' = rightmost /\ size' = size

LEMMA QuietNext ==
    ASSUME NEW C, NEW lo, NEW hi, NEW x, State(C, lo, hi, x), TreeStays,
           pc' \in {"done", "idle", "search"}, source = <<>>, source' = source,
           pc' = "idle" => erased' = 0,
           pc' = "search" => call'.kind # "copy" /\ NoHint(C, call')
    PROVE  Holding(C)'
<1>1. C \in Seq(Values) /\ Kept(heap, root, rightmost, size, lo, hi, C)
      /\ Meant(C, x, pc, call, <<>>, count, erased)
    BY StateIs
<1>2. Kept(heap', root', rightmost', size', lo, hi, C)
    BY <1>1 DEF TreeStays
<1>3. PICK y : y = 0
    OBVIOUS
<1>4. Meant(C, y, pc', call', <<>>, count', erased')
    BY <1>1, MeantNext
<1>5. Works(heap', lo, hi, pc', stack', iter', res', internal_delete', y)
    BY <1>3 DEF Works
<1>6. QED
    BY <1>1, <1>2, <1>4, <1>5, StateNext

\* The call returns the place y.
LEMMA QuietAnswers ==
    ASSUME NEW C, NEW lo, NEW hi, NEW x, State(C, lo, hi, x), TreeStays,
           pc' = "done", source = <<>>, source' = source, root # NoNode,
           NEW y \in 0..Len(C), Names(heap, root, lo, hi, C, res', y)
    PROVE  Answering(C, y)'
<1>1. C \in Seq(Values) /\ Kept(heap, root, rightmost, size, lo, hi, C)
      /\ Meant(C, x, pc, call, <<>>, count, erased)
    BY StateIs
<1>2. Kept(heap', root', rightmost', size', lo, hi, C)
    BY <1>1 DEF TreeStays
<1>3. PICK z : z = 0
    OBVIOUS
<1>4. Meant(C, z, pc', call', source', count', erased')
    BY <1>1, MeantNext
<1>5. Works(heap', lo, hi, pc', stack', iter', res', internal_delete', z)
    BY <1>3 DEF Works
<1>6. State(C, lo, hi, z)'
    BY <1>1, <1>2, <1>4, <1>5 DEF State
<1>7. root' # NoNode /\ Names(heap', root', lo, hi, C, res', y)
    BY DEF TreeStays
<1>8. QED
    BY <1>6, <1>7 DEF Answering

LEMMA ReturnOrders ==
    ASSUME IInv, NEW C, Holding(C), Return
    PROVE  Holding(C)'
<1>1. PICK lo, hi, x : State(C, lo, hi, x)
    BY DEF Holding
<1>2. TreeStays /\ pc' = "idle" /\ erased' = 0 /\ source' = source
      /\ pc = "done"
    BY DEF Return, tree, TreeStays
<1>3. source = <<>>
    BY <1>1, <1>2, StateIs DEF InPlace
<1>4. QED
    BY <1>1, <1>2, <1>3, QuietNext

LEMMA AnswerHintOrders ==
    ASSUME IInv, NEW C, Holding(C), AnswerHint
    PROVE  Holding(C)'
<1>1. PICK lo, hi, x : State(C, lo, hi, x)
    BY DEF Holding
<1>2. TreeStays /\ pc' = "done" /\ source' = source /\ pc = "called"
    BY DEF AnswerHint, tree, TreeStays
<1>3. source = <<>>
    BY <1>1, <1>2, StateIs DEF InPlace
<1>4. QED
    BY <1>1, <1>2, <1>3, QuietNext

LEMMA FoundKeyOrders ==
    ASSUME IInv, NEW C, Holding(C), FoundKey
    PROVE  Holding(C)'
<1>1. PICK lo, hi, x : State(C, lo, hi, x)
    BY DEF Holding
<1>2. TreeStays /\ pc' = "done" /\ source' = source /\ pc = "search"
    BY DEF FoundKey, tree, TreeStays
<1>3. source = <<>>
    BY <1>1, <1>2, StateIs DEF InPlace
<1>4. QED
    BY <1>1, <1>2, <1>3, QuietNext

LEMMA CopyEndOrders ==
    ASSUME IInv, NEW C, Holding(C), CopyEnd
    PROVE  Holding(C)'
<1>1. PICK lo, hi, x : State(C, lo, hi, x)
    BY DEF Holding
<1>2. TreeStays /\ pc' = "done" /\ source' = source /\ source = <<>>
    BY DEF CopyEnd, tree, TreeStays
<1>3. QED
    BY <1>1, <1>2, QuietNext

\* The key of a call is one of a value.
LEMMA CallKeys ==
    ASSUME NEW n \in Int, NEW c \in M!Calls(n), c.kind = "erase_key"
    PROVE  c.key \in Int
<1>1. c.key \in M!Keys
    BY DEF M!Calls
<1>2. QED
    BY <1>1, KeyOfAssumption DEF M!Keys

LEMMA AskOrders ==
    ASSUME IInv, NEW C, Holding(C), Ask
    PROVE  Holding(C)'
<1>1. PICK lo, hi, x : State(C, lo, hi, x)
    BY DEF Holding
<1>2. /\ TreeStays /\ pc' = "called" /\ source' = source /\ pc = "idle"
      /\ count' = count /\ erased' = erased /\ call' \in M!Calls(Size)
    BY DEF Ask, tree, TreeStays
<1>3. C \in Seq(Values) /\ Kept(heap, root, rightmost, size, lo, hi, C)
      /\ Meant(C, x, pc, call, source, count, erased) /\ source = <<>>
      /\ Len(C) \in Nat
    BY <1>1, <1>2, StateIs DEF InPlace
<1>4. Size = Len(C)
    BY <1>1, ContentsAreHeld
<1>5. PICK n \in Int : n = Size /\ n = Len(C)
    BY <1>3, <1>4
<1>6. PICK c \in M!Calls(n) : c = call'
    BY <1>2, <1>5
<1>7. /\ c.kind = "erase" => c.at \in 0..(n - 1)
      /\ c.kind = "insert_hint" => c.at \in 0..n
      /\ c.kind = "erase_key" => c.key \in Int
    BY CallsAre, CallKeys
<1>8. Kept(heap', root', rightmost', size', lo, hi, C)
    BY <1>2, <1>3 DEF TreeStays
<1>9. Works(heap', lo, hi, pc', stack', iter', res', internal_delete', 0)
    BY <1>2 DEF Works
<1>10. Meant(C, 0, pc', call', source', count', erased')
    BY <1>2, <1>3, <1>5, <1>6, <1>7 DEF Meant, Erasing, InPlace
<1>11. QED
    BY <1>3, <1>8, <1>9, <1>10, StateNext

LEMMA EraseAtOrders ==
    ASSUME IInv, NEW C, Holding(C), EraseAt
    PROVE  Holding(C)'
<1>1. PICK lo, hi, x : State(C, lo, hi, x)
    BY DEF Holding
<1>2. /\ TreeStays /\ pc' = "erase" /\ source' = source /\ pc = "called"
      /\ call.kind = "erase" /\ call' = call /\ iter' = IteratorAt(call.at)
      /\ count' = 1 /\ erased' = erased
    BY DEF EraseAt, tree, TreeStays
<1>3. C \in Seq(Values) /\ Kept(heap, root, rightmost, size, lo, hi, C)
      /\ Meant(C, x, pc, call, source, count, erased) /\ source = <<>>
      /\ Len(C) \in Nat
    BY <1>1, <1>2, StateIs DEF InPlace
<1>4. root # NoNode
    BY <1>2 DEF IInv, Called
<1>5. PICK y \in 0..(Len(C) - 1) : y = call.at
    BY <1>2, <1>3 DEF Meant
<1>6. y \in 0..Len(C) /\ y # Len(C)
    BY <1>3, <1>5
<1>7. Names(heap, root, lo, hi, C, IteratorAt(y), y)
    BY <1>1, <1>4, <1>6, IteratorHeld
<1>8. HasNumber(heap, lo, hi, iter', y)
    BY <1>2, <1>5, <1>6, <1>7 DEF Names
<1>9. Kept(heap', root', rightmost', size', lo, hi, C)
    BY <1>2, <1>3 DEF TreeStays
<1>10. Works(heap', lo, hi, pc', stack', iter', res', internal_delete', y)
    BY <1>2, <1>8 DEF Works, TreeStays
<1>11. Due(C, pc', call', count', erased', y)
    BY <1>2, <1>3, <1>5 DEF Due, Meant
<1>12. Meant(C, y, pc', call', source', count', erased')
    BY <1>2, <1>3, <1>11 DEF Meant, Erasing, InPlace
<1>13. QED
    BY <1>3, <1>9, <1>10, <1>12, StateNext

\* The way up goes on or ends, and the iterator stays.
LEMMA RisesOrders ==
    ASSUME IInv, NEW C, Holding(C), TreeStays, pc = "rebalance", pc' = "advance",
           res' = res, internal_delete' = internal_delete, call' = call,
           source' = source, count' = count, erased' = erased
    PROVE  Holding(C)'
<1>1. PICK lo, hi, x : State(C, lo, hi, x)
    BY DEF Holding
<1>2. C \in Seq(Values) /\ Kept(heap, root, rightmost, size, lo, hi, C)
      /\ Works(heap, lo, hi, pc, stack, iter, res, internal_delete, x)
      /\ Meant(C, x, pc, call, source, count, erased)
    BY <1>1, StateIs
<1>3. Kept(heap', root', rightmost', size', lo, hi, C)
    BY <1>2 DEF TreeStays
<1>4. Works(heap', lo, hi, pc', stack', iter', res', internal_delete', x)
    BY <1>2 DEF Works, TreeStays
<1>5. Due(C, pc', call', count', erased', x)
    BY <1>2 DEF Due, Meant, Erasing
<1>6. Meant(C, x, pc', call', source', count', erased')
    BY <1>2, <1>5 DEF Meant, Erasing, InPlace
<1>7. QED
    BY <1>2, <1>3, <1>4, <1>6, StateNext

LEMMA RootKeptOrders ==
    ASSUME IInv, NEW C, Holding(C), RootKept
    PROVE  Holding(C)'
BY RisesOrders DEF RootKept, RootReached, tree, TreeStays

LEMMA EnoughValuesOrders ==
    ASSUME IInv, NEW C, Holding(C), EnoughValues
    PROVE  Holding(C)'
BY RisesOrders DEF EnoughValues, tree, TreeStays

LEMMA LeaveUnderfullOrders ==
    ASSUME IInv, NEW C, Holding(C), LeaveUnderfull
    PROVE  Holding(C)'
<1>1. /\ TreeStays /\ pc = "rebalance" /\ pc' = "advance"
      /\ res' = IF heap[iter.node].leaf THEN iter ELSE res
      /\ internal_delete' = internal_delete /\ call' = call
      /\ source' = source /\ count' = count /\ erased' = erased
    BY DEF LeaveUnderfull, Underfull, EndsAt, TreeStays
<1>2. heap[iter.node].leaf => iter = res
    BY <1>1, OnTheWayUp
<1>3. res' = res
    BY <1>1, <1>2
<1>4. QED
    BY <1>1, <1>3, RisesOrders

(***************************************************************************)
(* The place of insertion, in order                                        *)
(***************************************************************************)

\* The tests on a hint say whether the value fits there.
LEMMA HintHeld ==
    ASSUME IInv, NEW C, NEW lo, NEW hi, NEW x, State(C, lo, hi, x),
           root # NoNode, \A n \in DOMAIN heap : Count(heap, n) # 0,
           call.kind # "copy", call.value \in Values,
           NEW y, y \in 0..Len(C), NEW s, s = IteratorAt(y)
    PROVE  /\ FitsBefore(s) <=> FitsIn(C, call.value, y)
           /\ FitsAfter(s) => /\ y < Len(C)
                              /\ KeyOf[C[y + 1]] < KeyOf[call.value]
                              /\ FitsIn(C, call.value, y + 1)
                              /\ Names(heap, root, lo, hi, C,
                                       Increment(heap, s), y + 1)
<1>1. PICK lv, S : HeldBy(C, lo, hi, lv, S)
    BY TreeHeld
<1>2. Tree(heap, root, lv, S) /\ Holds(heap, root, lo, hi, C)
    BY <1>1 DEF HeldBy
<1>3. /\ C \in Seq(Values) /\ Len(C) \in Nat /\ Ordered(C \o source)
      /\ source = <<>>
    BY StateIs
<1>4. Ordered(C) /\ y \in Nat /\ y \in Int
    BY <1>3
<1>5. Key = KeyOf[call.value] /\ Key \in Int
    BY KeyOfAssumption DEF Key, Value
<1>6. \A j \in 1..Len(C) : KeyOf[C[j]] \in Int
    BY <1>3, KeyOfAssumption
<1>7. Names(heap, root, lo, hi, C, s, y)
    BY IteratorHeld
<1>8. s # End <=> y < Len(C)
    <2>1. y = Len(C) => s = End
        BY <1>7, EndHeld DEF Names
    <2>2. s = End => y = Len(C)
        BY <1>2, <1>7, EndHeld, NamesOnce
    <2>3. QED
        BY <1>3, <2>1, <2>2
<1>9. s # Begin <=> y > 0
    <2>1. Names(heap, root, lo, hi, C, Begin, 0)
        BY BeginHeld
    <2>2. s = Begin <=> y = 0
        BY <1>2, <1>7, <2>1, NamesOnce
    <2>3. QED
        BY <1>4, <2>2
<1>10. ASSUME y < Len(C)
       PROVE  /\ KeyAt(s) = KeyOf[C[y + 1]] /\ KeyAt(s) \in Int
              /\ HasNumber(heap, lo, hi, s, y)
    <2>1. HasNumber(heap, lo, hi, s, y)
        BY <1>3, <1>7, <1>10 DEF Names
    <2>2. KeyOf[ValueAt(heap, s)] = KeyOf[C[y + 1]]
        BY <2>1, KeyOfNumber
    <2>3. y + 1 \in 1..Len(C)
        BY <1>3, <1>4, <1>10
    <2>4. QED
        BY <1>6, <2>1, <2>2, <2>3 DEF KeyAt
<1>11. ASSUME y > 0
       PROVE  KeyAt(Decrement(heap, s)) = KeyOf[C[y]]
    <2>1. PICK z \in Int : z = y - 1
        BY <1>4
    <2>2. HasNumber(heap, lo, hi, Decrement(heap, s), z)
        BY <1>2, <1>4, <1>7, <1>11, <2>1, DecrementNumber
    <2>3. KeyAt(Decrement(heap, s)) = KeyOf[C[z + 1]]
        BY <2>2, KeyOfNumber DEF KeyAt
    <2>4. z + 1 = y
        BY <1>4, <2>1
    <2>5. QED
        BY <2>3, <2>4
<1>12. FitsBefore(s) <=> FitsIn(C, call.value, y)
    <2>1. FitsIn(C, call.value, y) <=>
             /\ y < Len(C) => Goes(call.value, C[y + 1])
             /\ y > 0 => Goes(C[y], call.value)
        BY <1>3, <1>4, FitsNear
    <2>2. FitsBefore(s) <=>
             /\ y < Len(C) => Goes(call.value, C[y + 1])
             /\ y > 0 => Goes(C[y], call.value)
        <3>1. FitsBefore(s) <=>
                 IF Unique
                 THEN /\ s # End => Key < KeyAt(s)
                      /\ s # Begin => KeyAt(Decrement(heap, s)) < Key
                 ELSE /\ s # End => Key <= KeyAt(s)
                      /\ s # Begin => KeyAt(Decrement(heap, s)) <= Key
            BY DEF FitsBefore
        <3>2. /\ y < Len(C) => KeyAt(s) = KeyOf[C[y + 1]]
              /\ y > 0 => KeyAt(Decrement(heap, s)) = KeyOf[C[y]]
            BY <1>10, <1>11
        <3>3. Key = KeyOf[call.value]
            BY <1>5
        <3>4. QED
            BY <1>8, <1>9, <3>1, <3>2, <3>3 DEF Goes
    <2>3. QED
        BY <2>1, <2>2
<1>13. ASSUME FitsAfter(s)
       PROVE  /\ y < Len(C) /\ KeyOf[C[y + 1]] < KeyOf[call.value]
              /\ FitsIn(C, call.value, y + 1)
              /\ Names(heap, root, lo, hi, C, Increment(heap, s), y + 1)
    <2>1. PICK next : next = Increment(heap, s)
        OBVIOUS
    <2>2. /\ s # End /\ KeyAt(s) < Key
          /\ next # End => IF Unique THEN Key < KeyAt(next)
                           ELSE Key <= KeyAt(next)
        BY <1>13, <2>1 DEF FitsAfter
    <2>3. y < Len(C)
        BY <1>8, <2>2
    <2>4. KeyAt(s) = KeyOf[C[y + 1]] /\ HasNumber(heap, lo, hi, s, y)
        BY <1>10, <2>3
    <2>5. Names(heap, root, lo, hi, C, next, y + 1)
        BY <1>2, <1>4, <2>1, <2>4, IncrementNumber
    <2>6. PICK z \in 0..Len(C) : z = y + 1 /\ z > 0 /\ z \in Nat
        BY <1>3, <1>4, <2>3
    <2>7. z < Len(C) => Goes(call.value, C[z + 1])
        <3>1. SUFFICES ASSUME z < Len(C) PROVE Goes(call.value, C[z + 1])
            OBVIOUS
        <3>2. HasNumber(heap, lo, hi, next, z) /\ z # Len(C)
            BY <1>3, <2>5, <2>6, <3>1 DEF Names
        <3>3. KeyAt(next) = KeyOf[C[z + 1]]
            BY <3>2, KeyOfNumber DEF KeyAt
        <3>4. next # End
            <4>1. Names(heap, root, lo, hi, C, End, Len(C))
                BY EndHeld
            <4>2. next = End => z = Len(C)
                BY <1>2, <2>5, <2>6, <4>1, NamesOnce
            <4>3. QED
                BY <3>2, <4>2
        <3>5. QED
            BY <1>5, <2>2, <3>3, <3>4 DEF Goes
    <2>8. Goes(C[z], call.value)
        <3>1. KeyOf[C[z]] < KeyOf[call.value]
            BY <1>5, <2>2, <2>4, <2>6
        <3>2. KeyOf[C[z]] \in Int /\ KeyOf[call.value] \in Int
            BY <1>5, <1>6, <2>6
        <3>3. QED
            BY <3>1, <3>2 DEF Goes
    <2>9. FitsIn(C, call.value, z)
        BY <1>3, <1>4, <2>7, <2>8, FitsNear
    <2>10. QED
        BY <1>5, <2>1, <2>2, <2>3, <2>4, <2>5, <2>6, <2>9
<1>14. QED
    BY <1>12, <1>13

\* The place of insertion has the number y.
LEMMA InsertAtOrders ==
    ASSUME IInv, NEW C, NEW lo, NEW hi, NEW x, State(C, lo, hi, x),
           root # NoNode, NEW s, InsertAtSlot(s),
           NEW y, y \in 0..Len(C), Gap(lo, LeafPlace(s)) = y,
           IF call.kind = "copy" THEN y = Len(C) ELSE Stands(C, call, y)
    PROVE  Holding(C)'
<1>1. /\ pc' = "insert" /\ TreeStays /\ source' = source
      /\ erased' = erased /\ count' = count /\ call' = call
      /\ iter' = LeafPlace(s)
    BY DEF InsertAtSlot, tree, TreeStays
<1>2. C \in Seq(Values) /\ Kept(heap, root, rightmost, size, lo, hi, C)
      /\ Meant(C, x, pc, call, source, count, erased) /\ Len(C) \in Nat
    BY StateIs
<1>3. Kept(heap', root', rightmost', size', lo, hi, C)
    BY <1>1, <1>2 DEF TreeStays
<1>4. Works(heap', lo, hi, pc', stack', iter', res', internal_delete', y)
    BY <1>1, <1>2 DEF Works
<1>5. Meant(C, y, pc', call', source', count', erased')
    BY <1>1, <1>2 DEF Meant, InPlace, Erasing
<1>6. QED
    BY <1>2, <1>3, <1>4, <1>5, StateNext

LEMMA CopyNextOrders ==
    ASSUME IInv, NEW C, Holding(C), CopyNext
    PROVE  Holding(C)'
<1>1. PICK lo, hi, x : State(C, lo, hi, x)
    BY DEF Holding
<1>2. pc = "copy" /\ source # <<>> /\ root # NoNode /\ InsertAtSlot(End)
    BY DEF CopyNext
<1>3. call.kind = "copy"
    BY <1>2 DEF IInv, Called
<1>4. PICK lv, S : HeldBy(C, lo, hi, lv, S)
    BY <1>1, <1>2, TreeHeld
<1>5. Tree(heap, root, lv, S) /\ Holds(heap, root, lo, hi, C)
    BY <1>4 DEF HeldBy
<1>6. Names(heap, root, lo, hi, C, End, Len(C))
    BY <1>1, <1>2, EndHeld
<1>7. Gap(lo, LeafPlace(End)) = Len(C)
    BY <1>5, <1>6, LeafPlaceGap
<1>8. Len(C) \in 0..Len(C)
    BY <1>5 DEF Holds
<1>9. QED
    BY <1>1, <1>2, <1>3, <1>7, <1>8, InsertAtOrders

LEMMA InsertAtHintOrders ==
    ASSUME IInv, NEW C, Holding(C), InsertAtHint
    PROVE  Holding(C)'
<1>1. PICK lo, hi, x : State(C, lo, hi, x)
    BY DEF Holding
<1>2. pc = "called" /\ root # NoNode /\ call.kind = "insert_hint"
    BY DEF InsertAtHint
<1>3. call.value \in Values /\ call.kind # "copy" /\ call.kind # "insert"
    BY <1>2 DEF IInv, Called
<1>4. Len(C) \in Nat /\ Meant(C, x, pc, call, source, count, erased)
      /\ C \in Seq(Values)
    BY <1>1, StateIs
<1>5. PICK y \in 0..Len(C) : y = call.at
    BY <1>2, <1>4 DEF Meant
<1>6. PICK hint : hint = IteratorAt(y)
    OBVIOUS
<1>7. \/ FitsBefore(hint) /\ InsertAtSlot(hint)
      \/ FitsAfter(hint) /\ InsertAtSlot(Increment(heap, hint))
    BY <1>5, <1>6 DEF InsertAtHint
<1>8. \A n \in DOMAIN heap : Count(heap, n) # 0
    BY <1>2, NoneEmpty
<1>9. /\ FitsBefore(hint) <=> FitsIn(C, call.value, y)
      /\ FitsAfter(hint) => /\ y < Len(C)
                            /\ KeyOf[C[y + 1]] < KeyOf[call.value]
                            /\ FitsIn(C, call.value, y + 1)
                            /\ Names(heap, root, lo, hi, C,
                                     Increment(heap, hint), y + 1)
    BY <1>1, <1>2, <1>3, <1>6, <1>8, HintHeld
<1>10. PICK lv, S : HeldBy(C, lo, hi, lv, S)
    BY <1>1, <1>2, TreeHeld
<1>11. Tree(heap, root, lv, S) /\ Holds(heap, root, lo, hi, C)
    BY <1>10 DEF HeldBy
<1>12. CASE FitsBefore(hint) /\ InsertAtSlot(hint)
    <2>1. Names(heap, root, lo, hi, C, hint, y)
        BY <1>1, <1>2, <1>6, IteratorHeld
    <2>2. Gap(lo, LeafPlace(hint)) = y
        BY <1>11, <2>1, LeafPlaceGap
    <2>3. Stands(C, call, y)
        BY <1>2, <1>3, <1>5, <1>9, <1>12 DEF Stands
    <2>4. QED
        BY <1>1, <1>2, <1>3, <1>12, <2>2, <2>3, InsertAtOrders
<1>13. CASE FitsAfter(hint) /\ InsertAtSlot(Increment(heap, hint))
    <2>1. PICK z : z = y + 1
        OBVIOUS
    <2>2. z \in 0..Len(C) /\ y + 1 \in 1..Len(C) /\ ~(y + 1 <= y)
        BY <1>4, <1>9, <1>13, <2>1
    <2>3. Gap(lo, LeafPlace(Increment(heap, hint))) = z
        BY <1>9, <1>11, <1>13, <2>1, LeafPlaceGap
    <2>4. ~Unique => ~FitsIn(C, call.value, y)
        <3>1. SUFFICES ASSUME ~Unique, FitsIn(C, call.value, y) PROVE FALSE
            OBVIOUS
        <3>2. Goes(call.value, C[y + 1])
            BY <2>2, <3>1 DEF FitsIn
        <3>3. KeyOf[call.value] <= KeyOf[C[y + 1]]
            BY <3>1, <3>2 DEF Goes
        <3>4. KeyOf[C[y + 1]] < KeyOf[call.value]
            BY <1>9, <1>13
        <3>5. KeyOf[C[y + 1]] \in Int /\ KeyOf[call.value] \in Int
            BY <1>3, <1>4, <2>2, KeyOfAssumption
        <3>6. QED
            BY <3>3, <3>4, <3>5
    <2>5. FitsIn(C, call.value, z)
        BY <1>9, <1>13, <2>1
    <2>6. Stands(C, call, z)
        BY <1>2, <1>3, <1>5, <2>4, <2>5 DEF Stands
    <2>7. QED
        BY <1>1, <1>2, <1>3, <1>13, <2>2, <2>3, <2>6, InsertAtOrders
<1>14. QED
    BY <1>7, <1>12, <1>13

LEMMA FoundPlaceOrders ==
    ASSUME IInv, NEW C, Holding(C), FoundPlace
    PROVE  Holding(C)'
<1>1. PICK lo, hi, x : State(C, lo, hi, x)
    BY DEF Holding
<1>2. pc = "search"
    BY DEF FoundPlace
<1>3. root # NoNode /\ Valued(call, source)
    BY <1>2 DEF IInv, Called, Inserting
<1>4. /\ Len(C) \in Nat /\ Meant(C, x, pc, call, source, count, erased)
      /\ C \in Seq(Values) /\ source = <<>> /\ Ordered(C \o source)
    BY <1>1, <1>2, StateIs DEF InPlace
<1>5. call.kind # "copy" /\ NoHint(C, call) /\ Ordered(C)
    BY <1>2, <1>4 DEF Meant
<1>6. call.kind \in {"insert", "insert_hint"} /\ call.value \in Values
    BY <1>3, <1>5 DEF Valued
<1>7. PICK k \in Int : k = Key /\ k = KeyOf[call.value]
    BY <1>5, <1>6, KeyOfAssumption DEF Key, Value
<1>8. \A j \in 1..Len(C) : C[j] \in Values /\ KeyOf[C[j]] \in Int
    BY <1>4, KeyOfAssumption
<1>9. PICK lv, S : HeldBy(C, lo, hi, lv, S)
    BY <1>1, <1>3, TreeHeld
<1>10. Tree(heap, root, lv, S) /\ Holds(heap, root, lo, hi, C)
    BY <1>9 DEF HeldBy
<1>11. CASE Unique
    <2>1. PICK g : Cut(C, BelowKey(k), g)
        BY <1>4, <1>5, KeysCut
    <2>2. g \in 0..Len(C) /\ \A j \in 1..Len(C) : C[j] \in BelowKey(k) <=> j <= g
        BY <2>1 DEF Cut
    <2>3. PICK s : s = Locate(heap, root, k)
        OBVIOUS
    <2>4. InsertAtSlot(s) /\ Find(heap, root, k) = NoSlot
        BY <1>7, <1>11, <2>3 DEF FoundPlace
    <2>5. LeafPlaceOf(heap, s) /\ Gap(lo, s) = g
        BY <1>1, <1>3, <2>1, <2>3, LowerHeld DEF Found
    <2>6. LeafPlace(s) = s
        BY <2>5, SlotIs DEF LeafPlaceOf, LeafPlace
    <2>7. ~(g < Len(C) /\ KeyOf[C[g + 1]] <= k)
        <3>1. SUFFICES ASSUME g < Len(C) /\ KeyOf[C[g + 1]] <= k PROVE FALSE
            OBVIOUS
        <3>2. HasNumber(heap, lo, hi, NoSlot, g)
            BY <1>1, <1>3, <2>1, <2>4, <3>1, FindHeld
        <3>3. QED
            BY <1>1, <1>3, <3>2, KeyOfNumber
    <2>8. g < Len(C) => Goes(call.value, C[g + 1])
        <3>1. SUFFICES ASSUME g < Len(C) PROVE Goes(call.value, C[g + 1])
            OBVIOUS
        <3>2. g + 1 \in 1..Len(C)
            BY <1>4, <2>2, <3>1
        <3>3. KeyOf[C[g + 1]] \in Int /\ ~(KeyOf[C[g + 1]] <= k)
            BY <1>8, <2>7, <3>1, <3>2
        <3>4. QED
            BY <1>7, <1>11, <3>3 DEF Goes
    <2>9. g > 0 => Goes(C[g], call.value)
        <3>1. SUFFICES ASSUME g > 0 PROVE Goes(C[g], call.value)
            OBVIOUS
        <3>2. g \in 1..Len(C) /\ g <= g
            BY <1>4, <2>2, <3>1
        <3>3. KeyOf[C[g]] < k
            BY <2>2, <3>2 DEF BelowKey
        <3>4. QED
            BY <1>7, <1>11, <3>3 DEF Goes
    <2>10. FitsIn(C, call.value, g)
        BY <1>4, <1>5, <1>6, <2>2, <2>8, <2>9, FitsNear
    <2>11. Stands(C, call, g)
        BY <1>6, <1>11, <2>10 DEF Stands
    <2>12. QED
        BY <1>1, <1>3, <1>5, <2>2, <2>4, <2>5, <2>6, <2>11, InsertAtOrders
<1>12. CASE ~Unique
    <2>1. PICK g : Cut(C, UpToKey(k), g)
        BY <1>4, <1>5, KeysCut
    <2>2. g \in 0..Len(C) /\ \A j \in 1..Len(C) : C[j] \in UpToKey(k) <=> j <= g
        BY <2>1 DEF Cut
    <2>3. PICK s : s = OrEnd(UpperBound(heap, root, k))
        OBVIOUS
    <2>4. InsertAtSlot(s)
        BY <1>7, <1>12, <2>3 DEF FoundPlace
    <2>5. Names(heap, root, lo, hi, C, s, g)
        BY <1>1, <1>3, <2>1, <2>3, UpperHeld DEF Found
    <2>6. Gap(lo, LeafPlace(s)) = g
        BY <1>10, <2>5, LeafPlaceGap
    <2>7. \A j \in 1..Len(C) : IF j <= g THEN KeyOf[C[j]] <= k ELSE k < KeyOf[C[j]]
        <3>1. ASSUME NEW j \in 1..Len(C)
              PROVE  IF j <= g THEN KeyOf[C[j]] <= k ELSE k < KeyOf[C[j]]
            <4>1. KeyOf[C[j]] <= k <=> j <= g
                BY <1>8, <2>2 DEF UpToKey
            <4>2. KeyOf[C[j]] \in Int
                BY <1>8
            <4>3. QED
                BY <4>1, <4>2
        <3>2. QED
            BY <3>1
    <2>8. FitsIn(C, call.value, g)
        <3>1. \A j \in 1..Len(C) :
                 IF j <= g THEN KeyOf[C[j]] <= k ELSE k <= KeyOf[C[j]]
            BY <1>8, <2>7
        <3>2. QED
            BY <1>7, <1>12, <2>2, <3>1 DEF FitsIn, Goes
    <2>9. \A j \in 1..Len(C) : j > g => KeyOf[call.value] < KeyOf[C[j]]
        BY <1>7, <2>2, <2>7
    <2>10. call.kind = "insert_hint" /\ FitsIn(C, call.value, call.at)
              => g = call.at
        <3>1. SUFFICES ASSUME call.kind = "insert_hint",
                              FitsIn(C, call.value, call.at)
                       PROVE  g = call.at
            OBVIOUS
        <3>2. C = <<>> /\ call.at = 0
            BY <1>5, <1>12, <3>1 DEF NoHint
        <3>3. QED
            BY <2>2, <3>2
    <2>11. Stands(C, call, g)
        BY <1>6, <2>8, <2>9, <2>10 DEF Stands
    <2>12. QED
        BY <1>1, <1>3, <1>5, <2>2, <2>4, <2>6, <2>11, InsertAtOrders
<1>13. QED
    BY <1>11, <1>12

(***************************************************************************)
(* The beginning of a call, in order                                       *)
(***************************************************************************)

\* The first leaf of an empty container.
LEMMA FirstLeafHolds ==
    ASSUME IInv, root = NoNode, NewRoot(NewNode(TRUE, Fresh(heap), 1)), NEW C,
           C = <<>>
    PROVE  /\ C \in Seq(Values) /\ Len(C) = 0
           /\ \E lo, hi : /\ Kept(heap', root', rightmost', size', lo, hi, C)
                          /\ lo[root'] = 0
<1>1. PICK h, n : h = heap' /\ n = root'
    OBVIOUS
<1>2. Lone(h, n, 1, 0)
    BY <1>1, NewRootIs
<1>3. PICK lv : Tree(h, n, lv, {n})
    BY <1>2 DEF Lone
<1>4. n \in DOMAIN h /\ h[n].leaf /\ Count(h, n) = 0
    BY <1>2 DEF Lone
<1>5. h[n].values \in Seq(Values) /\ Len(h[n].values) = 0
    BY <1>3, <1>4, NodeRowIs
<1>6. h[n].values = C
    BY <1>5
<1>7. \E lo, hi : Holds(h, n, lo, hi, C) /\ lo[n] = 0
    BY <1>2, <1>6, LeafHolds
<1>8. \A lo, hi : Holds(h, n, lo, hi, C) => Kept(h, n, rightmost', size', lo, hi, C)
    BY <1>4, <1>3, NodeIs DEF Kept, Tree
<1>9. C \in Seq(Values) /\ Len(C) = 0
    OBVIOUS
<1>10. QED
    BY <1>1, <1>7, <1>8, <1>9

LEMMA SearchPlaceOrders ==
    ASSUME IInv, NEW C, Holding(C), SearchPlace
    PROVE  Holding(C)'
<1>1. PICK lo, hi, x : State(C, lo, hi, x)
    BY DEF Holding
<1>2. /\ pc = "called" /\ pc' = "search" /\ source' = source /\ call' = call
      /\ call.kind \in {"insert", "insert_hint"} /\ call.kind # "copy"
      /\ rightmost' = rightmost /\ size' = size
    BY DEF SearchPlace
<1>3. /\ C \in Seq(Values) /\ Len(C) \in Nat /\ source = <<>>
      /\ Meant(C, x, pc, call, <<>>, count, erased)
    BY <1>1, <1>2, StateIs DEF InPlace
<1>4. call.kind = "insert_hint" => call.at \in 0..Len(C)
    BY <1>2, <1>3 DEF Meant
<1>5. CASE root # NoNode
    <2>1. TreeStays
        BY <1>2, <1>5 DEF SearchPlace, TreeStays
    <2>2. NoHint(C, call')
        <3>1. SUFFICES ASSUME call.kind = "insert_hint"
                       PROVE  ~FitsIn(C, call.value, call.at)
            BY <1>2 DEF NoHint
        <3>2. PICK y \in 0..Len(C) : y = call.at
            BY <1>4, <3>1
        <3>3. ~FitsBefore(IteratorAt(y))
            BY <1>5, <3>1, <3>2 DEF SearchPlace
        <3>4. call.value \in Values
            BY <1>2 DEF IInv, Called
        <3>5. \A n \in DOMAIN heap : Count(heap, n) # 0
            BY <1>2, NoneEmpty
        <3>6. QED
            BY <1>1, <1>2, <1>5, <3>2, <3>3, <3>4, <3>5, HintHeld
    <2>3. QED
        BY <1>1, <1>2, <1>3, <2>1, <2>2, QuietNext
<1>6. CASE root = NoNode
    <2>1. NewRoot(NewNode(TRUE, Fresh(heap), 1))
        BY <1>6 DEF SearchPlace
    <2>2. C = <<>>
        BY <1>1, <1>6, NothingHeld
    <2>3. PICK lo2, hi2 : Kept(heap', root', rightmost', size', lo2, hi2, C)
        BY <1>6, <2>1, <2>2, FirstLeafHolds
    <2>4. NoHint(C, call')
        BY <1>2, <1>4, <2>2 DEF NoHint
    <2>5. Meant(C, 0, pc', call', source', count', erased')
        BY <1>2, <1>3, <2>4, MeantNext
    <2>6. Works(heap', lo2, hi2, pc', stack', iter', res', internal_delete', 0)
        BY <1>2 DEF Works
    <2>7. QED
        BY <1>3, <2>3, <2>5, <2>6, StateNext
<1>7. QED
    BY <1>5, <1>6

LEMMA CopyFirstOrders ==
    ASSUME IInv, NEW C, Holding(C), CopyFirst
    PROVE  Holding(C)'
<1>1. PICK lo, hi, x : State(C, lo, hi, x)
    BY DEF Holding
<1>2. /\ pc = "copy" /\ pc' = "insert" /\ source' = source /\ call' = call
      /\ source # <<>> /\ root = NoNode /\ iter' = Slot(root', 0)
      /\ count' = count /\ erased' = erased
      /\ NewRoot(NewNode(TRUE, Fresh(heap), 1))
    BY DEF CopyFirst
<1>3. Meant(C, x, pc, call, source, count, erased) /\ call.kind = "copy"
    BY <1>1, <1>2, StateIs DEF IInv, Called
<1>4. C = <<>>
    BY <1>1, <1>2, NothingHeld
<1>5. PICK lo2, hi2 : /\ Kept(heap', root', rightmost', size', lo2, hi2, C)
                      /\ lo2[root'] = 0
    BY <1>2, <1>4, FirstLeafHolds
<1>6. Gap(lo2, iter') = 0
    BY <1>2, <1>5, SlotIs DEF Gap
<1>7. Works(heap', lo2, hi2, pc', stack', iter', res', internal_delete', 0)
    BY <1>2, <1>6 DEF Works
<1>8. Meant(C, 0, pc', call', source', count', erased')
    BY <1>2, <1>3, <1>4 DEF Meant, InPlace, Erasing
<1>9. C \in Seq(Values)
    BY <1>4
<1>10. QED
    BY <1>5, <1>7, <1>8, <1>9, StateNext

\* Nothing is in order.
LEMMA NoContents ==
    /\ <<>> \in Seq(Values) /\ Ordered(<<>>) /\ <<>> \o <<>> = <<>>
    /\ \A C \in Seq(Values) : <<>> \o C = C
<1>1. <<>> \in Seq(Values)
    OBVIOUS
<1>2. Ordered(<<>>)
    BY DEF Ordered
<1>3. \A C \in Seq(Values) : <<>> \o C = C
    OBVIOUS
<1>4. <<>> \o <<>> = <<>>
    BY <1>1, <1>3
<1>5. QED
    BY <1>1, <1>2, <1>3, <1>4

LEMMA StartCopyOrders ==
    ASSUME IInv, NEW C, Holding(C), StartCopy
    PROVE  source = <<>> /\ source' = C /\ Holding(<<>>)'
<1>1. PICK lo, hi, x : State(C, lo, hi, x)
    BY DEF Holding
<1>2. /\ pc = "called" /\ pc' = "copy" /\ source' = Contents /\ call' = call
      /\ call.kind = "copy" /\ root' = NoNode
      /\ count' = count /\ erased' = erased
    BY DEF StartCopy
<1>3. /\ C \in Seq(Values) /\ source = <<>> /\ Ordered(C \o source)
      /\ Meant(C, x, pc, call, source, count, erased)
    BY <1>1, <1>2, StateIs DEF InPlace
<1>4. PICK D : D = <<>>
    OBVIOUS
<1>5. D \in Seq(Values)
    BY <1>4, NoContents
<1>6. source' = C
    BY <1>1, <1>2, ContentsAreHeld
<1>7. D \o C = C
    BY <1>3, <1>4, NoContents
<1>8. Ordered(C)
    BY <1>3
<1>9. Kept(heap', root', rightmost', size', lo, hi, D)
    BY <1>2, <1>4 DEF Kept
<1>10. Works(heap', lo, hi, pc', stack', iter', res', internal_delete', 0)
    BY <1>2 DEF Works
<1>11. Meant(D, 0, pc', call', source', count', erased')
    BY <1>2, <1>6, <1>7, <1>8 DEF Meant, InPlace, Erasing
<1>12. Holding(D)'
    BY <1>5, <1>9, <1>10, <1>11, StateNext
<1>13. QED
    BY <1>3, <1>4, <1>6, <1>12

LEMMA ClearOrders ==
    ASSUME IInv, NEW C, Holding(C), Clear
    PROVE  source = <<>> /\ Holding(<<>>)'
<1>1. PICK lo, hi, x : State(C, lo, hi, x)
    BY DEF Holding
<1>2. /\ pc = "called" /\ pc' = "done" /\ source' = source /\ root' = NoNode
    BY DEF Clear
<1>3. source = <<>>
    BY <1>1, <1>2, StateIs DEF InPlace
<1>4. PICK D : D = <<>>
    OBVIOUS
<1>5. D \in Seq(Values)
    BY <1>4, NoContents
<1>6. <<>> \o <<>> = <<>> /\ Ordered(<<>>)
    BY NoContents
<1>7. Kept(heap', root', rightmost', size', lo, hi, D)
    BY <1>2, <1>4 DEF Kept
<1>8. Works(heap', lo, hi, pc', stack', iter', res', internal_delete', 0)
    BY <1>2 DEF Works
<1>9. Meant(D, 0, pc', call', source', count', erased')
    BY <1>2, <1>3, <1>4, <1>6 DEF Meant, InPlace, Erasing
<1>10. Holding(D)'
    BY <1>5, <1>7, <1>8, <1>9, StateNext
<1>11. QED
    BY <1>3, <1>4, <1>10

\* The place of insertion stays while room is made for it.
LEMMA RoomWanted ==
    ASSUME NEW C, NEW x, NEW step \in InPlace, NEW next \in InPlace, NEW asked,
           NEW values, NEW all, NEW gone, NEW all2,
           Meant(C, x, step, asked, values, all, gone)
    PROVE  Meant(C, x, next, asked, values, all2, gone)
BY DEF Meant, InPlace, Erasing

LEMMA MakeRoomOrders ==
    ASSUME IInv, NEW C, Holding(C), MakeRoom
    PROVE  Holding(C)'
<1>1. PICK lo, hi, x : State(C, lo, hi, x)
    BY DEF Holding
<1>2. /\ pc = "insert" /\ pc' = "make_room" /\ source' = source /\ call' = call
      /\ TreeStays /\ stack' = <<iter>> /\ count' = count /\ erased' = erased
    BY DEF MakeRoom, tree, TreeStays
<1>3. /\ C \in Seq(Values) /\ Kept(heap, root, rightmost, size, lo, hi, C)
      /\ Works(heap, lo, hi, pc, stack, iter, res, internal_delete, x)
      /\ Meant(C, x, pc, call, source, count, erased)
    BY <1>1, StateIs
<1>4. stack'[Len(stack')] = iter
    BY <1>2
<1>5. Works(heap', lo, hi, pc', stack', iter', res', internal_delete', x)
    BY <1>2, <1>3, <1>4 DEF Works
<1>6. Meant(C, x, pc', call', source', count', erased')
    BY <1>2, <1>3, RoomWanted DEF InPlace
<1>7. Kept(heap', root', rightmost', size', lo, hi, C)
    BY <1>2, <1>3 DEF TreeStays
<1>8. QED
    BY <1>3, <1>5, <1>6, <1>7, StateNext

LEMMA AskParentOrders ==
    ASSUME IInv, NEW C, Holding(C), AskParent
    PROVE  Holding(C)'
<1>1. PICK lo, hi, x : State(C, lo, hi, x)
    BY DEF Holding
<1>2. /\ pc = "make_room" /\ source' = source /\ call' = call
      /\ TreeStays /\ count' = count /\ erased' = erased
      /\ \/ pc' = "make_room"
            /\ stack' = <<Slot(heap[Frame.node].parent,
                               heap[Frame.node].position)>> \o stack
         \/ pc' = "split" /\ stack' = stack
    BY DEF AskParent, tree, TreeStays
<1>3. /\ C \in Seq(Values) /\ Kept(heap, root, rightmost, size, lo, hi, C)
      /\ Works(heap, lo, hi, pc, stack, iter, res, internal_delete, x)
      /\ Meant(C, x, pc, call, source, count, erased)
    BY <1>1, StateIs
<1>4. stack \in Seq(Frames) /\ Len(stack) >= 1
    BY <1>2, MakingRoom, FrameOf
<1>5. stack'[Len(stack')] = stack[Len(stack)]
    <2>1. ASSUME NEW s, stack' = <<s>> \o stack
          PROVE  stack'[Len(stack')] = stack[Len(stack)]
        <3>1. PICK q, L : q = stack /\ L = Len(stack)
            OBVIOUS
        <3>2. q \in Seq(Frames) /\ L = Len(q) /\ L \in Nat /\ L >= 1
            BY <1>4, <3>1
        <3>3. Len(<<s>> \o q) = L + 1 /\ (<<s>> \o q)[L + 1] = q[L]
            BY ONLY <3>2
        <3>4. QED
            BY <2>1, <3>1, <3>2, <3>3
    <2>2. QED
        BY <1>2, <2>1
<1>6. Works(heap', lo, hi, pc', stack', iter', res', internal_delete', x)
    BY <1>2, <1>3, <1>5 DEF Works
<1>7. Meant(C, x, pc', call', source', count', erased')
    BY <1>2, <1>3, RoomWanted DEF InPlace
<1>8. Kept(heap', root', rightmost', size', lo, hi, C)
    BY <1>2, <1>3 DEF TreeStays
<1>9. QED
    BY <1>3, <1>6, <1>7, <1>8, StateNext

LEMMA StutterOrders ==
    ASSUME NEW C, Holding(C), UNCHANGED vars
    PROVE  Holding(C)'
<1>1. PICK lo, hi, x : State(C, lo, hi, x)
    BY DEF Holding
<1>2. State(C, lo, hi, x)'
    BY <1>1 DEF vars, tree, State
<1>3. QED
    BY <1>2 DEF Holding

LEMMA InitOrders == Init => OInv
<1> SUFFICES ASSUME Init PROVE OInv
    OBVIOUS
<1>1. root = NoNode /\ pc = "idle" /\ source = <<>> /\ erased = 0
    BY DEF Init
<1>2. PICK C, lo, hi : C = <<>>
    OBVIOUS
<1>3. C \o source = <<>> /\ Ordered(<<>>)
    BY <1>1, <1>2 DEF Ordered
<1>4. State(C, lo, hi, 0)
    BY <1>1, <1>2, <1>3 DEF State, Kept, Works, Meant, Erasing, InPlace
<1>5. QED
    BY <1>4 DEF Holding, OInv

\* The range of a key in a container.
LEMMA KeyRange ==
    ASSUME NEW C \in Seq(Values), Ordered(C), NEW k \in Int,
           NEW g, Cut(C, BelowKey(k), g), NEW f, Cut(C, UpToKey(k), f)
    PROVE  /\ g \in 0..Len(C) /\ f \in 0..Len(C) /\ g <= f
           /\ \A j \in 1..Len(C) : /\ KeyOf[C[j]] < k <=> j <= g
                                   /\ KeyOf[C[j]] <= k <=> j <= f
           /\ g < f <=> g < Len(C) /\ KeyOf[C[g + 1]] <= k
           /\ Unique => f <= g + 1
<1>1. g \in 0..Len(C) /\ f \in 0..Len(C) /\ Len(C) \in Nat
    BY DEF Cut
<1>2. \A j \in 1..Len(C) : C[j] \in Values /\ KeyOf[C[j]] \in Int
    BY KeyOfAssumption
<1>3. \A j \in 1..Len(C) : /\ KeyOf[C[j]] < k <=> j <= g
                           /\ KeyOf[C[j]] <= k <=> j <= f
    BY <1>2 DEF Cut, BelowKey, UpToKey
<1>4. g <= f
    <2>1. CASE g = 0
        BY <1>1, <2>1
    <2>2. CASE g # 0
        <3>1. g \in 1..Len(C) /\ g <= g
            BY <1>1, <2>2
        <3>2. KeyOf[C[g]] <= k
            BY <1>2, <1>3, <3>1
        <3>3. QED
            BY <1>3, <3>1, <3>2
    <2>3. QED
        BY <2>1, <2>2
<1>5. g < f <=> g < Len(C) /\ KeyOf[C[g + 1]] <= k
    <2>1. ASSUME g < f PROVE g < Len(C) /\ KeyOf[C[g + 1]] <= k
        <3>1. g + 1 \in 1..Len(C) /\ g + 1 <= f /\ g < Len(C)
            BY <1>1, <2>1
        <3>2. QED
            BY <1>3, <3>1
    <2>2. ASSUME g < Len(C), KeyOf[C[g + 1]] <= k PROVE g < f
        <3>1. g + 1 \in 1..Len(C)
            BY <1>1, <2>2
        <3>2. g + 1 <= f
            BY <1>3, <2>2, <3>1
        <3>3. QED
            BY <1>1, <3>2
    <2>3. QED
        BY <2>1, <2>2
<1>6. ASSUME Unique PROVE f <= g + 1
    <2>1. SUFFICES ASSUME ~(f <= g + 1) PROVE FALSE
        OBVIOUS
    <2>2. PICK i \in 1..Len(C) : i = g + 1 /\ ~(i <= g) /\ i <= f
        BY <1>1, <2>1
    <2>3. PICK j \in 1..Len(C) : j = g + 2 /\ j <= f /\ i < j
        BY <1>1, <2>1, <2>2
    <2>4. Goes(C[i], C[j])
        BY <2>3 DEF Ordered
    <2>5. KeyOf[C[i]] < KeyOf[C[j]]
        BY <1>6, <2>4 DEF Goes
    <2>6. ~(KeyOf[C[i]] < k) /\ KeyOf[C[j]] <= k
        BY <1>3, <2>2, <2>3
    <2>7. KeyOf[C[i]] \in Int /\ KeyOf[C[j]] \in Int
        BY <1>2
    <2>8. QED
        BY <2>5, <2>6, <2>7
<1>7. QED
    BY <1>1, <1>3, <1>4, <1>5, <1>6

\* The values of a key begin at the place x.
LEMMA EraseKeyOrders ==
    ASSUME IInv, NEW C, Holding(C), EraseKey
    PROVE  Holding(C)'
<1>1. PICK lo, hi, x : State(C, lo, hi, x)
    BY DEF Holding
<1>2. PICK first : first = IF Unique THEN Find(heap, root, call.key)
                           ELSE LowerBound(heap, root, call.key)
    OBVIOUS
<1>3. PICK last : last = OrEnd(UpperBound(heap, root, call.key))
    OBVIOUS
<1>4. PICK n : n = IF first = NoSlot THEN 0
                   ELSE IF Unique THEN 1 ELSE PlaceOf(last) - PlaceOf(first)
    OBVIOUS
<1>5. /\ pc = "called" /\ pc' = (IF n = 0 THEN "done" ELSE "erase")
      /\ TreeStays /\ call' = call /\ call.kind = "erase_key"
      /\ erased' = erased /\ count' = n /\ iter' = first /\ source' = source
    BY <1>2, <1>3, <1>4 DEF EraseKey, tree, TreeStays
<1>6. /\ C \in Seq(Values) /\ Len(C) \in Nat /\ source = <<>>
      /\ Kept(heap, root, rightmost, size, lo, hi, C) /\ Ordered(C \o source)
      /\ Meant(C, x, pc, call, source, count, erased)
    BY <1>1, <1>5, StateIs DEF InPlace
<1>7. CASE n = 0
    <2>1. pc' = "done"
        BY <1>5, <1>7
    <2>2. QED
        BY <1>1, <1>5, <1>6, <2>1, QuietNext
<1>8. CASE n # 0
    <2>1. first # NoSlot /\ root # NoNode
        BY <1>2, <1>4, <1>8, NothingFound
    <2>2. PICK k : k = call.key
        OBVIOUS
    <2>3. k \in Int
        BY <1>5, <1>6, <2>2 DEF Meant
    <2>4. Ordered(C)
        BY <1>6
    <2>5. PICK g, f : Cut(C, BelowKey(k), g) /\ Cut(C, UpToKey(k), f)
        BY <1>6, <2>3, <2>4, KeysCut
    <2>6. /\ g \in 0..Len(C) /\ f \in 0..Len(C) /\ g <= f
          /\ \A j \in 1..Len(C) : /\ KeyOf[C[j]] < k <=> j <= g
                                  /\ KeyOf[C[j]] <= k <=> j <= f
          /\ g < f <=> g < Len(C) /\ KeyOf[C[g + 1]] <= k
          /\ Unique => f <= g + 1
        BY <1>6, <2>3, <2>4, <2>5, KeyRange
    <2>7. HasNumber(heap, lo, hi, first, g) /\ n = f - g
        <3>1. CASE Unique
            <4>1. first = Find(heap, root, k)
                BY <1>2, <2>2, <3>1
            <4>2. g < Len(C) /\ KeyOf[C[g + 1]] <= k
                  /\ HasNumber(heap, lo, hi, first, g)
                BY <1>1, <2>1, <2>5, <4>1, FindHeld
            <4>3. n = 1 /\ g < f /\ f <= g + 1
                BY <1>4, <2>1, <2>6, <3>1, <4>2
            <4>4. QED
                BY <1>6, <2>6, <4>2, <4>3
        <3>2. CASE ~Unique
            <4>1. first = LowerBound(heap, root, k)
                BY <1>2, <2>2, <3>2
            <4>2. IF g = Len(C) THEN first = NoSlot
                  ELSE HasNumber(heap, lo, hi, first, g)
                BY <1>1, <2>1, <2>5, <4>1, LowerHeld DEF Found
            <4>3. g # Len(C) /\ HasNumber(heap, lo, hi, first, g)
                BY <2>1, <4>2
            <4>4. Names(heap, root, lo, hi, C, first, g)
                BY <4>3 DEF Names
            <4>5. Names(heap, root, lo, hi, C, last, f)
                BY <1>1, <1>3, <2>1, <2>2, <2>5, UpperHeld DEF Found
            <4>6. PlaceOf(first) = g /\ PlaceOf(last) = f
                BY <1>1, <2>1, <2>6, <4>4, <4>5, PlaceHeld
            <4>7. QED
                BY <1>4, <2>1, <3>2, <4>3, <4>6
        <3>3. QED
            BY <3>1, <3>2
    <2>8. erased = 0
        BY <1>5, <1>6 DEF Meant
    <2>9. /\ n - 0 \in Nat /\ g + (n - 0) = f /\ 0 < n
        BY <1>6, <1>8, <2>6, <2>7
    <2>10. pc' = "erase"
        BY <1>5, <1>8
    <2>11. Due(C, pc', call', count', erased', g)
        BY <1>5, <2>2, <2>6, <2>8, <2>9, <2>10 DEF Due
    <2>12. Meant(C, g, pc', call', source', count', erased')
        BY <1>5, <1>6, <2>10, <2>11 DEF Meant, Erasing, InPlace
    <2>13. Works(heap', lo, hi, pc', stack', iter', res', internal_delete', g)
        BY <1>5, <2>6, <2>7, <2>10 DEF Works, TreeStays
    <2>14. Kept(heap', root', rightmost', size', lo, hi, C)
        BY <1>5, <1>6 DEF TreeStays
    <2>15. QED
        BY <1>6, <2>12, <2>13, <2>14, StateNext
<1>9. QED
    BY <1>7, <1>8

\* The iterator to return is at the place of the value erased.
LEMMA AdvanceOrders ==
    ASSUME IInv, NEW C, Holding(C), Advance
    PROVE  /\ Holding(C)' /\ source = <<>>
           /\ \E x : /\ Due(C, pc, call, count, erased, x)
                     /\ pc' = "done" => Answering(C, x)'
<1>1. PICK lo, hi, x : State(C, lo, hi, x)
    BY DEF Holding
<1>2. PICK valid : valid = IF res.position = Count(heap, res.node)
                           THEN Increment(heap,
                               Slot(res.node, res.position - 1)) ELSE res
    OBVIOUS
<1>3. /\ pc = "advance" /\ TreeStays /\ count' = count /\ call' = call
      /\ erased' = erased /\ source' = source
      /\ EraseReturns(PastErased(valid))
    BY <1>2 DEF Advance, tree, TreeStays
<1>4. root # NoNode /\ LeafPlaceOf(heap, res)
    BY <1>3 DEF IInv, Called, At, Erasing
<1>5. PICK lv, S : HeldBy(C, lo, hi, lv, S)
    BY <1>1, <1>4, TreeHeld
<1>6. Tree(heap, root, lv, S) /\ Holds(heap, root, lo, hi, C)
    BY <1>5 DEF HeldBy
<1>7. /\ C \in Seq(Values) /\ Len(C) \in Nat /\ source = <<>> /\ x \in Int
      /\ Kept(heap, root, rightmost, size, lo, hi, C)
      /\ Works(heap, lo, hi, pc, stack, iter, res, internal_delete, x)
      /\ Meant(C, x, pc, call, source, count, erased)
    BY <1>1, <1>3, StateIs DEF InPlace
<1>8. \A n \in DOMAIN heap : Count(heap, n) # 0
    BY <1>3, NoneEmpty
<1>9. PICK n \in DOMAIN heap, i \in Nat :
         res = Slot(n, i) /\ heap[n].leaf /\ i <= Count(heap, n)
    BY <1>4 DEF LeafPlaceOf
<1>10. res.node = n /\ res.position = i
    BY <1>9, SlotIs
<1>11. PICK y : y = Gap(lo, res)
    OBVIOUS
<1>12. /\ y \in 0..Len(C)
       /\ i < Count(heap, n) => y # Len(C) /\ HasNumber(heap, lo, hi, res, y)
       /\ i = Count(heap, n) => y = hi[n]
    BY <1>4, <1>6, <1>10, <1>11, GapIs
<1>13. Count(heap, n) \in Nat
    BY <1>6, <1>9, NodeRowIs
<1>14. Names(heap, root, lo, hi, C, valid, y)
    <2>1. CASE i = Count(heap, n)
        <3>1. PICK s : s = Slot(n, i - 1)
            OBVIOUS
        <3>2. LeafOf(heap, n)
            BY <1>9 DEF LeafOf
        <3>3. HasNumber(heap, lo, hi, Slot(n, Count(heap, n) - 1), hi[n] - 1)
            BY <1>6, <1>8, <1>9, <3>2, LeafEnds
        <3>4. PICK z \in Int : z = y - 1 /\ z + 1 = y
            BY <1>12
        <3>5. HasNumber(heap, lo, hi, s, z)
            BY <1>12, <2>1, <3>1, <3>3, <3>4
        <3>6. Names(heap, root, lo, hi, C, Increment(heap, s), z + 1)
            BY <1>6, <1>8, <3>5, IncrementNumber
        <3>7. valid = Increment(heap, s)
            BY <1>2, <1>10, <2>1, <3>1
        <3>8. QED
            BY <3>4, <3>6, <3>7
    <2>2. CASE i # Count(heap, n)
        <3>1. i < Count(heap, n)
            BY <1>9, <1>13, <2>2
        <3>2. valid = res
            BY <1>2, <1>10, <2>2
        <3>3. QED
            BY <1>12, <3>1, <3>2 DEF Names
    <2>3. QED
        BY <2>1, <2>2
<1>15. y + (IF internal_delete THEN 1 ELSE 0) = x
    BY <1>3, <1>7, <1>11 DEF Works
<1>16. Due(C, pc, call, count, erased, x) /\ x \in 0..Len(C)
    BY <1>3, <1>7 DEF Meant, Erasing, Due
<1>17. PICK s : s = PastErased(valid)
    OBVIOUS
<1>18. Names(heap, root, lo, hi, C, s, x)
    <2>1. CASE internal_delete
        <3>1. y # Len(C) /\ y + 1 = x /\ y \in Int
            BY <1>7, <1>12, <1>15, <1>16, <2>1
        <3>2. HasNumber(heap, lo, hi, valid, y)
            BY <1>14, <3>1 DEF Names
        <3>3. Names(heap, root, lo, hi, C, Increment(heap, valid), y + 1)
            BY <1>6, <1>8, <3>1, <3>2, IncrementNumber
        <3>4. QED
            BY <1>17, <2>1, <3>1, <3>3 DEF PastErased
    <2>2. CASE ~internal_delete
        <3>1. y = x
            BY <1>12, <1>15, <2>2
        <3>2. QED
            BY <1>14, <1>17, <2>2, <3>1 DEF PastErased
    <2>3. QED
        BY <2>1, <2>2
<1>19. /\ pc' = (IF erased < count THEN "erase" ELSE "done") /\ iter' = s
    BY <1>3, <1>17 DEF EraseReturns
<1>20. CASE erased < count
    <2>1. call.kind = "erase_key"
        BY <1>3, <1>16, <1>20 DEF Due
    <2>2. x # Len(C)
        <3>1. count \in Int /\ erased \in Int
            BY DEF IInv, Enough
        <3>2. x + (count - erased) \in 0..Len(C)
            BY <1>16, <2>1 DEF Due
        <3>3. QED
            BY <1>7, <1>20, <3>1, <3>2
    <2>3. HasNumber(heap, lo, hi, s, x)
        BY <1>18, <2>2 DEF Names
    <2>4. Due(C, pc', call', count', erased', x)
        BY <1>3, <1>16, <1>20, <2>1 DEF Due
    <2>5. Meant(C, x, pc', call', source', count', erased')
        BY <1>3, <1>7, <1>19, <1>20, <2>4 DEF Meant, Erasing, InPlace
    <2>6. Works(heap', lo, hi, pc', stack', iter', res', internal_delete', x)
        BY <1>3, <1>7, <1>19, <1>20, <2>3 DEF Works, TreeStays
    <2>7. Kept(heap', root', rightmost', size', lo, hi, C)
        BY <1>3, <1>7 DEF TreeStays
    <2>8. Holding(C)'
        BY <1>7, <2>5, <2>6, <2>7, StateNext
    <2>9. QED
        BY <1>7, <1>16, <1>19, <1>20, <2>8
<1>21. CASE ~(erased < count)
    <2>1. pc' = "done"
        BY <1>19, <1>21
    <2>2. Holding(C)'
        BY <1>1, <1>3, <1>7, <2>1, QuietNext
    <2>3. Answering(C, x)'
        <3>1. res' = s
            BY <1>3, <1>17 DEF EraseReturns
        <3>2. Names(heap, root, lo, hi, C, res', x)
            BY <1>18, <3>1
        <3>3. QED
            BY <1>1, <1>3, <1>4, <1>7, <1>16, <2>1, <3>2, QuietAnswers
    <2>4. QED
        BY <1>7, <1>16, <2>2, <2>3
<1>22. QED
    BY <1>20, <1>21

(***************************************************************************)
(* A value is inserted, in order                                           *)
(***************************************************************************)

\* Inserting a value changes the values of one node only.
LEMMA InsertOnly ==
    ASSUME NEW h, NEW top, NEW lv, NEW S, Tree(h, top, lv, S),
           NEW n \in DOMAIN h, NEW i \in 0..Count(h, n), NEW v \in Values,
           NEW s, s = Slot(n, i), NEW g, g = InsertValue(h, s, v)
    PROVE  OnlyValues(h, g, n, InsertAt(h[n].values, i + 1, v))
<1>1. Heap(h) /\ h[n].values \in Seq(Values) /\ Len(h[n].values) = Count(h, n)
    <2>1. Heap(h)
        BY DEF Tree
    <2>2. h[n].values \in Seq(Values) /\ Count(h, n) = Len(h[n].values)
        BY NodeRowIs DEF Count
    <2>3. QED
        BY <2>1, <2>2
<1>2. PICK j \in 1..(Len(h[n].values) + 1) : j = i + 1
    BY <1>1
<1>3. PICK values : values = InsertAt(h[n].values, j, v)
    OBVIOUS
<1>4. values \in Seq(Values)
    BY <1>1, <1>3, InsertAtGives
<1>5. g = [h EXCEPT ![n].values = values]
    BY <1>2, <1>3, SlotIs DEF InsertValue
<1>6. Revalued(h, g, n, values)
    BY <1>1, <1>4, <1>5, RevaluedIs
<1>7. OnlyValues(h, g, n, values)
    BY <1>6 DEF Revalued, OnlyValues, SameNode
<1>8. QED
    BY <1>2, <1>3, <1>7

\* The value of a call where it is to go.
LEMMA ValueStands ==
    ASSUME NEW C \in Seq(Values), NEW x, NEW step \in {"insert", "room"},
           Meant(C, x, step, call, source, count, erased),
           Valued(call, source), NEW v, v = Value,
           NEW D, D = InsertAt(C, x + 1, v)
    PROVE  /\ v \in Values /\ D \in Seq(Values) /\ Len(D) = Len(C) + 1
           /\ call.kind = "copy" =>
                 CopyGoesOn(C, source, D) /\ Ordered(D \o Tail(source))
           /\ call.kind # "copy" => source = <<>> /\ Ordered(D)
<1>1. Ordered(C \o source) /\ step \in InPlace
    BY DEF Meant, InPlace
<1>2. CASE call.kind = "copy"
    <2>1. source \in Seq(Values) /\ source # <<>> /\ v = Head(source)
        BY <1>2 DEF Valued, Value
    <2>2. x = Len(C)
        BY <1>1, <1>2 DEF Meant
    <2>3. /\ D \in Seq(Values) /\ v \in Values /\ CopyGoesOn(C, source, D)
          /\ D \o Tail(source) = C \o source
        <3>1. PICK values \in Seq(Values) : values = source
            BY <2>1
        <3>2. PICK y \in Nat : y = Len(C)
            OBVIOUS
        <3>3. PICK E : E = InsertAt(C, y + 1, Head(values))
            OBVIOUS
        <3>4. CopyGoesOn(C, values, E)
            BY <2>1, <3>1, <3>2, <3>3, CopiedOn
        <3>5. E = D /\ v = Head(values)
            BY <2>1, <2>2, <3>1, <3>2, <3>3
        <3>6. QED
            BY <3>1, <3>4, <3>5 DEF CopyGoesOn
    <2>4. Len(D) = Len(C) + 1
        <3>1. PICK y \in 1..(Len(C) + 1) : y = x + 1
            BY <2>2
        <3>2. Len(InsertAt(C, y, v)) = Len(C) + 1
            BY <2>3, InsertAtIs
        <3>3. QED
            BY <3>1, <3>2
    <2>5. QED
        BY <1>1, <1>2, <2>3, <2>4
<1>3. CASE call.kind # "copy"
    <2>1. v = call.value /\ v \in Values
        BY <1>3 DEF Valued, Value
    <2>2. source = <<>>
        BY <1>3 DEF Meant
    <2>3. FitsIn(C, v, x)
        BY <1>1, <1>3, <2>1 DEF Meant, Stands
    <2>4. Ordered(C)
        BY <1>1, <2>2
    <2>5. D \in Seq(Values) /\ Len(D) = Len(C) + 1 /\ Ordered(D)
        BY <2>1, <2>3, <2>4, OrderedInsert
    <2>6. QED
        BY <1>3, <2>1, <2>2, <2>5
<1>4. QED
    BY <1>2, <1>3

\* The value is put where the call means it to stand; a copy goes on, other
\* calls answer with its place.
PutIn(C) ==
    IF call.kind = "copy"
    THEN /\ pc' = "copy" /\ source' = Tail(source)
         /\ \E D : CopyGoesOn(C, source, D) /\ Holding(D)'
    ELSE /\ pc' = "done" /\ source' = source /\ source = <<>>
         /\ \E x, D : /\ Stands(C, call, x) /\ D = InsertAt(C, x + 1, call.value)
                      /\ Answering(D, x)'

\* What the fields of an internal root are to be after an insertion.
Counted(h, top, hi, C) ==
    h[top].leaf \/ /\ size' = Len(C) + 1
                   /\ rightmost' \in DOMAIN h /\ hi[rightmost'] = Len(C)

LEMMA OneMore ==
    ASSUME NEW q \in Seq(Values), NEW y \in 1..(Len(q) + 1), NEW v \in Values
    PROVE  Len(InsertAt(q, y, v)) = Len(q) + 1
BY InsertAtIs

LEMMA InsertedOrders ==
    ASSUME IInv, pc \in {"insert", "room"}, NEW C, NEW x,
           Meant(C, x, pc, call, source, count, erased),
           NEW h, NEW top, NEW lv, NEW S, Tree(h, top, lv, S), NEW lo, NEW hi,
           Holds(h, top, lo, hi, C), NEW s, LeafPlaceOf(h, s), Gap(lo, s) = x,
           Inserted(h, s), Counted(h, top, hi, C),
           call' = call, count' = count, erased' = erased, root' = top
    PROVE  PutIn(C)
<1>1. C \in Seq(Values) /\ Len(C) \in Nat
    BY DEF Holds
<1>2. Valued(call, source)
    BY DEF IInv, Called, Inserting
<1>3. PICK v : v = Value
    OBVIOUS
<1>4. PICK D : D = InsertAt(C, x + 1, v)
    OBVIOUS
<1>5. /\ v \in Values /\ D \in Seq(Values) /\ Len(D) = Len(C) + 1
      /\ call.kind = "copy" =>
            CopyGoesOn(C, source, D) /\ Ordered(D \o Tail(source))
      /\ call.kind # "copy" => source = <<>> /\ Ordered(D)
    BY <1>1, <1>2, <1>3, <1>4, ValueStands
<1>6. PICK n \in DOMAIN h, i \in Nat :
         s = Slot(n, i) /\ h[n].leaf /\ i <= Count(h, n)
    BY DEF LeafPlaceOf
<1>7. Count(h, n) \in Nat /\ i \in 0..Count(h, n)
    BY <1>6, NodeRowIs
<1>8. heap' = InsertValue(h, s, v)
    BY <1>3 DEF Inserted
<1>9. OnlyValues(h, heap', n, InsertAt(h[n].values, i + 1, v))
    BY <1>5, <1>6, <1>7, <1>8, InsertOnly
<1>10. x = lo[n] + i
    BY <1>6, SlotIs DEF Gap
<1>11. PICK lo2, hi2 : Shifted(h, lo, hi, x, 1, lo2, hi2)
    BY NumbersShift
<1>12. /\ x \in 0..Len(C)
       /\ Holds(heap', top, lo2, hi2, InsertAt(C, x + 1, v))
    BY <1>5, <1>6, <1>7, <1>9, <1>10, <1>11, InsertHolds
<1>13. Kept(heap', root', rightmost', size', lo2, hi2, D)
    <2>1. top \in DOMAIN h /\ top # NoNode
        BY NodeIs DEF Tree
    <2>2. heap'[top].leaf <=> h[top].leaf
        BY <1>9, <2>1 DEF OnlyValues, SameNode
    <2>3. ASSUME ~h[top].leaf
          PROVE  size' = Len(D) /\ hi2[rightmost'] = Len(D)
        <3>1. size' = Len(C) + 1 /\ rightmost' \in DOMAIN h
              /\ hi[rightmost'] = Len(C)
            BY <2>3 DEF Counted
        <3>2. hi2[rightmost'] = Len(C) + 1
            BY <1>1, <1>11, <1>12, <3>1 DEF Shifted
        <3>3. QED
            BY <1>5, <3>1, <3>2
    <2>4. QED
        BY <1>4, <1>12, <2>1, <2>2, <2>3 DEF Kept
<1>14. CASE call.kind = "copy"
    <2>1. pc' = "copy" /\ source' = Tail(source)
        BY <1>14 DEF Inserted
    <2>2. Works(heap', lo2, hi2, pc', stack', iter', res', internal_delete', 0)
        BY <2>1 DEF Works
    <2>3. Meant(D, 0, pc', call', source', count', erased')
        BY <1>5, <1>14, <2>1 DEF Meant, InPlace, Erasing
    <2>4. Holding(D)'
        BY <1>5, <1>13, <2>2, <2>3, StateNext
    <2>5. QED
        BY <1>5, <1>14, <2>1, <2>4 DEF PutIn
<1>15. CASE call.kind # "copy"
    <2>1. pc' = "done" /\ source' = source
        BY <1>15 DEF Inserted
    <2>2. Works(heap', lo2, hi2, pc', stack', iter', res', internal_delete', 0)
        BY <2>1 DEF Works
    <2>3. D \o <<>> = D
        BY <1>5
    <2>4. Meant(D, 0, pc', call', source', count', erased')
        BY <1>5, <1>15, <2>1, <2>3 DEF Meant, InPlace, Erasing
    <2>5. State(D, lo2, hi2, 0)'
        BY <1>5, <1>13, <2>2, <2>4 DEF State
    <2>6. Names(heap', root', lo2, hi2, D, res', x)
        <3>1. /\ heap'[n].leaf /\ n \in DOMAIN heap'
              /\ heap'[n].values = InsertAt(h[n].values, i + 1, v)
            BY <1>6, <1>9 DEF OnlyValues, SameNode
        <3>2. Count(heap', n) = Count(h, n) + 1
            <4>1. PICK q \in Seq(Values) : q = h[n].values /\ Len(q) = Count(h, n)
                BY <1>6, NodeRowIs
            <4>2. PICK y \in 1..(Len(q) + 1) : y = i + 1
                BY <1>7, <4>1
            <4>3. v \in Values
                BY <1>5
            <4>4. Len(InsertAt(q, y, v)) = Len(q) + 1
                BY <4>3, OneMore
            <4>5. QED
                BY <3>1, <4>1, <4>2, <4>4 DEF Count
        <3>3. s \in Places(heap')
            BY <1>6, <1>7, <3>1, <3>2, PlacesAre
        <3>4. lo[n] \in Int
            BY <1>6, RangesAre
        <3>5. lo2[n] = lo[n]
            BY <1>6, <1>10, <1>11, <3>4 DEF Shifted
        <3>6. Number(heap', lo2, hi2, s) = x
            BY <1>6, <1>10, <3>1, <3>5, SlotIs DEF Number
        <3>7. x # Len(D) /\ res' = s
            BY <1>1, <1>5, <1>12, <1>15 DEF Inserted
        <3>8. QED
            BY <3>3, <3>6, <3>7 DEF Names, HasNumber
    <2>7. root' # NoNode /\ x \in 0..Len(D)
        BY <1>1, <1>5, <1>12, NodeIs DEF Tree
    <2>8. Answering(D, x)'
        BY <2>5, <2>6, <2>7 DEF Answering
    <2>9. Stands(C, call, x) /\ D = InsertAt(C, x + 1, call.value)
        BY <1>3, <1>4, <1>15 DEF Meant, InPlace, Value
    <2>10. QED
        BY <1>5, <1>15, <2>1, <2>8, <2>9 DEF PutIn
<1>16. QED
    BY <1>14, <1>15

\* The fields of an internal root.
LEMMA CountedOne ==
    ASSUME IInv, NEW C, NEW lo, NEW hi,
           Kept(heap, root, rightmost, size, lo, hi, C), root # NoNode,
           rightmost' = rightmost, heap[root].leaf \/ size' = size + 1
    PROVE  Counted(heap, root, hi, C)
BY DEF IInv, Ended, LeafOf, Kept, Counted

LEMMA InsertIntoLeafOrders ==
    ASSUME IInv, NEW C, Holding(C), InsertIntoLeaf
    PROVE  PutIn(C)
<1>1. PICK lo, hi, x : State(C, lo, hi, x)
    BY DEF Holding
<1>2. /\ pc = "insert" /\ Inserted(heap, iter)
      /\ root' = root /\ rightmost' = rightmost
      /\ erased' = erased /\ count' = count /\ call' = call
      /\ heap[root].leaf \/ size' = size + 1
    BY DEF InsertIntoLeaf, RootIsLeaf
<1>3. root # NoNode /\ LeafPlaceOf(heap, iter)
    BY <1>2 DEF IInv, Called, At, Inserting
<1>4. PICK lv, S : HeldBy(C, lo, hi, lv, S)
    BY <1>1, <1>3, TreeHeld
<1>5. Tree(heap, root, lv, S) /\ Holds(heap, root, lo, hi, C)
    BY <1>4 DEF HeldBy
<1>6. /\ Kept(heap, root, rightmost, size, lo, hi, C)
      /\ Works(heap, lo, hi, pc, stack, iter, res, internal_delete, x)
      /\ Meant(C, x, pc, call, source, count, erased)
    BY <1>1, StateIs
<1>7. Gap(lo, iter) = x
    BY <1>2, <1>6 DEF Works
<1>8. Counted(heap, root, hi, C)
    BY <1>2, <1>3, <1>6, CountedOne
<1>9. QED
    BY <1>2, <1>3, <1>5, <1>6, <1>7, <1>8, InsertedOrders

LEMMA InsertIntoRoomOrders ==
    ASSUME IInv, NEW C, Holding(C), InsertIntoRoom
    PROVE  PutIn(C)
<1>1. PICK lo, hi, x : State(C, lo, hi, x)
    BY DEF Holding
<1>2. /\ pc = "room" /\ Inserted(heap, iter)
      /\ root' = root /\ rightmost' = rightmost /\ size' = size + 1
      /\ erased' = erased /\ count' = count /\ call' = call
    BY DEF InsertIntoRoom
<1>3. root # NoNode /\ LeafPlaceOf(heap, iter)
    BY <1>2 DEF IInv, Called, At, Inserting
<1>4. PICK lv, S : HeldBy(C, lo, hi, lv, S)
    BY <1>1, <1>3, TreeHeld
<1>5. Tree(heap, root, lv, S) /\ Holds(heap, root, lo, hi, C)
    BY <1>4 DEF HeldBy
<1>6. /\ Kept(heap, root, rightmost, size, lo, hi, C)
      /\ Works(heap, lo, hi, pc, stack, iter, res, internal_delete, x)
      /\ Meant(C, x, pc, call, source, count, erased)
    BY <1>1, StateIs
<1>7. Gap(lo, iter) = x
    BY <1>2, <1>6 DEF Works
<1>8. Counted(heap, root, hi, C)
    BY <1>2, <1>3, <1>6, CountedOne
<1>9. QED
    BY <1>2, <1>3, <1>5, <1>6, <1>7, <1>8, InsertedOrders

LEMMA GrowRootOrders ==
    ASSUME IInv, NEW C, Holding(C), GrowRoot
    PROVE  PutIn(C)
<1> DEFINE new   == Fresh(heap)
           max   == GrownSize(heap[root].max_count)
           grown == Allocate(heap, new, NewNode(TRUE, new, max))
           g     == Free(MoveContents(grown, root, new), {root})
           s     == Slot(new, iter.position)
<1>1. PICK lo, hi, x : State(C, lo, hi, x)
    BY DEF Holding
<1>2. /\ pc = "insert" /\ IsFull(heap, iter.node)
      /\ heap[iter.node].max_count < NodeValues
      /\ Inserted(g, s) /\ root' = new
      /\ erased' = erased /\ count' = count /\ call' = call
    BY DEF GrowRoot
<1>3. root # NoNode /\ LeafPlaceOf(heap, iter)
    BY <1>2 DEF IInv, Called, At, Inserting
<1>4. PICK lv, S : HeldBy(C, lo, hi, lv, S)
    BY <1>1, <1>3, TreeHeld
<1>5. Tree(heap, root, lv, S) /\ Holds(heap, root, lo, hi, C)
    BY <1>4 DEF HeldBy
<1>6. PICK n \in DOMAIN heap, i \in Nat :
         iter = Slot(n, i) /\ heap[n].leaf /\ i <= Count(heap, n)
    BY <1>3 DEF LeafPlaceOf
<1>7. iter.node = n /\ iter.position = i
    BY <1>6, SlotIs
<1>8. n = root
    BY <1>2, <1>5, <1>6, <1>7, SmallIsRoot
<1>9. heap[root].max_count \in 1..NodeValues
          /\ heap[root].max_count < NodeValues
      /\ Count(heap, root) = heap[root].max_count /\ heap[root].leaf
    BY <1>2, <1>5, <1>6, <1>7, <1>8, NodeIs DEF Tree, IsFull
<1>10. max \in 1..NodeValues /\ Count(heap, root) <= max
    <2>1. max = IF NodeValues <= 2 * heap[root].max_count THEN NodeValues
                ELSE 2 * heap[root].max_count
        BY <1>9, NodeValuesAssumption, MinOfTwo DEF GrownSize
    <2>2. QED
        BY <1>9, <2>1, NodeValuesAssumption
<1>11. /\ Lone(g, new, max, Count(heap, root))
       /\ g[new].values = heap[root].values
    <2>1. max \in 1..NodeValues
        BY <1>10
    <2>2. Count(heap, root) <= max
        BY <1>10
    <2>3. Tree(heap, root, lv, S) /\ heap[root].leaf
        BY <1>5, <1>9
    <2> HIDE DEF max
    <2>4. Lone(g, new, max, Count(heap, root))
        BY <2>1, <2>2, <2>3, GrowIs
    <2>5. SameValues(heap, root, g, new)
        BY <2>1, <2>2, <2>3, GrowIs
    <2>6. QED
        BY <2>4, <2>5 DEF SameValues
<1> HIDE DEF g, max, new
<1>12. PICK lw : Tree(g, new, lw, {new})
    BY <1>11 DEF Lone
<1>13. DOMAIN g = {new} /\ g[new].leaf /\ Count(g, new) = Count(heap, root)
    BY <1>11 DEF Lone
<1>14. heap[root].values = C /\ lo[root] = 0
    BY <1>5, <1>9, LeafHas
<1>15. PICK lo2, hi2 : Holds(g, new, lo2, hi2, C) /\ lo2[new] = 0
    BY <1>11, <1>14, LeafHolds
<1>16. s = Slot(new, i)
    BY <1>7
<1> HIDE DEF s
<1>17. LeafPlaceOf(g, s)
    BY <1>6, <1>8, <1>13, <1>16 DEF LeafPlaceOf
<1>18. /\ Works(heap, lo, hi, pc, stack, iter, res, internal_delete, x)
       /\ Meant(C, x, pc, call, source, count, erased)
    BY <1>1, StateIs
<1>19. Gap(lo2, s) = x
    <2>1. Gap(lo, iter) = x
        BY <1>2, <1>18 DEF Works
    <2>2. QED
        BY <1>7, <1>8, <1>14, <1>15, <1>16, <2>1, SlotIs DEF Gap
<1>20. Counted(g, new, hi2, C)
    BY <1>13 DEF Counted
<1>21. QED
    BY <1>2, <1>12, <1>15, <1>17, <1>18, <1>19, <1>20, InsertedOrders

(***************************************************************************)
(* Room is made, in order                                                  *)
(***************************************************************************)

\* n starts at y and has a values, and r goes on behind it.
Beside(lo, n, r, y, a) ==
    r # n /\ y \in Int /\ a \in Int /\ lo[n] = y /\ lo[r] = y + a + 1

\* The number of a place on two siblings.
LEMMA AcrossGap ==
    ASSUME NEW lo, NEW n, NEW r, NEW y, NEW a, Beside(lo, n, r, y, a),
           NEW m \in {n, r}, NEW j \in Nat
    PROVE  Gap(lo, Slot(m, j)) = y + Across(n, a, m, j) - 1
<1>1. Gap(lo, Slot(m, j)) = lo[m] + j
    BY SlotIs DEF Gap
<1>2. CASE m = n
    <2>1. Across(n, a, m, j) = j + 1
        BY <1>2, AcrossIs
    <2>2. QED
        BY <1>1, <1>2, <2>1 DEF Beside
<1>3. CASE m # n
    <2>1. Across(n, a, m, j) = a + (j + 2) /\ lo[m] = y + a + 1
        BY <1>3, AcrossIs DEF Beside
    <2>2. QED
        BY <1>1, <2>1 DEF Beside
<1>4. QED
    BY <1>2, <1>3

\* A node and its right sibling.
LEMMA SiblingsBeside ==
    ASSUME NEW lv, NEW S, Tree(heap, root, lv, S),
           NEW C, NEW lo, NEW hi, Holds(heap, root, lo, hi, C),
           NEW n \in DOMAIN heap, n # root, HasRight(heap, n),
           NEW r, r = Right(heap, n)
    PROVE  /\ hi[n] # Len(C)
           /\ heap[n].leaf => Beside(lo, n, r, lo[n], Count(heap, n))
<1>1. r \in DOMAIN heap /\ r # n
    BY SiblingsAre
<1>2. lo[r] = hi[n] + 1
    BY SiblingsHold DEF SideBySide
<1>3. /\ lo[r] \in Int /\ hi[r] \in Int /\ lo[r] <= hi[r]
      /\ hi[r] <= Len(C) /\ hi[n] \in Int /\ lo[n] \in Int
    BY <1>1, RangesAre, RangesInside
<1>4. Len(C) \in Nat
    BY DEF Holds
<1>5. hi[n] # Len(C)
    BY <1>2, <1>3, <1>4
<1>6. Count(heap, n) \in Nat
    BY NodeRowIs
<1>7. heap[n].leaf => hi[n] = lo[n] + Count(heap, n)
    BY DEF Holds, InOrder
<1>8. QED
    BY <1>1, <1>2, <1>3, <1>5, <1>6, <1>7 DEF Beside

\* The places of two siblings keep their numbers when n has k instead of a
\* values.
StayAcross(lo, lo2, n, r, a, k) ==
    \A f, m \in {n, r}, i, j \in Nat :
       Across(n, k, m, j) = Across(n, a, f, i) =>
          Gap(lo2, Slot(m, j)) = Gap(lo, Slot(f, i))

\* n and its right sibling r share their values out, and the fields of the tree
\* stay.
SharedOnly(n, r, k) ==
    /\ n \in DOMAIN heap /\ n # root /\ HasRight(heap, n) /\ r = Right(heap, n)
    /\ k \in 1..NodeValues
    /\ Count(heap, n) + Count(heap, r) - k \in 1..NodeValues
    /\ heap' = Share(heap, n, k)
    /\ root' = root /\ rightmost' = rightmost /\ size' = size

LEMMA SharedKept ==
    ASSUME IInv, NEW C, NEW lo, NEW hi, NEW x, State(C, lo, hi, x),
           root # NoNode, NEW n, NEW r, NEW k, SharedOnly(n, r, k)
    PROVE  \E lo2, hi2 :
              /\ Kept(heap', root', rightmost', size', lo2, hi2, C)
              /\ \A m \in DOMAIN heap : m # r => lo2[m] = lo[m]
              /\ heap[n].leaf => StayAcross(lo, lo2, n, r, Count(heap, n), k)
<1>1. /\ n \in DOMAIN heap /\ n # root /\ HasRight(heap, n)
      /\ r = Right(heap, n)
      /\ k \in 1..NodeValues
      /\ Count(heap, n) + Count(heap, r) - k \in 1..NodeValues
      /\ heap' = Share(heap, n, k)
      /\ root' = root /\ rightmost' = rightmost /\ size' = size
    BY DEF SharedOnly
<1>2. PICK lv, S : HeldBy(C, lo, hi, lv, S)
    BY TreeHeld
<1>3. Tree(heap, root, lv, S) /\ Holds(heap, root, lo, hi, C)
    BY <1>2 DEF HeldBy
<1>4. k \in 0..NodeValues
          /\ Count(heap, n) + Count(heap, r) - k \in 0..NodeValues
    BY <1>1, NodeValuesAssumption
<1>5. PICK g : g = Share(heap, n, k)
    OBVIOUS
<1>6. PICK z \in Int : \E lo2, hi2 :
         /\ Holds(g, root, lo2, hi2, C)
         /\ MeetAt(heap, lo, hi, n, r, z, lo2, hi2)
         /\ heap[n].leaf => z = lo[n] + k
    BY <1>1, <1>3, <1>4, <1>5, ShareHolds
<1>7. PICK lo2, hi2 :
         /\ Holds(g, root, lo2, hi2, C)
         /\ MeetAt(heap, lo, hi, n, r, z, lo2, hi2)
         /\ heap[n].leaf => z = lo[n] + k
    BY <1>6
<1>8. /\ r \in DOMAIN heap /\ r # root /\ r # n /\ ~heap[root].leaf
      /\ heap[r].leaf <=> heap[n].leaf
    BY <1>1, <1>3, SiblingsAre
<1>9. /\ hi[n] # Len(C)
      /\ heap[n].leaf => Beside(lo, n, r, lo[n], Count(heap, n))
    BY <1>1, <1>3, SiblingsBeside
<1>10. /\ \A m \in DOMAIN heap : m # r => lo2[m] = lo[m]
       /\ \A m \in DOMAIN heap : m # n => hi2[m] = hi[m]
       /\ lo2[r] = z + 1 /\ hi2[n] = z
    BY <1>7 DEF MeetAt
<1>11. Kept(heap', root', rightmost', size', lo2, hi2, C)
    <2>1. size = Len(C) /\ hi[rightmost] = Len(C)
        <3>1. Kept(heap, root, rightmost, size, lo, hi, C)
            BY StateIs
        <3>2. QED
            BY <1>8, <3>1 DEF Kept
    <2>2. rightmost \in DOMAIN heap
        BY <1>8 DEF IInv, Ended, LeafOf
    <2>3. hi2[rightmost] = Len(C)
        BY <1>9, <1>10, <2>1, <2>2
    <2>4. QED
        BY <1>1, <1>5, <1>7, <2>1, <2>3 DEF Kept
<1>12. ASSUME heap[n].leaf
       PROVE  StayAcross(lo, lo2, n, r, Count(heap, n), k)
    <2>1. PICK a, y : a = Count(heap, n) /\ y = lo[n]
        OBVIOUS
    <2>2. Beside(lo, n, r, y, a)
        BY <1>9, <1>12, <2>1
    <2>3. Beside(lo2, n, r, y, k)
        <3>1. r # n /\ y \in Int /\ lo[n] = y
            BY <2>2 DEF Beside
        <3>2. lo2[n] = y /\ lo2[r] = y + k + 1
            BY <1>1, <1>7, <1>8, <1>10, <1>12, <3>1
        <3>3. k \in Int
            BY <1>1, NodeValuesAssumption
        <3>4. QED
            BY <3>1, <3>2, <3>3 DEF Beside
    <2>4. ASSUME NEW f \in {n, r}, NEW m \in {n, r}, NEW i \in Nat, NEW j \in Nat,
                 Across(n, k, m, j) = Across(n, a, f, i)
          PROVE  Gap(lo2, Slot(m, j)) = Gap(lo, Slot(f, i))
        <3>1. Gap(lo, Slot(f, i)) = y + Across(n, a, f, i) - 1
            BY <2>2, AcrossGap
        <3>2. Gap(lo2, Slot(m, j)) = y + Across(n, k, m, j) - 1
            BY <2>3, AcrossGap
        <3>3. QED
            BY <2>4, <3>1, <3>2
    <2>5. QED
        BY <2>1, <2>4 DEF StayAcross
<1>13. QED
    BY <1>10, <1>11, <1>12

\* The frames of the first and of the last invocation.
LEMMA FramesEnd ==
    ASSUME NEW lv, NEW S, Tree(heap, root, lv, S), Chain(heap, stack, lv)
    PROVE  /\ stack \in Seq(Frames) /\ Len(stack) \in Nat /\ Len(stack) >= 1
           /\ \E f \in DOMAIN heap, i \in Nat :
                 /\ Head(stack) = Slot(f, i) /\ f = Head(stack).node
                 /\ i = Head(stack).position /\ lv[f] = Len(stack) - 1
                 /\ heap[f].leaf <=> Len(stack) = 1
           /\ \E e \in DOMAIN heap : /\ stack[Len(stack)].node = e
                                     /\ heap[e].leaf
<1>1. PICK L \in Nat : L = Len(stack) /\ L >= 1
    BY FrameOf
<1>2. /\ stack \in Seq(Frames)
      /\ \A i \in 1..L : FrameIs(heap, stack[i], lv, L - i)
    BY <1>1, FrameOf
<1>3. PICK f \in DOMAIN heap, i \in 0..NodeValues :
         /\ Head(stack) = Slot(f, i) /\ f = Head(stack).node
         /\ i = Head(stack).position /\ lv[f] = L - 1
    BY <1>1, FrameOf
<1>4. heap[f].leaf <=> L = 1
    <2>1. heap[f].leaf <=> lv[f] = 0
        BY <1>3 DEF Tree, Sized
    <2>2. QED
        BY <1>1, <1>3, <2>1
<1>5. FrameIs(heap, stack[L], lv, 0)
    BY <1>1, <1>2
<1>6. PICK e \in DOMAIN heap : e = stack[L].node /\ lv[e] = 0
    BY <1>5 DEF FrameIs
<1>7. heap[e].leaf
    BY <1>6 DEF Tree, Sized
<1>8. i \in Nat
    BY <1>3, NodeValuesAssumption
<1>9. QED
    BY <1>1, <1>2, <1>3, <1>4, <1>6, <1>7, <1>8

\* Room was made for the frame: the place of insertion is the same.
LEMMA RoomOrders ==
    ASSUME pc \in {"make_room", "split"}, NEW C \in Seq(Values), NEW x \in Int,
           Meant(C, x, pc, call, source, count, erased),
           stack \in Seq(Frames), Len(stack) >= 1,
           NEW lo, Gap(lo, stack[Len(stack)]) = x, NEW lo2, NEW hi2,
           Kept(heap', root', rightmost', size', lo2, hi2, C),
           NEW s, RoomAt(s), call' = call, source' = source,
           count' = count, erased' = erased,
           Len(stack) = 1 => Gap(lo2, s) = Gap(lo, Head(stack)),
           Len(stack) # 1 =>
              lo2[stack[Len(stack)].node] = lo[stack[Len(stack)].node]
    PROVE  Holding(C)'
<1>1. CASE Len(stack) = 1
    <2>1. iter' = s /\ pc' = "room"
        BY <1>1 DEF RoomAt
    <2>2. Head(stack) = stack[Len(stack)]
        BY <1>1
    <2>3. Works(heap', lo2, hi2, pc', stack', iter', res', internal_delete', x)
        BY <1>1, <2>1, <2>2 DEF Works
    <2>4. Meant(C, x, pc', call', source', count', erased')
        BY <2>1, RoomWanted DEF InPlace
    <2>5. QED
        BY <2>3, <2>4, StateNext
<1>2. CASE Len(stack) # 1
    <2>1. stack' = Tail(stack) /\ pc' = "split"
        BY <1>2 DEF RoomAt
    <2>2. stack'[Len(stack')] = stack[Len(stack)]
        <3>1. PICK q, L : q = stack /\ L = Len(stack)
            OBVIOUS
        <3>2. q \in Seq(Frames) /\ L = Len(q) /\ L \in Nat /\ L >= 1 /\ L # 1
            BY <1>2, <3>1
        <3>3. Len(Tail(q)) = L - 1 /\ Tail(q)[L - 1] = q[L]
            BY ONLY <3>2
        <3>4. QED
            BY <2>1, <3>1, <3>2, <3>3
    <2>3. Works(heap', lo2, hi2, pc', stack', iter', res', internal_delete', x)
        BY <1>2, <2>1, <2>2 DEF Works, Gap
    <2>4. Meant(C, x, pc', call', source', count', erased')
        BY <2>1, RoomWanted DEF InPlace
    <2>5. QED
        BY <2>3, <2>4, StateNext
<1>3. QED
    BY <1>1, <1>2

LEMMA RoomBesideOrders ==
    ASSUME IInv, NEW C, Holding(C), RoomOnLeft \/ RoomOnRight
    PROVE  Holding(C)'
<1>1. PICK lo, hi, x : State(C, lo, hi, x)
    BY DEF Holding
<1>2. RoomBeside
    BY RoomOnLeftIs, RoomOnRightIs
<1>3. PICK n, r, a, b, k, c, i, m, j : MakesRoom(n, r, a, b, k, c, i, m, j)
    BY <1>2 DEF RoomBeside
<1>4. /\ pc = "make_room" /\ root' = root /\ rightmost' = rightmost
      /\ size' = size /\ call' = call
      /\ source' = source /\ count' = count /\ erased' = erased
    BY <1>2 DEF RoomBeside, OnlyNodesChange
<1>5. /\ a \in Nat /\ a = Count(heap, n) /\ b \in Nat /\ b = Count(heap, r)
      /\ k \in 1..NodeValues /\ c \in 1..NodeValues /\ c = a + b - k
      /\ heap' = Share(heap, n, k) /\ i = Head(stack).position
      /\ RoomAt(Slot(m, j))
      /\ Across(n, k, m, j) = Across(n, a, Head(stack).node, i)
      /\ m \in {n, r} /\ j \in Nat
    BY <1>3 DEF MakesRoom, Within
<1>6. /\ n \in DOMAIN heap /\ n # root /\ HasRight(heap, n)
      /\ r = Right(heap, n) /\ Head(stack).node \in {n, r}
    BY <1>3 DEF MakesRoom, Siblings
<1>7. PICK lv, S : Tree(heap, root, lv, S) /\ Chain(heap, stack, lv)
    BY <1>4, MakingRoom
<1>8. root # NoNode
    BY <1>4, MakingRoom
<1>9. SharedOnly(n, r, k)
    BY <1>4, <1>5, <1>6 DEF SharedOnly
<1>10. PICK lo2, hi2 :
          /\ Kept(heap', root', rightmost', size', lo2, hi2, C)
          /\ \A y \in DOMAIN heap : y # r => lo2[y] = lo[y]
          /\ heap[n].leaf => StayAcross(lo, lo2, n, r, Count(heap, n), k)
    BY <1>1, <1>8, <1>9, SharedKept
<1>11. PICK f \in DOMAIN heap, d \in Nat :
          /\ Head(stack) = Slot(f, d) /\ f = Head(stack).node
          /\ d = Head(stack).position
          /\ heap[f].leaf <=> Len(stack) = 1
    BY <1>7, FramesEnd
<1>12. PICK e \in DOMAIN heap : stack[Len(stack)].node = e /\ heap[e].leaf
    BY <1>7, FramesEnd
<1>13. heap[r].leaf <=> heap[n].leaf
    BY <1>6, <1>7, SiblingsAre
<1>14. heap[n].leaf <=> Len(stack) = 1
    BY <1>6, <1>11, <1>13
<1>15. Len(stack) = 1 => Gap(lo2, Slot(m, j)) = Gap(lo, Head(stack))
    BY <1>5, <1>6, <1>10, <1>11, <1>14 DEF StayAcross
<1>16. Len(stack) # 1 =>
          lo2[stack[Len(stack)].node] = lo[stack[Len(stack)].node]
    BY <1>10, <1>12, <1>13, <1>14
<1>17. /\ C \in Seq(Values) /\ x \in Int
       /\ Works(heap, lo, hi, pc, stack, iter, res, internal_delete, x)
       /\ Meant(C, x, pc, call, source, count, erased)
    BY <1>1, StateIs
<1>18. Gap(lo, stack[Len(stack)]) = x
    BY <1>4, <1>17 DEF Works
<1>19. stack \in Seq(Frames) /\ Len(stack) >= 1
    BY <1>7, FramesEnd
<1>20. QED
    BY <1>4, <1>5, <1>10, <1>15, <1>16, <1>17, <1>18, <1>19, RoomOrders

LEMMA SplitNodeOrders ==
    ASSUME IInv, NEW C, Holding(C), SplitNode
    PROVE  Holding(C)'
<1>1. PICK lo, hi, x : State(C, lo, hi, x)
    BY DEF Holding
<1>2. /\ pc = "split" /\ root' = root /\ size' = size /\ call' = call
      /\ count' = count /\ erased' = erased /\ source' = source
    BY SplitNodeIs DEF SplitLeaves
<1>3. PICK lv, S, lw, n, i, new, k, s : Halved(lv, S, lw, n, i, new, k, s)
    BY SplitNodeIs
<1>4. /\ Tree(heap, root, lv, S) /\ Chain(heap, stack, lv)
      /\ n \in DOMAIN heap /\ i \in Int /\ k \in Nat /\ k < Count(heap, n)
      /\ Head(stack) = Slot(n, i) /\ n = Head(stack).node
      /\ n # root /\ new \in Nat /\ new \notin DOMAIN heap
    BY <1>3, NodeValuesAssumption DEF Halved
<1>5. PICK g : g = heap'
    OBVIOUS
<1>6. /\ Tree(g, root, lw, S) /\ DOMAIN g = DOMAIN heap \cup {new}
      /\ SplitOff(heap, g, n, new, k)
    BY <1>3, <1>5 DEF Halved, Parted
<1>7. /\ RoomAt(s) /\ s = IF i > k THEN Slot(new, i - k - 1) ELSE Slot(n, i)
      /\ rightmost' = IF rightmost = n THEN new ELSE rightmost
    BY <1>3 DEF Halved, RightmostAfterSplit
<1>8. root # NoNode
    BY <1>2, MakingRoom
<1>9. PICK lv0, S0 : HeldBy(C, lo, hi, lv0, S0)
    BY <1>1, <1>8, TreeHeld
<1>10. Holds(heap, root, lo, hi, C)
    BY <1>9 DEF HeldBy
<1>11. PICK z \in Int : \E lo2, hi2 :
         /\ Holds(g, root, lo2, hi2, C)
         /\ PartAt(heap, lo, hi, n, new, z, lo2, hi2)
         /\ heap[n].leaf => z = lo[n] + k
    <2>1. n \in DOMAIN heap /\ n # root /\ k \in Nat /\ k < Count(heap, n)
          /\ new \in Nat /\ new \notin DOMAIN heap
        BY <1>4
    <2>2. /\ Tree(g, root, lw, S) /\ DOMAIN g = DOMAIN heap \cup {new}
          /\ SplitOff(heap, g, n, new, k)
        BY <1>6
    <2>3. Tree(heap, root, lv, S) /\ Holds(heap, root, lo, hi, C)
        BY <1>4, <1>10
    <2>4. QED
        BY ONLY <2>1, <2>2, <2>3, SplitHolds
<1>12. PICK lo2, hi2 :
         /\ Holds(g, root, lo2, hi2, C)
         /\ PartAt(heap, lo, hi, n, new, z, lo2, hi2)
         /\ heap[n].leaf => z = lo[n] + k
    BY <1>11
<1>13. /\ \A m \in DOMAIN heap : lo2[m] = lo[m]
       /\ \A m \in DOMAIN heap : m # n => hi2[m] = hi[m]
       /\ lo2[new] = z + 1 /\ hi2[new] = hi[n]
    BY <1>12 DEF PartAt
<1>14. /\ C \in Seq(Values) /\ x \in Int
       /\ Kept(heap, root, rightmost, size, lo, hi, C)
       /\ Works(heap, lo, hi, pc, stack, iter, res, internal_delete, x)
       /\ Meant(C, x, pc, call, source, count, erased)
    BY <1>1, StateIs
<1>15. ~heap[root].leaf
    BY <1>4, LoneLeaf
<1>16. Kept(heap', root', rightmost', size', lo2, hi2, C)
    <2>1. size = Len(C) /\ hi[rightmost] = Len(C) /\ rightmost \in DOMAIN heap
        BY <1>8, <1>14, <1>15 DEF Kept, IInv, Ended, LeafOf
    <2>2. hi2[rightmost'] = Len(C)
        BY <1>7, <1>13, <2>1
    <2>3. QED
        BY <1>2, <1>5, <1>8, <1>12, <2>1, <2>2 DEF Kept
<1>17. stack \in Seq(Frames) /\ Len(stack) >= 1
    BY <1>4, FramesEnd
<1>18. PICK e \in DOMAIN heap : stack[Len(stack)].node = e
    BY <1>4, FramesEnd
<1>19. lo2[stack[Len(stack)].node] = lo[stack[Len(stack)].node]
    BY <1>13, <1>18
<1>20. Gap(lo, stack[Len(stack)]) = x
    BY <1>2, <1>14 DEF Works
<1>21. ASSUME Len(stack) = 1
       PROVE  Gap(lo2, s) = Gap(lo, Head(stack))
    <2>1. heap[n].leaf
        BY <1>4, <1>21, FramesEnd
    <2>2. PICK y \in Int : y = lo[n]
        BY <1>4, <1>10, RangesAre
    <2>3. lo2[n] = y /\ lo2[new] = y + k + 1 /\ lo[n] = y
        BY <1>4, <1>12, <1>13, <2>1, <2>2
    <2>4. Gap(lo, Head(stack)) = y + i
        BY <1>4, <2>3, SlotIs DEF Gap
    <2>5. CASE i > k
        <3>1. Gap(lo2, s) = y + k + 1 + (i - k - 1)
            BY <1>7, <2>3, <2>5, SlotIs DEF Gap
        <3>2. QED
            BY <1>4, <2>4, <3>1
    <2>6. CASE ~(i > k)
        BY <1>7, <2>3, <2>4, <2>6, SlotIs DEF Gap
    <2>7. QED
        BY <2>5, <2>6
<1>22. pc \in {"make_room", "split"}
    BY <1>2
<1>23. QED
    BY <1>2, <1>7, <1>14, <1>16, <1>17, <1>19, <1>20, <1>21, <1>22, RoomOrders

\* Room was made in the parent: the frame goes on.
LEMMA SplitNextOrders ==
    ASSUME pc = "make_room", pc' = "split", NEW C \in Seq(Values), NEW x \in Int,
           Meant(C, x, pc, call, source, count, erased),
           NEW lo, Gap(lo, stack[Len(stack)]) = x, NEW lo2, NEW hi2,
           Kept(heap', root', rightmost', size', lo2, hi2, C),
           Gap(lo2, stack'[Len(stack')]) = Gap(lo, stack[Len(stack)]),
           call' = call, source' = source, count' = count, erased' = erased
    PROVE  Holding(C)'
<1>1. Works(heap', lo2, hi2, pc', stack', iter', res', internal_delete', x)
    BY DEF Works
<1>2. Meant(C, x, pc', call', source', count', erased')
    BY RoomWanted DEF InPlace
<1>3. QED
    BY <1>1, <1>2, StateNext

LEMMA NewRootAboveLeafOrders ==
    ASSUME IInv, NEW C, Holding(C), NewRootAboveLeaf
    PROVE  Holding(C)'
<1>1. PICK lo, hi, x : State(C, lo, hi, x)
    BY DEF Holding
<1>2. PICK new : new = Fresh(heap)
    OBVIOUS
<1>3. PICK n : n = Head(stack).node
    OBVIOUS
<1>4. /\ pc = "make_room" /\ pc' = "split" /\ n = root /\ heap[root].leaf
      /\ heap' = RootAbove(heap, root, new) /\ root' = new
      /\ rightmost' = heap[root].parent
      /\ size' = Count(heap, heap[root].parent)
      /\ call' = call /\ stack' = stack /\ count' = count /\ erased' = erased
      /\ source' = source
    BY <1>2, <1>3 DEF NewRootAboveLeaf, Frame, RootIsLeaf, RootAbove,
       GrownAbove
<1>5. PICK lv, S : Tree(heap, root, lv, S) /\ Chain(heap, stack, lv)
    BY <1>4, MakingRoom
<1>6. root # NoNode
    BY <1>4, MakingRoom
<1>7. heap[root].max_count = NodeValues
    BY <1>3, <1>4, <1>5, FrameOf
<1>8. new \notin DOMAIN heap /\ root \in DOMAIN heap /\ new # NoNode
    BY <1>2, <1>5, FreshIsNew DEF Tree
<1>9. PICK lw : lw = [m \in {root, new} |-> IF m = root THEN 0 ELSE 1]
    OBVIOUS
<1>10. lw[root] = 0 /\ lw[new] = 1
    BY <1>8, <1>9
<1>11. PICK g : g = heap'
    OBVIOUS
<1>12. Raised(heap, g, root, new)
    BY <1>2, <1>4, <1>5, <1>7, <1>10, <1>11, NewAboveIs
<1>13. PICK lv0, S0 : HeldBy(C, lo, hi, lv0, S0)
    BY <1>1, <1>6, TreeHeld
<1>14. Holds(heap, root, lo, hi, C)
    BY <1>13 DEF HeldBy
<1>15. PICK lo2, hi2 : /\ Holds(g, new, lo2, hi2, C)
                       /\ lo2[root] = lo[root] /\ hi2[root] = Len(C)
    BY <1>4, <1>5, <1>12, <1>14, RaisedHolds
<1>16. /\ C \in Seq(Values) /\ x \in Int
       /\ Works(heap, lo, hi, pc, stack, iter, res, internal_delete, x)
       /\ Meant(C, x, pc, call, source, count, erased)
    BY <1>1, StateIs
<1>17. rightmost' = root /\ size' = Len(C)
    <2>1. heap[root].parent = root
        BY <1>4, <1>5, LoneLeaf
    <2>2. heap[root].values = C
        BY <1>4, <1>5, <1>14, LeafHas
    <2>3. QED
        BY <1>4, <2>1, <2>2 DEF Count
<1>18. Kept(heap', root', rightmost', size', lo2, hi2, C)
    BY <1>4, <1>8, <1>11, <1>15, <1>17 DEF Kept
<1>19. PICK e \in DOMAIN heap : stack[Len(stack)].node = e
    BY <1>5, FramesEnd
<1>20. e = root
    BY <1>4, <1>5, LoneLeaf
<1>21. Gap(lo2, stack'[Len(stack')]) = Gap(lo, stack[Len(stack)])
    BY <1>4, <1>15, <1>19, <1>20 DEF Gap
<1>22. Gap(lo, stack[Len(stack)]) = x
    BY <1>4, <1>16 DEF Works
<1>23. QED
    BY <1>4, <1>16, <1>18, <1>21, <1>22, SplitNextOrders

LEMMA NewNodeBelowRootOrders ==
    ASSUME IInv, NEW C, Holding(C), NewNodeBelowRoot
    PROVE  Holding(C)'
<1>1. PICK lo, hi, x : State(C, lo, hi, x)
    BY DEF Holding
<1>2. PICK new : new = Fresh(heap)
    OBVIOUS
<1>3. PICK n : n = Head(stack).node
    OBVIOUS
<1>4. /\ pc = "make_room" /\ pc' = "split" /\ n = root /\ ~heap[root].leaf
      /\ heap' = RootBelow(heap, root, new) /\ root' = root
      /\ rightmost' = rightmost /\ size' = size
      /\ stack' = [stack EXCEPT ![1].node = new]
      /\ call' = call /\ count' = count /\ erased' = erased /\ source' = source
    BY <1>2, <1>3 DEF NewNodeBelowRoot, Frame, RootIsLeaf, RootBelow,
       GrownAbove
<1>5. PICK lv, S : Tree(heap, root, lv, S) /\ Chain(heap, stack, lv)
    BY <1>4, MakingRoom
<1>6. root # NoNode
    BY <1>4, MakingRoom
<1>7. new \notin DOMAIN heap /\ root \in DOMAIN heap
    BY <1>2, <1>5, FreshIsNew DEF Tree
<1>8. PICK lw : lw = [m \in DOMAIN heap \cup {new} |->
                         IF m = new THEN lv[root]
                         ELSE IF m = root THEN lv[root] + 1 ELSE lv[m]]
    OBVIOUS
<1>9. /\ lw[root] = lv[root] + 1 /\ lw[new] = lv[root]
      /\ \A m \in DOMAIN heap \ {root} : lw[m] = lv[m]
    BY <1>7, <1>8
<1>10. PICK g : g = heap'
    OBVIOUS
<1>11. Lowered(heap, g, root, new)
    BY <1>2, <1>4, <1>5, <1>9, <1>10, NewBelowIs
<1>12. PICK lv0, S0 : HeldBy(C, lo, hi, lv0, S0)
    BY <1>1, <1>6, TreeHeld
<1>13. Holds(heap, root, lo, hi, C)
    BY <1>12 DEF HeldBy
<1>14. PICK lo2, hi2 : /\ Holds(g, root, lo2, hi2, C)
                       /\ \A m \in DOMAIN heap : lo2[m] = lo[m] /\ hi2[m] = hi[m]
    BY <1>4, <1>5, <1>7, <1>11, <1>13, LoweredHolds
<1>15. /\ C \in Seq(Values) /\ x \in Int
       /\ Kept(heap, root, rightmost, size, lo, hi, C)
       /\ Works(heap, lo, hi, pc, stack, iter, res, internal_delete, x)
       /\ Meant(C, x, pc, call, source, count, erased)
    BY <1>1, StateIs
<1>16. Kept(heap', root', rightmost', size', lo2, hi2, C)
    <2>1. size = Len(C) /\ hi[rightmost] = Len(C) /\ rightmost \in DOMAIN heap
        BY <1>4, <1>6, <1>15 DEF Kept, IInv, Ended, LeafOf
    <2>2. QED
        BY <1>4, <1>6, <1>10, <1>14, <2>1 DEF Kept
<1>17. Len(stack) # 1
    BY <1>3, <1>4, <1>5, FramesEnd
<1>18. stack'[Len(stack')] = stack[Len(stack)]
    <2>1. PICK q, L : q = stack /\ L = Len(stack)
        OBVIOUS
    <2>2. q \in Seq(Frames) /\ L = Len(q) /\ L \in Nat /\ L >= 1 /\ L # 1
        BY <1>5, <1>17, <2>1, FramesEnd
    <2>3. PICK r : r = [q EXCEPT ![1].node = new]
        OBVIOUS
    <2>4. Len(r) = L /\ r[L] = q[L]
        <3>1. L \in 1..Len(q) /\ L # 1
            BY <2>2
        <3>2. QED
            BY <2>2, <2>3, <3>1
    <2>5. QED
        BY <1>4, <2>1, <2>3, <2>4
<1>19. PICK e \in DOMAIN heap : stack[Len(stack)].node = e
    BY <1>5, FramesEnd
<1>20. Gap(lo2, stack'[Len(stack')]) = Gap(lo, stack[Len(stack)])
    BY <1>14, <1>18, <1>19 DEF Gap
<1>21. Gap(lo, stack[Len(stack)]) = x
    BY <1>4, <1>15 DEF Works
<1>22. QED
    BY <1>4, <1>15, <1>16, <1>20, <1>21, SplitNextOrders

(***************************************************************************)
(* The way back up, in order                                               *)
(***************************************************************************)

\* The place to return is the same.
LEMMA RiseOrders ==
    ASSUME pc = "rebalance", pc' \in {"rebalance", "advance"},
           NEW C \in Seq(Values), NEW x, NEW lo, NEW hi, NEW lo2, NEW hi2,
           Works(heap, lo, hi, pc, stack, iter, res, internal_delete, x),
           Meant(C, x, pc, call, source, count, erased),
           Kept(heap', root', rightmost', size', lo2, hi2, C),
           Gap(lo2, res') = Gap(lo, res), internal_delete' = internal_delete,
           call' = call, source' = source, count' = count, erased' = erased
    PROVE  Holding(C)'
<1>1. Works(heap', lo2, hi2, pc', stack', iter', res', internal_delete', x)
    BY DEF Works
<1>2. Due(C, pc', call', count', erased', x)
    BY DEF Due, Meant, Erasing
<1>3. Meant(C, x, pc', call', source', count', erased')
    BY <1>2 DEF Meant, Erasing, InPlace
<1>4. QED
    BY <1>1, <1>3, StateNext

LEMMA TakeFromSiblingOrders ==
    ASSUME IInv, NEW C, Holding(C), TakeFromLeft \/ TakeFromRight
    PROVE  Holding(C)'
<1>1. PICK lo, hi, x : State(C, lo, hi, x)
    BY DEF Holding
<1>2. /\ pc = "rebalance" /\ pc' = "advance" /\ root' = root
      /\ rightmost' = rightmost /\ size' = size /\ call' = call
      /\ source' = source /\ count' = count /\ erased' = erased
      /\ internal_delete' = internal_delete
    BY TakeFromLeftIs, TakeFromRightIs DEF WayEnds
<1>3. PICK n, r, k : SharesOut(n, r, k)
    BY TakeFromLeftIs, TakeFromRightIs
<1>4. SharedOnly(n, r, k) /\ n \in DOMAIN heap /\ n # root /\ HasRight(heap, n)
      /\ r = Right(heap, n)
    BY <1>2, <1>3 DEF SharesOut, SharedOnly
<1>5. root # NoNode /\ LeafPlaceOf(heap, res)
    BY <1>2, OnTheWayUp
<1>6. PICK lo2, hi2 :
         /\ Kept(heap', root', rightmost', size', lo2, hi2, C)
         /\ \A y \in DOMAIN heap : y # r => lo2[y] = lo[y]
         /\ heap[n].leaf => StayAcross(lo, lo2, n, r, Count(heap, n), k)
    BY <1>1, <1>4, <1>5, SharedKept
<1>7. Gap(lo2, res') = Gap(lo, res)
    <2>1. CASE heap[n].leaf
        <3>1. SamePlace(n, r, k)
            BY <1>3, <2>1 DEF SharesOut
        <3>2. QED
            BY <1>6, <2>1, <3>1 DEF SamePlace, StayAcross
    <2>2. CASE ~heap[n].leaf
        <3>1. res' = res
            BY <1>3, <2>2 DEF SharesOut
        <3>2. PICK lv, S : Tree(heap, root, lv, S)
            BY <1>2, OnTheWayUp
        <3>3. heap[r].leaf <=> heap[n].leaf
            BY <1>4, <3>2, SiblingsAre
        <3>4. PICK m \in DOMAIN heap, i \in Nat : res = Slot(m, i) /\ heap[m].leaf
            BY <1>5 DEF LeafPlaceOf
        <3>5. res.node = m /\ m # r
            BY <2>2, <3>3, <3>4, SlotIs
        <3>6. QED
            BY <1>6, <3>1, <3>5 DEF Gap
    <2>3. QED
        BY <2>1, <2>2
<1>8. /\ C \in Seq(Values)
      /\ Works(heap, lo, hi, pc, stack, iter, res, internal_delete, x)
      /\ Meant(C, x, pc, call, source, count, erased)
    BY <1>1, StateIs
<1>9. QED
    BY <1>2, <1>6, <1>7, <1>8, RiseOrders

LEMMA MergeOrders ==
    ASSUME IInv, NEW C, Holding(C), MergeLeft \/ MergeRight
    PROVE  Holding(C)'
<1>1. PICK lo, hi, x : State(C, lo, hi, x)
    BY DEF Holding
<1>2. PICK n, r, s : TakesIn(n, r, s)
    BY MergeLeftIs, MergeRightIs
<1>3. /\ n \in DOMAIN heap /\ n # root /\ HasRight(heap, n)
      /\ r = Right(heap, n) /\ Fit(n, r)
      /\ heap' = Merge(heap, n)
      /\ rightmost' = (IF rightmost = r THEN n ELSE rightmost)
      /\ res' = (IF heap[n].leaf THEN s ELSE res)
      /\ root' = root /\ size' = size /\ pc' = pc /\ call' = call
      /\ internal_delete' = internal_delete /\ count' = count
      /\ erased' = erased /\ source' = source
    BY <1>2 DEF TakesIn, MergeNodes
<1>4. pc = "rebalance"
    BY MergeLeftIs, MergeRightIs
<1>5. root # NoNode
    BY <1>4, OnTheWayUp
<1>6. PICK lv, S : HeldBy(C, lo, hi, lv, S)
    BY <1>1, <1>5, TreeHeld
<1>7. Tree(heap, root, lv, S) /\ Holds(heap, root, lo, hi, C)
    BY <1>6 DEF HeldBy
<1>8. PICK g : g = heap'
    OBVIOUS
<1>9. /\ Tree(g, root, lv, S) /\ DOMAIN g = DOMAIN heap \ {r}
      /\ TakenIn(heap, g, n, r, ValuesOfBoth(heap, n, r), Both(heap, n, r))
    <2>1. 1 + Count(heap, n) + Count(heap, r) <= heap[n].max_count
        BY <1>3 DEF Fit
    <2>2. QED
        BY <1>3, <1>7, <1>8, <2>1, MergeIs DEF Merged
<1>10. PICK hi2 : hi2 = [m \in DOMAIN heap |-> IF m = n THEN hi[r] ELSE hi[m]]
    OBVIOUS
<1>11. Holds(g, root, lo, hi2, C)
    BY <1>3, <1>7, <1>9, <1>10, MergeHolds
<1>12. /\ r \in DOMAIN heap /\ ~heap[root].leaf /\ r # n
       /\ heap[r].leaf <=> heap[n].leaf
    BY <1>3, <1>7, SiblingsAre
<1>13. /\ hi[n] # Len(C)
       /\ heap[n].leaf => Beside(lo, n, r, lo[n], Count(heap, n))
    BY <1>3, <1>7, SiblingsBeside
<1>14. /\ C \in Seq(Values)
       /\ Kept(heap, root, rightmost, size, lo, hi, C)
       /\ Works(heap, lo, hi, pc, stack, iter, res, internal_delete, x)
       /\ Meant(C, x, pc, call, source, count, erased)
    BY <1>1, StateIs
<1>15. Kept(heap', root', rightmost', size', lo, hi2, C)
    <2>1. size = Len(C) /\ hi[rightmost] = Len(C) /\ rightmost \in DOMAIN heap
        BY <1>5, <1>12, <1>14 DEF Kept, IInv, Ended, LeafOf
    <2>2. hi2[rightmost'] = Len(C)
        BY <1>3, <1>10, <1>13, <2>1
    <2>3. QED
        BY <1>3, <1>5, <1>8, <1>11, <2>1, <2>2 DEF Kept
<1>16. Gap(lo, res') = Gap(lo, res)
    <2>1. CASE heap[n].leaf
        <3>1. PICK a, y : a = Count(heap, n) /\ y = lo[n]
            OBVIOUS
        <3>2. PICK f \in {n, r}, i \in Nat, j \in Nat :
                 res = Slot(f, i) /\ s = Slot(n, j) /\ j + 1 = Across(n, a, f, i)
            BY <1>2, <2>1, <3>1 DEF TakesIn
        <3>3. Beside(lo, n, r, y, a)
            BY <1>13, <2>1, <3>1
        <3>4. Gap(lo, Slot(f, i)) = y + Across(n, a, f, i) - 1
            BY <3>3, AcrossGap
        <3>5. Gap(lo, Slot(n, j)) = y + j /\ y \in Int
            BY <3>1, <3>3, SlotIs DEF Gap, Beside
        <3>6. y + Across(n, a, f, i) - 1 = y + j
            BY <3>2, <3>5
        <3>7. QED
            BY <1>3, <2>1, <3>2, <3>4, <3>5, <3>6
    <2>2. CASE ~heap[n].leaf
        BY <1>3, <2>2
    <2>3. QED
        BY <2>1, <2>2
<1>17. QED
    BY <1>3, <1>4, <1>14, <1>15, <1>16, RiseOrders

\* The last value is gone, and so are the contents.
LEMMA LastValueErasedOrders ==
    ASSUME IInv, NEW C, Holding(C), LastValueErased
    PROVE  C = <<>> /\ pc' = "done" /\ source = <<>> /\ Holding(C)'
<1>1. PICK lo, hi, x : State(C, lo, hi, x)
    BY DEF Holding
<1>2. /\ pc = "rebalance" /\ iter.node = root /\ Count(heap, root) = 0
      /\ heap[root].leaf /\ root' = NoNode
      /\ pc' = (IF erased < count THEN "erase" ELSE "done")
      /\ call' = call /\ source' = source /\ count' = count /\ erased' = erased
    BY DEF LastValueErased, RootReached, EraseReturns, RootIsLeaf
<1>3. PICK lv, S : HeldBy(C, lo, hi, lv, S)
    BY <1>1, <1>2, OnTheWayUp, TreeHeld
<1>4. Tree(heap, root, lv, S) /\ Holds(heap, root, lo, hi, C)
    BY <1>3 DEF HeldBy
<1>5. DOMAIN heap = {root}
    BY <1>2, <1>4, LoneLeaf
<1>6. pc' = "done"
    <2>1. Weight(heap) = 0
        BY <1>2, <1>5, WeightNone
    <2>2. QED
        BY <1>2, <2>1, OnTheWayUp
<1>7. /\ C \in Seq(Values) /\ source = <<>>
      /\ Meant(C, x, pc, call, source, count, erased) /\ x \in Int
    BY <1>1, <1>2, StateIs DEF InPlace
<1>8. C = <<>>
    <2>1. heap[root].values = C
        BY <1>2, <1>4, LeafHas
    <2>2. Len(heap[root].values) = Count(heap, root)
        BY <1>5, <1>4, CountIs DEF Tree
    <2>3. QED
        BY <1>2, <1>7, <2>1, <2>2
<1>9. Kept(heap', root', rightmost', size', lo, hi, C)
    BY <1>2, <1>8 DEF Kept
<1>10. Works(heap', lo, hi, pc', stack', iter', res', internal_delete', x)
    BY <1>6, <1>7 DEF Works
<1>11. Meant(C, x, pc', call', source', count', erased')
    BY <1>2, <1>6, <1>7, MeantNext
<1>12. Holding(C)'
    BY <1>7, <1>9, <1>10, <1>11, StateNext
<1>13. QED
    BY <1>6, <1>7, <1>8, <1>12

\* The leaf that becomes the root has all of the contents.
LEMMA LeafBecomesRootOrders ==
    ASSUME IInv, NEW C, Holding(C), LeafBecomesRoot
    PROVE  Holding(C)'
<1>1. PICK lo, hi, x : State(C, lo, hi, x)
    BY DEF Holding
<1>2. PICK c : c = Child(heap, root, 0)
    OBVIOUS
<1>3. /\ pc = "rebalance" /\ pc' = "advance" /\ iter.node = root
      /\ Count(heap, root) = 0 /\ ~heap[root].leaf /\ heap[c].leaf
      /\ heap' = RootDropped(heap, root, c) /\ root' = c
      /\ count' = count /\ erased' = erased /\ res' = res /\ call' = call
      /\ internal_delete' = internal_delete /\ source' = source
    BY <1>2 DEF LeafBecomesRoot, RootReached, RootIsLeaf, RootDropped
<1>4. root # NoNode /\ LeafPlaceOf(heap, res)
    BY <1>3, OnTheWayUp
<1>5. PICK lv, S : HeldBy(C, lo, hi, lv, S)
    BY <1>1, <1>4, TreeHeld
<1>6. Tree(heap, root, lv, S) /\ Holds(heap, root, lo, hi, C)
    BY <1>5 DEF HeldBy
<1>7. OnlyKid(heap, root, c)
    BY <1>2, <1>3 DEF OnlyKid
<1>8. PICK g : g = heap'
    OBVIOUS
<1>9. /\ Lone(g, c, NodeValues, Count(heap, c)) /\ DOMAIN heap = {root, c}
      /\ g[c].values = heap[c].values
    <2>1. g = RootDropped(heap, root, c)
        BY <1>3, <1>8
    <2>2. /\ Lone(g, c, NodeValues, Count(heap, c)) /\ DOMAIN heap = {root, c}
          /\ SameValues(heap, c, g, c)
        BY <1>3, <1>6, <1>7, <2>1, LeafRootIs
    <2>3. QED
        BY <2>2 DEF SameValues
<1>10. heap[c].values = C /\ lo[c] = 0
    BY <1>3, <1>6, <1>7, OnlyLeafHas
<1>11. PICK lo2, hi2 : Holds(g, c, lo2, hi2, C) /\ lo2[c] = 0
    BY <1>9, <1>10, LeafHolds
<1>12. Kept(heap', root', rightmost', size', lo2, hi2, C)
    <2>1. c # NoNode /\ g[c].leaf
        BY <1>6, <1>9, NodeIs DEF Tree, Lone
    <2>2. QED
        BY <1>3, <1>8, <1>11, <2>1 DEF Kept
<1>13. Gap(lo2, res') = Gap(lo, res)
    <2>1. PICK n \in DOMAIN heap, i \in Nat : res = Slot(n, i) /\ heap[n].leaf
        BY <1>4 DEF LeafPlaceOf
    <2>2. res.node = c
        BY <1>3, <1>9, <2>1, SlotIs
    <2>3. QED
        BY <1>3, <1>10, <1>11, <2>2 DEF Gap
<1>14. /\ C \in Seq(Values)
       /\ Works(heap, lo, hi, pc, stack, iter, res, internal_delete, x)
       /\ Meant(C, x, pc, call, source, count, erased)
    BY <1>1, StateIs
<1>15. QED
    BY <1>3, <1>12, <1>13, <1>14, RiseOrders

\* The root has what its only child had.
LEMMA ChildMovesIntoRootOrders ==
    ASSUME IInv, NEW C, Holding(C), ChildMovesIntoRoot
    PROVE  Holding(C)'
<1>1. PICK lo, hi, x : State(C, lo, hi, x)
    BY DEF Holding
<1>2. PICK c : c = Child(heap, root, 0)
    OBVIOUS
<1>3. /\ pc = "rebalance" /\ pc' = "advance" /\ iter.node = root
      /\ Count(heap, root) = 0 /\ ~heap[root].leaf /\ ~heap[c].leaf
      /\ heap' = RootReplaced(heap, root, c) /\ root' = root
      /\ rightmost' = rightmost /\ size' = size
      /\ count' = count /\ erased' = erased /\ res' = res /\ call' = call
      /\ internal_delete' = internal_delete /\ source' = source
    BY <1>2 DEF ChildMovesIntoRoot, RootReached, RootIsLeaf, RootReplaced
<1>4. root # NoNode
    BY <1>3, OnTheWayUp
<1>5. PICK lv, S : HeldBy(C, lo, hi, lv, S)
    BY <1>1, <1>4, TreeHeld
<1>6. Tree(heap, root, lv, S) /\ Holds(heap, root, lo, hi, C)
    BY <1>5 DEF HeldBy
<1>7. OnlyKid(heap, root, c)
    BY <1>2, <1>3 DEF OnlyKid
<1>8. c # root /\ root \in DOMAIN heap
    BY <1>3, <1>6, <1>7, OnlyChild, RootOfTree
<1>9. PICK g : g = heap'
    OBVIOUS
<1>10. Sunk(heap, g, root, c)
    <2>1. PICK lw : lw = [m \in DOMAIN heap |-> IF m = root THEN lv[c] ELSE lv[m]]
        OBVIOUS
    <2>2. lw[root] = lv[c] /\ \A m \in DOMAIN heap \ {root} : lw[m] = lv[m]
        BY <1>8, <2>1
    <2>3. QED
        BY <1>3, <1>6, <1>7, <1>9, <2>2, SunkIs
<1>11. Holds(g, root, lo, hi, C)
    BY <1>3, <1>6, <1>7, <1>10, SunkHolds
<1>12. /\ C \in Seq(Values)
       /\ Kept(heap, root, rightmost, size, lo, hi, C)
       /\ Works(heap, lo, hi, pc, stack, iter, res, internal_delete, x)
       /\ Meant(C, x, pc, call, source, count, erased)
    BY <1>1, StateIs
<1>13. Kept(heap', root', rightmost', size', lo, hi, C)
    BY <1>3, <1>4, <1>9, <1>11, <1>12 DEF Kept
<1>14. Gap(lo, res') = Gap(lo, res)
    BY <1>3
<1>15. QED
    BY <1>3, <1>12, <1>13, <1>14, RiseOrders

(***************************************************************************)
(* A value is removed, in order                                            *)
(***************************************************************************)

\* Removing a value changes the values of one node only.
LEMMA RemoveOnly ==
    ASSUME NEW h, NEW top, NEW lv, NEW S, Tree(h, top, lv, S),
           NEW n \in DOMAIN h, NEW i \in Nat, i < Count(h, n),
           NEW s, s = Slot(n, i), NEW g, g = RemoveValue(h, s)
    PROVE  OnlyValues(h, g, n, RemoveAt(h[n].values, i + 1))
<1>1. Heap(h) /\ h[n].values \in Seq(Values) /\ Len(h[n].values) = Count(h, n)
    <2>1. Heap(h)
        BY DEF Tree
    <2>2. h[n].values \in Seq(Values) /\ Count(h, n) = Len(h[n].values)
        BY NodeRowIs DEF Count
    <2>3. QED
        BY <2>1, <2>2
<1>2. PICK q \in Seq(Values) : q = h[n].values
    BY <1>1
<1>3. PICK j \in 1..Len(q) : j = i + 1
    <2>1. Len(q) = Count(h, n)
        BY <1>1, <1>2
    <2>2. Len(q) \in Nat /\ i < Len(q)
        BY <2>1
    <2>3. QED
        BY <2>2
<1>4. PICK values : values = RemoveAt(q, j)
    OBVIOUS
<1>5. values \in Seq(Values)
    BY <1>4, RemoveAtIs
<1>6. g = [h EXCEPT ![n].values = values]
    BY <1>2, <1>3, <1>4, SlotIs DEF RemoveValue
<1>7. Revalued(h, g, n, values)
    BY <1>1, <1>5, <1>6, RevaluedIs
<1>8. OnlyValues(h, g, n, values)
    BY <1>7 DEF Revalued, OnlyValues, SameNode
<1>9. QED
    BY <1>2, <1>3, <1>4, <1>8

\* Another value at a place changes the values of one node only.
LEMMA ReplaceOnly ==
    ASSUME NEW h, Heap(h), NEW n \in DOMAIN h, NEW i, NEW v
    PROVE  OnlyValues(h, WithValue(h, n, i, v), n, [h[n].values EXCEPT ![i] = v])
<1>1. PICK g : g = WithValue(h, n, i, v)
    OBVIOUS
<1>2. h[n] \in Node /\ DOMAIN g = DOMAIN h
    BY <1>1, NodeIs DEF WithValue
<1>3. g[n] = [h[n] EXCEPT !.values = [h[n].values EXCEPT ![i] = v]]
    BY <1>1 DEF WithValue, Heap
<1>4. \A m \in DOMAIN h \ {n} : g[m] = h[m]
    BY <1>1 DEF WithValue
<1>5. /\ g[n].values = [h[n].values EXCEPT ![i] = v]
      /\ g[n].leaf = h[n].leaf /\ g[n].children = h[n].children
    BY <1>2, <1>3 DEF Node
<1>6. QED
    BY <1>1, <1>2, <1>4, <1>5 DEF OnlyValues, SameNode

\* A value overwritten by the one before it, which is then removed.
LEMMA ReplaceAndRemove ==
    ASSUME NEW C \in Seq(Values), NEW x \in 1..(Len(C) - 1),
           NEW E, E = [C EXCEPT ![x + 1] = C[x]]
    PROVE  RemoveAt(E, x) = RemoveAt(C, x + 1)
<1>1. /\ Len(C) \in Nat /\ E \in Seq(Values) /\ Len(E) = Len(C)
      /\ x \in 1..Len(C) /\ x \in 1..Len(E)
      /\ \A j \in 1..Len(C) : E[j] = IF j = x + 1 THEN C[x] ELSE C[j]
    OBVIOUS
<1>2. PICK y \in 1..Len(C) : y = x + 1
    BY <1>1
<1>3. PICK D : D = RemoveAt(C, y)
    OBVIOUS
<1>4. PICK F : F = RemoveAt(E, x)
    OBVIOUS
<1>5. /\ D \in Seq(Values) /\ Len(D) = Len(C) - 1
      /\ \A j \in 1..(Len(C) - 1) : D[j] = IF j < y THEN C[j] ELSE C[j + 1]
    <2>1. C \in Seq(Values) /\ y \in 1..Len(C)
        BY <1>2
    <2>2. QED
        BY ONLY <1>3, <2>1, RemoveAtIs
<1>6. /\ F \in Seq(Values) /\ Len(F) = Len(E) - 1
      /\ \A j \in 1..(Len(E) - 1) : F[j] = IF j < x THEN E[j] ELSE E[j + 1]
    BY <1>1, <1>4, RemoveAtIs
<1>7. ASSUME NEW j \in 1..Len(F)
      PROVE  F[j] = D[j]
    <2>1. /\ j \in 1..(Len(C) - 1) /\ j \in 1..(Len(E) - 1)
          /\ j \in 1..Len(C) /\ j + 1 \in 1..Len(C)
        BY ONLY <1>1, <1>6, <1>7
    <2>2. /\ F[j] = IF j < x THEN E[j] ELSE E[j + 1]
          /\ D[j] = IF j < y THEN C[j] ELSE C[j + 1]
        BY <1>5, <1>6, <2>1
    <2>3. /\ E[j] = IF j = x + 1 THEN C[x] ELSE C[j]
          /\ E[j + 1] = IF j + 1 = x + 1 THEN C[x] ELSE C[j + 1]
        BY <1>1, <2>1
    <2>4. CASE j < x
        BY <1>2, <2>2, <2>3, <2>4
    <2>5. CASE j = x
        BY <1>2, <2>2, <2>3, <2>5
    <2>6. CASE x < j
        BY <1>2, <2>2, <2>3, <2>6
    <2>7. j < x \/ j = x \/ x < j
        BY <2>1
    <2>8. QED
        BY <2>4, <2>5, <2>6, <2>7
<1>8. Len(F) = Len(D)
    BY <1>1, <1>5, <1>6
<1>9. F = D
    BY <1>5, <1>6, <1>7, <1>8, SeqEqual
<1>10. QED
    BY <1>2, <1>3, <1>4, <1>9

\* One value less is due.
LEMMA DueGoesOn ==
    ASSUME NEW C \in Seq(Values), NEW all \in Int, NEW gone \in Int, NEW x,
           Due(C, "erase", call, all, gone, x), x < Len(C),
           NEW D \in Seq(Values), Len(D) = Len(C) - 1,
           \A j \in 1..Len(D) : D[j] = IF j <= x THEN C[j] ELSE C[j + 1]
    PROVE  Due(D, "rebalance", call, all, gone + 1, x)
<1>1. Len(C) \in Nat /\ Len(D) \in Nat /\ x \in 0..Len(D)
    BY DEF Due
<1>2. CASE call.kind = "erase"
    <2>1. all = 1 /\ x = call.at /\ gone = 0
        BY <1>2 DEF Due
    <2>2. QED
        BY <1>1, <1>2, <2>1 DEF Due
<1>3. CASE call.kind = "erase_key"
    <2>1. PICK r \in Nat : r = all - gone
        BY <1>3 DEF Due
    <2>2. /\ gone < all /\ x + r \in 0..Len(C)
          /\ \A j \in 1..Len(C) : /\ KeyOf[C[j]] < call.key <=> j <= x
                                  /\ KeyOf[C[j]] <= call.key <=> j <= x + r
        BY <1>3, <2>1 DEF Due
    <2>3. /\ all - (gone + 1) \in Nat /\ all - (gone + 1) = r - 1
          /\ x + (r - 1) \in 0..Len(D)
        BY <1>1, <2>1, <2>2
    <2>4. ASSUME NEW j \in 1..Len(D)
          PROVE  /\ KeyOf[D[j]] < call.key <=> j <= x
                 /\ KeyOf[D[j]] <= call.key <=> j <= x + (r - 1)
        <3>1. CASE j <= x
            <4>1. D[j] = C[j] /\ j \in 1..Len(C)
                BY <1>1, <3>1
            <4>2. j <= x + r /\ j <= x + (r - 1)
                BY <1>1, <2>1, <2>2, <3>1
            <4>3. QED
                BY <2>2, <3>1, <4>1, <4>2
        <3>2. CASE ~(j <= x)
            <4>1. PICK i \in 1..Len(C) : i = j + 1 /\ D[j] = C[i]
                BY <1>1, <3>2
            <4>2. ~(i <= x) /\ (i <= x + r <=> j <= x + (r - 1))
                BY <1>1, <2>1, <2>2, <3>2, <4>1, SMTT(30)
            <4>3. QED
                BY <2>2, <3>2, <4>1, <4>2
        <3>3. QED
            BY <3>1, <3>2
    <2>5. QED
        BY <1>1, <1>3, <2>3, <2>4 DEF Due
<1>4. QED
    BY <1>2, <1>3 DEF Due

\* g holds the contents without the value behind the first x, and the place s
\* has the number y.
Without(h, g, top, hi, C, x, s, y) ==
    \E lo2, hi2 :
       /\ Holds(g, top, lo2, hi2, RemoveAt(C, x + 1))
       /\ Gap(lo2, s) = y
       /\ \A m \in DOMAIN h : hi[m] = Len(C) => hi2[m] = Len(C) - 1

\* A value on a leaf is removed.
LEMMA LeafRemovalHolds ==
    ASSUME NEW h, NEW top, NEW lv, NEW S, Tree(h, top, lv, S),
           NEW lo, NEW hi, NEW C, Holds(h, top, lo, hi, C),
           NEW n \in DOMAIN h, h[n].leaf, NEW i \in Nat, i < Count(h, n),
           NEW x, x = lo[n] + i, NEW s, s = Slot(n, i),
           NEW g, g = RemoveValue(h, s)
    PROVE  /\ x \in 0..(Len(C) - 1) /\ Without(h, g, top, hi, C, x, s, x)
<1>1. PICK w, D : w = RemoveAt(h[n].values, i + 1) /\ D = RemoveAt(C, x + 1)
    OBVIOUS
<1>2. PICK lo2, hi2 : Shifted(h, lo, hi, x, -1, lo2, hi2)
    BY NumbersShift
<1>3. /\ x \in 0..(Len(C) - 1) /\ lo2[n] = lo[n]
      /\ Holds(g, top, lo2, hi2, D)
    <2>1. Lessened(h, lo, hi, x, lo2, hi2)
        BY <1>2 DEF Lessened
    <2>2. OnlyValues(h, g, n, w)
        BY <1>1, RemoveOnly
    <2>3. /\ Tree(h, top, lv, S) /\ Holds(h, top, lo, hi, C)
          /\ n \in DOMAIN h /\ h[n].leaf /\ i \in Nat /\ i < Count(h, n)
          /\ x = lo[n] + i
        OBVIOUS
    <2>4. x \in 0..(Len(C) - 1)
        BY ONLY <1>1, <2>1, <2>2, <2>3, RemoveHolds
    <2>5. lo2[n] = lo[n]
        BY <1>2, <2>3 DEF Shifted, Holds, InOrder
    <2>6. Holds(g, top, lo2, hi2, D)
        BY ONLY <1>1, <2>1, <2>2, <2>3, RemoveHolds
    <2>7. QED
        BY <2>4, <2>5, <2>6
<1>4. Gap(lo2, s) = x
    BY <1>3, SlotIs DEF Gap
<1>5. ASSUME NEW m \in DOMAIN h, hi[m] = Len(C)
      PROVE  hi2[m] = Len(C) - 1
    <2>1. hi2[m] = IF hi[m] >= x THEN hi[m] + -1 ELSE hi[m]
        BY <1>2 DEF Shifted
    <2>2. C \in Seq(Values)
        BY DEF Holds
    <2>3. QED
        BY <1>3, <1>5, <2>1, <2>2
<1>6. QED
    BY <1>1, <1>3, <1>4, <1>5 DEF Without

\* The place before one on an internal node is the last one of a leaf, and its
\* number is the one before.
LEMMA PlaceBefore ==
    ASSUME NEW h, NEW top, NEW lv, NEW S, Tree(h, top, lv, S),
           NEW lo, NEW hi, NEW C, Holds(h, top, lo, hi, C),
           \A m \in DOMAIN h : Count(h, m) # 0,
           NEW n \in DOMAIN h, ~h[n].leaf, NEW i \in Nat, i < Count(h, n),
           NEW x, HasNumber(h, lo, hi, Slot(n, i), x),
           NEW s, s = Decrement(h, Slot(n, i))
    PROVE  /\ x \in 1..(Len(C) - 1) /\ ValueAt(h, s) = C[x]
           /\ C \in Seq(Values) /\ Len(C) \in Nat
           /\ \E l \in DOMAIN h, j \in Nat :
                 /\ h[l].leaf /\ s = Slot(l, j) /\ j < Count(h, l)
                 /\ lo[l] \in Int /\ lo[l] + j = x - 1
<1>1. PICK l \in DOMAIN h : h[l].leaf /\ s = Slot(l, Count(h, l) - 1)
    BY DecrementIs
<1>2. PICK a \in Nat : a = Count(h, l) /\ a # 0
    BY CountIs DEF Tree
<1>3. PICK j \in Nat : j = a - 1
    BY <1>2
<1>4. s = Slot(l, j) /\ s.node = l /\ s.position = j /\ j < Count(h, l)
    BY <1>1, <1>2, <1>3, SlotIs
<1>5. /\ C \in Seq(Values) /\ Len(C) \in Nat /\ x \in 0..(Len(C) - 1)
    BY NumberIn DEF HasNumber
<1>6. x # 0
    <2>1. PICK c \in DOMAIN h : c = Child(h, n, i)
        <3>1. i \in 0..Count(h, n)
            BY CountIs DEF Tree
        <3>2. QED
            BY <3>1, RanksStep
    <2>2. hi[c] = x
        BY <2>1, SlotIs DEF HasNumber, Number
    <2>3. PICK f : f = LastLeaf(h, c)
        OBVIOUS
    <2>4. f \in DOMAIN h /\ h[f].leaf /\ hi[f] = x
        BY <2>2, <2>3, LeafRanges DEF LeafOf
    <2>5. lo[f] \in Int /\ hi[f] = lo[f] + Count(h, f)
        BY <2>4 DEF Holds, InOrder
    <2>6. 0 <= lo[f]
        BY <2>4, RangesInside
    <2>7. Count(h, f) \in Nat /\ Count(h, f) # 0
        BY <2>4, CountIs DEF Tree
    <2>8. QED
        BY <2>4, <2>5, <2>6, <2>7
<1>7. HasNumber(h, lo, hi, s, x - 1)
    <2>1. x \in Int /\ x > 0 /\ x # Len(C)
        BY <1>5, <1>6
    <2>2. Names(h, top, lo, hi, C, Slot(n, i), x)
        BY <2>1 DEF Names
    <2>3. QED
        BY <2>1, <2>2, DecrementNumber
<1>8. lo[l] \in Int /\ lo[l] + j = x - 1
    BY <1>1, <1>4, <1>7 DEF HasNumber, Number, Holds, InOrder
<1>9. ValueAt(h, s) = C[x]
    <2>1. s \in Places(h) /\ Number(h, lo, hi, s) = x - 1
        BY <1>7 DEF HasNumber
    <2>2. ValueAt(h, s) = C[(x - 1) + 1]
        BY <2>1, ValueOfNumber
    <2>3. (x - 1) + 1 = x
        BY <1>5
    <2>4. QED
        BY <2>2, <2>3
<1>10. x \in 1..(Len(C) - 1)
    BY <1>5, <1>6
<1>11. QED
    BY <1>1, <1>4, <1>5, <1>8, <1>9, <1>10

\* A value on an internal node is overwritten by the one before it, which is
\* removed from its leaf.
LEMMA InternalRemovalHolds ==
    ASSUME NEW h, NEW top, NEW lv, NEW S, Tree(h, top, lv, S),
           NEW lo, NEW hi, NEW C, Holds(h, top, lo, hi, C),
           \A m \in DOMAIN h : Count(h, m) # 0,
           NEW n \in DOMAIN h, ~h[n].leaf, NEW i \in Nat, i < Count(h, n),
           NEW x, HasNumber(h, lo, hi, Slot(n, i), x),
           NEW s, s = Decrement(h, Slot(n, i)),
           NEW f, f = Swapped(h, Slot(n, i), s), NEW g, g = RemoveValue(f, s)
    PROVE  /\ x \in 0..(Len(C) - 1) /\ Without(h, g, top, hi, C, x, s, x - 1)
<1>1. /\ x \in 1..(Len(C) - 1) /\ ValueAt(h, s) = C[x]
      /\ C \in Seq(Values) /\ Len(C) \in Nat
      /\ \E l \in DOMAIN h, j \in Nat :
            /\ h[l].leaf /\ s = Slot(l, j) /\ j < Count(h, l)
            /\ lo[l] \in Int /\ lo[l] + j = x - 1
    BY PlaceBefore
<1>2. PICK l \in DOMAIN h, j \in Nat :
         /\ h[l].leaf /\ s = Slot(l, j) /\ j < Count(h, l)
         /\ lo[l] \in Int /\ lo[l] + j = x - 1
    BY <1>1
<1>3. PICK v \in Values : v = C[x]
    BY <1>1
<1>4. PICK k \in 1..Len(h[n].values) : k = i + 1
    <2>1. PICK L \in Nat : L = Len(h[n].values) /\ L = Count(h, n)
        BY CountIs DEF Tree
    <2>2. i + 1 \in 1..L
        BY <2>1
    <2>3. QED
        BY <2>1, <2>2
<1>5. f = WithValue(h, n, k, v)
    <2>1. Slot(n, i).node = n /\ Slot(n, i).position = i
        BY SlotIs
    <2>2. QED
        BY <1>1, <1>3, <1>4, <2>1 DEF Swapped, WithValue
<1>6. /\ Tree(f, top, lv, S) /\ SameShape(h, f)
      /\ \A m \in DOMAIN h : Count(f, m) = Count(h, m)
    BY <1>5, SwapIs
<1>7. OnlyValues(h, f, n, [h[n].values EXCEPT ![i + 1] = v])
    BY <1>4, <1>5, ReplaceOnly DEF Tree
<1>8. PICK E : E = [C EXCEPT ![x + 1] = v]
    OBVIOUS
<1>9. Holds(f, top, lo, hi, E)
    <2>1. x = Number(h, lo, hi, Slot(n, i))
        BY DEF HasNumber
    <2>2. QED
        BY <1>7, <1>8, <2>1, ReplaceHolds
<1>10. l \in DOMAIN f /\ f[l].leaf /\ j < Count(f, l) /\ DOMAIN f = DOMAIN h
    BY <1>2, <1>6 DEF SameShape
<1>11. PICK y : y = x - 1
    OBVIOUS
<1>12. y = lo[l] + j
    BY <1>2, <1>11
<1>13. Without(f, g, top, hi, E, y, s, y)
    BY <1>2, <1>6, <1>9, <1>10, <1>12, LeafRemovalHolds
<1>14. RemoveAt(E, y + 1) = RemoveAt(C, x + 1) /\ Len(E) = Len(C)
    <2>1. E = [C EXCEPT ![x + 1] = C[x]]
        BY <1>3, <1>8
    <2>2. RemoveAt(E, x) = RemoveAt(C, x + 1)
        BY <1>1, <2>1, ReplaceAndRemove
    <2>3. y + 1 = x
        BY <1>1, <1>11
    <2>4. QED
        BY <1>1, <2>1, <2>2, <2>3
<1>15. Without(h, g, top, hi, C, x, s, x - 1)
    BY <1>10, <1>11, <1>13, <1>14 DEF Without
<1>16. QED
    BY <1>1, <1>15

LEMMA RemoveFromLeafOrders ==
    ASSUME IInv, NEW C, Holding(C), RemoveFromLeaf
    PROVE  \E x, D :
              /\ x \in 0..(Len(C) - 1) /\ source = <<>>
              /\ Due(C, pc, call, count, erased, x)
              /\ D = RemoveAt(C, x + 1) /\ Holding(D)'
<1>1. PICK lo, hi, x : State(C, lo, hi, x)
    BY DEF Holding
<1>2. PICK from : from = ErasedAt(heap, iter)
    OBVIOUS
<1>3. /\ pc = "erase" /\ pc' = "rebalance" /\ root' = root
      /\ rightmost' = rightmost /\ erased' = erased + 1 /\ count' = count
      /\ iter' = from /\ res' = from /\ call' = call /\ source' = source
      /\ internal_delete' = ~heap[iter.node].leaf
      /\ heap[root].leaf \/ size' = size - 1
    BY <1>2 DEF RemoveFromLeaf, ErasedAt, RootIsLeaf
<1>4. heap' = RemoveValue(Swapped(heap, iter, from), from)
    BY <1>2 DEF RemoveFromLeaf, ErasedAt, Swapped
<1>5. root # NoNode /\ count \in Int /\ erased \in Int
    BY <1>3 DEF IInv, Called, Erasing, Enough
<1>6. PICK lv, S : HeldBy(C, lo, hi, lv, S)
    BY <1>1, <1>5, TreeHeld
<1>7. Tree(heap, root, lv, S) /\ Holds(heap, root, lo, hi, C)
    BY <1>6 DEF HeldBy
<1>8. \A m \in DOMAIN heap : Count(heap, m) # 0
    BY <1>3, NoneEmpty
<1>9. /\ C \in Seq(Values) /\ Len(C) \in Nat /\ source = <<>>
      /\ Kept(heap, root, rightmost, size, lo, hi, C)
      /\ Works(heap, lo, hi, pc, stack, iter, res, internal_delete, x)
      /\ Meant(C, x, pc, call, source, count, erased)
      /\ Ordered(C \o source) /\ x \in Int
    BY <1>1, <1>3, StateIs DEF InPlace
<1>10. HasNumber(heap, lo, hi, iter, x)
    BY <1>3, <1>9 DEF Works
<1>11. PICK n \in DOMAIN heap, i \in Nat : iter = Slot(n, i) /\ i < Count(heap, n)
    BY <1>10, PlaceOnNode DEF HasNumber
<1>12. iter.node = n /\ iter.position = i
    BY <1>11, SlotIs
<1>13. PICK g : g = heap'
    OBVIOUS
<1>14. PICK y : y = (IF heap[n].leaf THEN x ELSE x - 1)
    OBVIOUS
<1>15. x \in 0..(Len(C) - 1) /\ Without(heap, g, root, hi, C, x, from, y)
    <2>1. CASE heap[n].leaf
        <3>1. from = Slot(n, i) /\ g = RemoveValue(heap, from)
            BY <1>2, <1>4, <1>11, <1>12, <1>13, <2>1 DEF ErasedAt, Swapped
        <3>2. x = lo[n] + i
            BY <1>10, <1>12, <2>1 DEF HasNumber, Number
        <3>3. QED
            BY <1>7, <1>11, <1>14, <2>1, <3>1, <3>2, LeafRemovalHolds
    <2>2. CASE ~heap[n].leaf
        <3>1. from = Decrement(heap, Slot(n, i))
            BY <1>2, <1>11, <1>12, <2>2 DEF ErasedAt
        <3>2. g = RemoveValue(Swapped(heap, Slot(n, i), from), from)
            BY <1>4, <1>11, <1>13
        <3>3. HasNumber(heap, lo, hi, Slot(n, i), x)
            BY <1>10, <1>11
        <3>4. QED
            BY <1>7, <1>8, <1>11, <1>14, <2>2, <3>1, <3>2, <3>3,
               InternalRemovalHolds
    <2>3. QED
        BY <2>1, <2>2
<1>16. PICK D : D = RemoveAt(C, x + 1)
    OBVIOUS
<1>17. PICK lo2, hi2 :
          /\ Holds(g, root, lo2, hi2, D) /\ Gap(lo2, from) = y
          /\ \A m \in DOMAIN heap : hi[m] = Len(C) => hi2[m] = Len(C) - 1
    BY <1>15, <1>16 DEF Without
<1>18. /\ D \in Seq(Values) /\ Len(D) = Len(C) - 1 /\ Ordered(D)
       /\ \A j \in 1..Len(D) : D[j] = IF j <= x THEN C[j] ELSE C[j + 1]
    <2>1. Ordered(C)
        BY <1>9
    <2>2. C \in Seq(Values) /\ Len(C) \in Nat /\ x \in 0..(Len(C) - 1)
        BY <1>9, <1>15
    <2>3. PICK z \in 1..Len(C) : z = x + 1
        BY <2>2
    <2>4. D = RemoveAt(C, z)
        BY <1>16, <2>3
    <2>5. /\ D \in Seq(Values) /\ Len(D) = Len(C) - 1 /\ Ordered(D)
          /\ \A j \in 1..Len(D) : D[j] = IF j < z THEN C[j] ELSE C[j + 1]
        BY ONLY <2>1, <2>2, <2>3, <2>4, OrderedRemove
    <2>6. \A j \in 1..Len(D) : j < z <=> j <= x
        BY <2>2, <2>3, <2>5
    <2>7. QED
        BY <2>5, <2>6
<1>19. g[root].leaf <=> heap[root].leaf
    <2>1. PlaceIn(heap, iter)
        BY <1>3 DEF IInv, At
    <2>2. g = RemoveValue(Swapped(heap, iter, from), from)
        BY <1>4, <1>13
    <2>3. RemovedAt(heap, g, from)
        BY <1>2, <1>7, <1>8, <2>1, <2>2, RemovalIs
    <2>4. root \in DOMAIN heap
        BY <1>7 DEF Tree
    <2>5. QED
        BY <2>3, <2>4 DEF RemovedAt, SameShape
<1>20. Kept(heap', root', rightmost', size', lo2, hi2, D)
    <2>1. CASE heap[root].leaf
        BY <1>3, <1>5, <1>13, <1>17, <1>19, <2>1 DEF Kept
    <2>2. CASE ~heap[root].leaf
        <3>1. size = Len(C) /\ hi[rightmost] = Len(C) /\ rightmost \in DOMAIN heap
            BY <1>5, <1>9, <2>2 DEF Kept, IInv, Ended, LeafOf
        <3>2. size' = Len(D) /\ hi2[rightmost'] = Len(D)
            BY <1>3, <1>17, <1>18, <2>2, <3>1
        <3>3. QED
            BY <1>3, <1>5, <1>13, <1>17, <3>2 DEF Kept
    <2>3. QED
        BY <2>1, <2>2
<1>21. Works(heap', lo2, hi2, pc', stack', iter', res', internal_delete', x)
    <2>1. y + (IF ~heap[n].leaf THEN 1 ELSE 0) = x
        BY <1>9, <1>14
    <2>2. QED
        BY <1>3, <1>9, <1>12, <1>17, <2>1 DEF Works, InPlace
<1>22. Meant(D, x, pc', call', source', count', erased')
    <2>1. Due(C, "erase", call, count, erased, x)
        BY <1>3, <1>9 DEF Meant, Erasing
    <2>2. x < Len(C)
        BY <1>9, <1>15
    <2>3. Due(D, "rebalance", call, count, erased + 1, x)
        BY <1>5, <1>9, <1>18, <2>1, <2>2, DueGoesOn
    <2>4. Ordered(D \o source)
        BY <1>9, <1>18
    <2>5. QED
        BY <1>3, <1>9, <2>3, <2>4 DEF Meant, InPlace
<1>23. Holding(D)'
    BY <1>18, <1>20, <1>21, <1>22, StateNext
<1>24. Due(C, pc, call, count, erased, x)
    BY <1>3, <1>9 DEF Meant, Erasing
<1>25. QED
    BY <1>9, <1>15, <1>16, <1>23, <1>24

(***************************************************************************)
(* The theorems                                                            *)
(***************************************************************************)

\* With the value in its place there is an order.
LEMMA PutInHolds ==
    ASSUME NEW C, PutIn(C)
    PROVE  OInv'
BY DEF PutIn, Answering, Holding, OInv

\* Steps of insertions keep the order.
LEMMA InsertionOrders ==
    ASSUME IInv, NEW C, Holding(C), Insertion
    PROVE  OInv'
<1>1. CASE InsertAtHint
    BY <1>1, InsertAtHintOrders DEF OInv
<1>2. CASE AnswerHint
    BY <1>2, AnswerHintOrders DEF OInv
<1>3. CASE SearchPlace
    BY <1>3, SearchPlaceOrders DEF OInv
<1>4. CASE FoundKey
    BY <1>4, FoundKeyOrders DEF OInv
<1>5. CASE FoundPlace
    BY <1>5, FoundPlaceOrders DEF OInv
<1>6. CASE InsertIntoLeaf
    BY <1>6, InsertIntoLeafOrders, PutInHolds
<1>7. CASE GrowRoot
    BY <1>7, GrowRootOrders, PutInHolds
<1>8. CASE MakeRoom
    BY <1>8, MakeRoomOrders DEF OInv
<1>9. CASE InsertIntoRoom
    BY <1>9, InsertIntoRoomOrders, PutInHolds
<1>10. CASE RoomOnLeft \/ RoomOnRight
    BY <1>10, RoomBesideOrders DEF OInv
<1>11. CASE AskParent
    BY <1>11, AskParentOrders DEF OInv
<1>12. CASE NewRootAboveLeaf
    BY <1>12, NewRootAboveLeafOrders DEF OInv
<1>13. CASE NewNodeBelowRoot
    BY <1>13, NewNodeBelowRootOrders DEF OInv
<1>14. CASE SplitNode
    BY <1>14, SplitNodeOrders DEF OInv
<1>15. QED
    BY <1>1, <1>2, <1>3, <1>4, <1>5, <1>6, <1>7, <1>8, <1>9, <1>10, <1>11,
       <1>12, <1>13, <1>14 DEF Insertion

\* Steps of erasures keep the order.
LEMMA ErasureOrders ==
    ASSUME IInv, NEW C, Holding(C), Erasure
    PROVE  OInv'
<1>1. CASE EraseAt
    BY <1>1, EraseAtOrders DEF OInv
<1>2. CASE EraseKey
    BY <1>2, EraseKeyOrders DEF OInv
<1>3. CASE RemoveFromLeaf
    BY <1>3, RemoveFromLeafOrders DEF OInv
<1>4. CASE RootKept
    BY <1>4, RootKeptOrders DEF OInv
<1>5. CASE LastValueErased
    BY <1>5, LastValueErasedOrders DEF OInv
<1>6. CASE LeafBecomesRoot
    BY <1>6, LeafBecomesRootOrders DEF OInv
<1>7. CASE ChildMovesIntoRoot
    BY <1>7, ChildMovesIntoRootOrders DEF OInv
<1>8. CASE EnoughValues
    BY <1>8, EnoughValuesOrders DEF OInv
<1>9. CASE MergeLeft \/ MergeRight
    BY <1>9, MergeOrders DEF OInv
<1>10. CASE TakeFromLeft \/ TakeFromRight
    BY <1>10, TakeFromSiblingOrders DEF OInv
<1>11. CASE LeaveUnderfull
    BY <1>11, LeaveUnderfullOrders DEF OInv
<1>12. CASE Advance
    BY <1>12, AdvanceOrders DEF OInv
<1>13. QED
    BY <1>1, <1>2, <1>3, <1>4, <1>5, <1>6, <1>7, <1>8, <1>9, <1>10, <1>11,
       <1>12 DEF Erasure

\* Steps of copies keep the order.
LEMMA CopyingOrders ==
    ASSUME IInv, NEW C, Holding(C), Copying
    PROVE  OInv'
<1>1. CASE StartCopy
    BY <1>1, StartCopyOrders DEF OInv
<1>2. CASE CopyFirst
    BY <1>2, CopyFirstOrders DEF OInv
<1>3. CASE CopyNext
    BY <1>3, CopyNextOrders DEF OInv
<1>4. CASE CopyEnd
    BY <1>4, CopyEndOrders DEF OInv
<1>5. QED
    BY <1>1, <1>2, <1>3, <1>4 DEF Copying

\* Each step keeps the order.
LEMMA StepOrders == IInv /\ OInv /\ [Next]_vars => OInv'
<1> SUFFICES ASSUME IInv, NEW C, Holding(C), [Next]_vars
             PROVE  OInv'
    BY DEF OInv
<1>1. CASE Ask
    BY <1>1, AskOrders DEF OInv
<1>2. CASE Return
    BY <1>2, ReturnOrders DEF OInv
<1>3. CASE Insertion
    BY <1>3, InsertionOrders
<1>4. CASE Erasure
    BY <1>4, ErasureOrders
<1>5. CASE Clear
    BY <1>5, ClearOrders DEF OInv
<1>6. CASE Copying
    BY <1>6, CopyingOrders
<1>7. CASE UNCHANGED vars
    BY <1>7, StutterOrders DEF OInv
<1>8. QED
    BY <1>1, <1>2, <1>3, <1>4, <1>5, <1>6, <1>7 DEF Next

\* The order holds in every reachable state.
LEMMA OrderInvariant == Spec => [](IInv /\ OInv)
<1>1. QED
    BY InitHolds, InitOrders, StepKeeps, StepOrders, PTL DEF Spec

\* The instance counts as this module does.
LEMMA SameCount ==
    ASSUME NEW S
    PROVE  M!Cardinality(S) = Cardinality(S)
    BY DEF M!Cardinality, Cardinality


\* How many values have a smaller key, and how many one that is not greater.
LEMMA KeysCounted ==
    ASSUME NEW C \in Seq(Values), NEW k
    PROVE  /\ \A g : Cut(C, BelowKey(k), g) => M!Below(C, k) = g
           /\ \A g : Cut(C, UpToKey(k), g) => M!UpTo(C, k) = g
<1>1. Len(C) \in Nat /\ DOMAIN C = 1..Len(C) /\ \A i \in 1..Len(C) : C[i] \in Values
    OBVIOUS
<1>2. ASSUME NEW g, Cut(C, BelowKey(k), g)
      PROVE  M!Below(C, k) = g
    <2>1. g \in Nat /\ g <= Len(C)
        BY <1>1, <1>2 DEF Cut
    <2>2. PICK T : T = {i \in DOMAIN C : KeyOf[C[i]] < k}
        OBVIOUS
    <2>3. \A i \in 1..Len(C) : i \in T <=> i <= g
        BY <1>1, <1>2, <2>2 DEF Cut, BelowKey
    <2>4. \A i : i \in T <=> i \in 1..g
        BY <1>1, <2>1, <2>2, <2>3
    <2>5. Cardinality(T) = g
        BY <2>1, <2>4, FirstOnes
    <2>6. QED
        <3>1. M!Below(C, k) = Cardinality({i \in DOMAIN C : KeyOf[C[i]] < k})
            BY SameCount DEF M!Below
        <3>2. QED
            BY <2>2, <2>5, <3>1
<1>3. ASSUME NEW g, Cut(C, UpToKey(k), g)
      PROVE  M!UpTo(C, k) = g
    <2>1. g \in Nat /\ g <= Len(C)
        BY <1>1, <1>3 DEF Cut
    <2>2. PICK T : T = {i \in DOMAIN C : KeyOf[C[i]] <= k}
        OBVIOUS
    <2>3. \A i \in 1..Len(C) : i \in T <=> i <= g
        BY <1>1, <1>3, <2>2 DEF Cut, UpToKey
    <2>4. \A i : i \in T <=> i \in 1..g
        BY <1>1, <2>1, <2>2, <2>3
    <2>5. Cardinality(T) = g
        BY <2>1, <2>4, FirstOnes
    <2>6. QED
        <3>1. M!UpTo(C, k) = Cardinality({i \in DOMAIN C : KeyOf[C[i]] <= k})
            BY SameCount DEF M!UpTo
        <3>2. QED
            BY <2>2, <2>5, <3>1
<1>4. QED
    BY <1>2, <1>3

\* Of the keys of an order.
LEMMA KeyCounts ==
    ASSUME NEW C \in Seq(Values), Ordered(C), NEW k \in Int
    PROVE  \E g \in 0..Len(C), f \in 0..Len(C) :
              /\ Cut(C, BelowKey(k), g) /\ Cut(C, UpToKey(k), f)
              /\ M!Below(C, k) = g /\ M!UpTo(C, k) = f
              /\ M!Present(C, k) <=> g < Len(C) /\ KeyOf[C[g + 1]] <= k
              /\ g <= f /\ (Unique => f <= g + 1)
<1>1. PICK g, f : Cut(C, BelowKey(k), g) /\ Cut(C, UpToKey(k), f)
    BY KeysCut
<1>2. M!Below(C, k) = g /\ M!UpTo(C, k) = f
    BY <1>1, KeysCounted
<1>3. /\ g \in 0..Len(C) /\ f \in 0..Len(C) /\ g <= f
      /\ g < f <=> g < Len(C) /\ KeyOf[C[g + 1]] <= k
      /\ Unique => f <= g + 1
    BY <1>1, KeyRange
<1>4. M!Present(C, k) <=> g < f
    BY <1>2 DEF M!Present
<1>5. QED
    BY <1>1, <1>2, <1>3, <1>4

\* Searches in a container with the contents C.
LEMMA SearchesFollow == IInv /\ OInv => SearchesAgree
<1> SUFFICES ASSUME IInv, OInv, pc = "idle", NEW k \in M!Keys
             PROVE  /\ PlaceOf(OrEnd(LowerBound(heap, root, k)))
                          = M!Below(Contents, k)
                    /\ PlaceOf(OrEnd(UpperBound(heap, root, k)))
                          = M!UpTo(Contents, k)
                    /\ LET s == Find(heap, root, k)
                       IN  IF M!Present(Contents, k)
                           THEN s # NoSlot /\ PlaceOf(s) = M!Below(Contents, k)
                           ELSE s = NoSlot
    BY DEF SearchesAgree
<1>1. PICK C, lo, hi, x : State(C, lo, hi, x)
    BY DEF OInv, Holding
<1>2. k \in Int
    BY KeyOfAssumption DEF M!Keys
<1>3. C \in Seq(Values) /\ Ordered(C)
    <2>1. C \in Seq(Values) /\ source = <<>> /\ Ordered(C \o source)
        BY <1>1, StateIs DEF InPlace
    <2>2. QED
        BY <2>1
<1>4. Contents = C
    BY <1>1, ContentsAreHeld
<1>5. PICK g \in 0..Len(C), f \in 0..Len(C) :
         /\ Cut(C, BelowKey(k), g) /\ Cut(C, UpToKey(k), f)
         /\ M!Below(C, k) = g /\ M!UpTo(C, k) = f
         /\ M!Present(C, k) <=> g < Len(C) /\ KeyOf[C[g + 1]] <= k
    BY <1>2, <1>3, KeyCounts
<1>6. PICK l : l = LowerBound(heap, root, k)
    OBVIOUS
<1>7. PICK u : u = UpperBound(heap, root, k)
    OBVIOUS
<1>8. PICK s : s = Find(heap, root, k)
    OBVIOUS
<1>9. CASE root = NoNode
    <2>1. C = <<>> /\ End = NoSlot /\ PlaceOf(NoSlot) = 0
        BY <1>1, <1>9, NothingHeld
    <2>2. g = 0 /\ f = 0
        BY <1>5, <2>1
    <2>3. l = NoSlot /\ u = NoSlot
        BY <1>6, <1>7, <1>9, SlotIs
           DEF LowerBound, UpperBound, Locate, Descend, InternalLast, NoSlot
    <2>4. s = NoSlot
        BY <1>6, <1>8, <2>3 DEF Find
    <2>5. OrEnd(l) = NoSlot /\ OrEnd(u) = NoSlot
        BY <2>1, <2>3 DEF OrEnd
    <2>6. ~M!Present(C, k)
        BY <1>5, <2>1, <2>2
    <2>7. QED
        BY <1>4, <1>5, <1>6, <1>7, <1>8, <2>1, <2>2, <2>4, <2>5, <2>6
<1>10. CASE root # NoNode
    <2>1. Names(heap, root, lo, hi, C, OrEnd(l), g)
        BY <1>1, <1>5, <1>6, <1>10, LowerHeld DEF Found
    <2>2. Names(heap, root, lo, hi, C, OrEnd(u), f)
        BY <1>1, <1>5, <1>7, <1>10, UpperHeld DEF Found
    <2>3. PlaceOf(OrEnd(l)) = g /\ PlaceOf(OrEnd(u)) = f
        BY <1>1, <1>10, <2>1, <2>2, PlaceHeld
    <2>4. IF g < Len(C) /\ KeyOf[C[g + 1]] <= k
          THEN HasNumber(heap, lo, hi, s, g) ELSE s = NoSlot
        BY <1>1, <1>5, <1>8, <1>10, FindHeld
    <2>5. CASE M!Present(C, k)
        <3>1. HasNumber(heap, lo, hi, s, g) /\ g < Len(C)
            BY <1>5, <2>4, <2>5
        <3>2. s # NoSlot
            BY <1>1, <1>10, <3>1, KeyOfNumber
        <3>3. Names(heap, root, lo, hi, C, s, g)
            BY <3>1 DEF Names
        <3>4. PlaceOf(s) = g
            BY <1>1, <1>10, <3>3, PlaceHeld
        <3>5. QED
            BY <1>4, <1>5, <1>6, <1>7, <1>8, <2>3, <2>5, <3>2, <3>4
    <2>6. CASE ~M!Present(C, k)
        <3>1. s = NoSlot
            BY <1>5, <2>4, <2>6
        <3>2. QED
            BY <1>4, <1>5, <1>6, <1>7, <1>8, <2>3, <2>6, <3>1
    <2>7. QED
        BY <2>5, <2>6
<1>11. QED
    BY <1>9, <1>10

\* Iterators over a container with the contents C.
LEMMA WalkFollows == IInv /\ OInv => IteratorsWalk
<1> SUFFICES ASSUME IInv, OInv, pc = "idle", root # NoNode
             PROVE  /\ IteratorAt(0) = Begin
                    /\ \A n \in 0..(Size - 1) :
                          /\ Increment(heap, IteratorAt(n)) = IteratorAt(n + 1)
                          /\ Decrement(heap, IteratorAt(n + 1)) = IteratorAt(n)
    BY DEF IteratorsWalk
<1>1. PICK C, lo, hi, x : State(C, lo, hi, x)
    BY DEF OInv, Holding
<1>2. PICK lv, S : HeldBy(C, lo, hi, lv, S)
    BY <1>1, TreeHeld
<1>3. Tree(heap, root, lv, S) /\ Holds(heap, root, lo, hi, C)
    BY <1>2 DEF HeldBy
<1>4. Size = Len(C) /\ Len(C) \in Nat
    <2>1. Size = Len(C)
        BY <1>1, ContentsAreHeld
    <2>2. Len(C) \in Nat
        BY <1>1, StateIs
    <2>3. QED
        BY <2>1, <2>2
<1>5. \A n \in DOMAIN heap : Count(heap, n) # 0
    BY DEF IInv, Nonempty, Exempt
<1>6. \A s, t, y : Names(heap, root, lo, hi, C, s, y)
                     /\ Names(heap, root, lo, hi, C, t, y) => s = t
    BY <1>3, NamesOnce
<1>7. IteratorAt(0) = Begin
    <2>1. Names(heap, root, lo, hi, C, Begin, 0)
        BY <1>1, <1>5, BeginHeld
    <2>2. 0 \in 0..Len(C)
        BY <1>4
    <2>3. Names(heap, root, lo, hi, C, IteratorAt(0), 0)
        BY <1>1, <2>2, IteratorHeld
    <2>4. QED
        BY <1>6, <2>1, <2>3
<1>8. ASSUME NEW n \in 0..(Size - 1)
      PROVE  /\ Increment(heap, IteratorAt(n)) = IteratorAt(n + 1)
             /\ Decrement(heap, IteratorAt(n + 1)) = IteratorAt(n)
    <2>1. PICK m \in 0..Len(C) : m = n + 1
        BY <1>4
    <2>2. n \in 0..Len(C) /\ n \in Int /\ n # Len(C) /\ m \in Int /\ m > 0
              /\ m - 1 = n
        BY <1>4, <2>1
    <2>3. PICK s : s = IteratorAt(n)
        OBVIOUS
    <2>4. PICK t : t = IteratorAt(m)
        OBVIOUS
    <2>5. Names(heap, root, lo, hi, C, s, n) /\ Names(heap, root, lo, hi, C, t, m)
        BY <1>1, <2>1, <2>2, <2>3, <2>4, IteratorHeld
    <2>6. HasNumber(heap, lo, hi, s, n)
        BY <2>2, <2>5 DEF Names
    <2>7. Names(heap, root, lo, hi, C, Increment(heap, s), m)
        BY <1>3, <1>5, <2>1, <2>2, <2>6, IncrementNumber
    <2>8. HasNumber(heap, lo, hi, Decrement(heap, t), m - 1)
        BY <1>3, <1>5, <2>2, <2>5, DecrementNumber
    <2>9. Names(heap, root, lo, hi, C, Decrement(heap, t), n)
        BY <2>2, <2>8 DEF Names
    <2>10. Increment(heap, s) = t /\ Decrement(heap, t) = s
        BY <1>6, <2>5, <2>7, <2>9
    <2>11. QED
        BY <2>1, <2>3, <2>4, <2>10
<1>9. QED
    BY <1>7, <1>8

\* The part of the contents of a node is inside that of each node above it.
LEMMA InsideAbove ==
    ASSUME NEW h, NEW top, NEW lv, NEW S, Tree(h, top, lv, S),
           NEW lo, NEW hi, NEW C, Holds(h, top, lo, hi, C),
           NEW anc, Ancestry(h, top, anc)
    PROVE  \A m \in DOMAIN h, x \in DOMAIN h :
              m \in anc[x] => lo[m] <= lo[x] /\ hi[x] <= hi[m]
<1> DEFINE D == DOMAIN h
           rank == UpRank(h, lv)
           P == {m \in D : \A x \in D :
                    m \in anc[x] => lo[m] <= lo[x] /\ hi[x] <= hi[m]}
<1>1. \A n \in D : lo[n] \in Int /\ hi[n] \in Int
    BY RangesAre
<1>2. ASSUME NEW m \in D, \A e \in D : rank[e] < rank[m] => e \in P
      PROVE  m \in P
    <2>1. ASSUME NEW x \in D, m \in anc[x]
          PROVE  lo[m] <= lo[x] /\ hi[x] <= hi[m]
        <3>1. CASE m = x
            BY <1>1, <3>1
        <3>2. CASE m # x
            <4>1. ~h[m].leaf
                BY <2>1, <3>2, NothingBelow
            <4>2. PICK i \in 0..Count(h, m) : Child(h, m, i) \in anc[x]
                BY <2>1, <3>2, <4>1, KidsBelow
            <4>3. PICK c : c = Child(h, m, i)
                OBVIOUS
            <4>4. c \in D /\ rank[c] < rank[m]
                BY <4>1, <4>3, KidsBelow
            <4>5. lo[c] <= lo[x] /\ hi[x] <= hi[c]
                BY <1>2, <4>2, <4>3, <4>4
            <4>6. ChildrenInside(h, m, lo, hi)
                BY <4>1, InsideParent
            <4>7. lo[m] <= lo[c] /\ hi[c] <= hi[m]
                BY <4>3, <4>6 DEF ChildrenInside
            <4>8. QED
                BY <1>1, <4>4, <4>5, <4>7
        <3>3. QED
            BY <3>1, <3>2
    <2>2. QED
        BY <2>1
<1>3. Ranked(rank, D, lv[top] + 1)
    BY LevelsRank
<1> HIDE DEF P, rank, D
<1>4. D \subseteq P
    BY <1>2, <1>3, RankInduction
<1>5. QED
    BY <1>4 DEF P, D

\* The values of a node stand in its part of the contents, in their order, each
\* behind what is below the child before it and before what is below the child
\* after it.
LinedUp(h, n, lo, hi, C, at) ==
    /\ \A i \in 1..Count(h, n) :
          /\ at[i] \in Int /\ lo[n] < at[i] /\ at[i] <= hi[n]
          /\ h[n].values[i] = C[at[i]]
          /\ ~h[n].leaf =>
                hi[Child(h, n, i - 1)] < at[i] /\ at[i] <= lo[Child(h, n, i)]
    /\ \A i, j \in 1..Count(h, n) : i < j => at[i] < at[j]

LEMMA ValuesLinedUp ==
    ASSUME NEW h, NEW top, NEW lv, NEW S, Tree(h, top, lv, S),
           NEW lo, NEW hi, NEW C, Holds(h, top, lo, hi, C), NEW n \in DOMAIN h
    PROVE  \E at : LinedUp(h, n, lo, hi, C, at)
<1>1. InOrder(h, n, lo, hi, C)
    BY DEF Holds
<1>2. PICK N \in Nat : N = Count(h, n)
    BY CountIs DEF Tree
<1>3. lo[n] \in Int /\ hi[n] \in Int
    BY RangesAre
<1>4. CASE h[n].leaf
    <2>1. PICK at : at = [i \in 1..N |-> lo[n] + i]
        OBVIOUS
    <2>2. hi[n] = lo[n] + N /\ \A i \in 1..N : h[n].values[i] = C[lo[n] + i]
        BY <1>1, <1>2, <1>4 DEF InOrder
    <2>3. \A i \in 1..N : at[i] = lo[n] + i
        BY <2>1
    <2>4. \A i \in 1..N : /\ at[i] \in Int /\ lo[n] < at[i] /\ at[i] <= hi[n]
                          /\ h[n].values[i] = C[at[i]]
        BY <1>3, <2>2, <2>3
    <2>5. \A i, j \in 1..N : i < j => at[i] < at[j]
        BY <1>3, <2>3
    <2>6. QED
        BY <1>2, <1>4, <2>4, <2>5 DEF LinedUp
<1>5. CASE ~h[n].leaf
    <2>1. PICK at : at = [i \in 1..N |-> lo[Child(h, n, i)]]
        OBVIOUS
    <2>2. \A i \in 1..N : at[i] = lo[Child(h, n, i)]
        BY <2>1
    <2>3. \A i \in 1..N : /\ lo[Child(h, n, i)] = hi[Child(h, n, i - 1)] + 1
                          /\ h[n].values[i] = C[lo[Child(h, n, i)]]
        BY <1>1, <1>2, <1>5 DEF InOrder
    <2>4. ChildrenInside(h, n, lo, hi)
        BY <1>5, InsideParent
    <2>5. \A i \in 0..N : /\ lo[Child(h, n, i)] \in Int
                          /\ hi[Child(h, n, i)] \in Int
                          /\ lo[n] <= lo[Child(h, n, i)]
                          /\ lo[Child(h, n, i)] <= hi[Child(h, n, i)]
                          /\ hi[Child(h, n, i)] <= hi[n]
        BY <1>2, <2>4 DEF ChildrenInside
    <2>6. \A i, j \in 0..N :
             i < j => hi[Child(h, n, i)] < lo[Child(h, n, j)]
        BY <1>2, <2>4 DEF ChildrenInside
    <2>7. \A i \in 1..N : i \in 0..N /\ i - 1 \in 0..N
        OBVIOUS
    <2>8. ASSUME NEW i \in 1..N
          PROVE  /\ at[i] \in Int /\ lo[n] < at[i] /\ at[i] <= hi[n]
                 /\ h[n].values[i] = C[at[i]]
                 /\ hi[Child(h, n, i - 1)] < at[i]
                 /\ at[i] <= lo[Child(h, n, i)]
        <3>1. PICK c : c = Child(h, n, i)
            OBVIOUS
        <3>2. PICK b : b = Child(h, n, i - 1)
            OBVIOUS
        <3>3. at[i] = lo[c] /\ lo[c] = hi[b] + 1 /\ h[n].values[i] = C[lo[c]]
            BY <2>2, <2>3, <3>1, <3>2
        <3>4. /\ lo[c] \in Int /\ hi[c] \in Int /\ lo[b] \in Int /\ hi[b] \in Int
              /\ lo[c] <= hi[c] /\ hi[c] <= hi[n]
              /\ lo[n] <= lo[b] /\ lo[b] <= hi[b]
            BY <2>5, <2>7, <3>1, <3>2
        <3>5. QED
            BY <1>3, <3>1, <3>2, <3>3, <3>4
    <2>9. ASSUME NEW i \in 1..N, NEW j \in 1..N, i < j
          PROVE  at[i] < at[j]
        <3>1. PICK c : c = Child(h, n, i)
            OBVIOUS
        <3>2. PICK b : b = Child(h, n, j)
            OBVIOUS
        <3>3. hi[c] < lo[b]
            BY <2>6, <2>7, <2>9, <3>1, <3>2
        <3>4. lo[c] \in Int /\ hi[c] \in Int /\ lo[b] \in Int /\ lo[c] <= hi[c]
            BY <2>5, <2>7, <3>1, <3>2
        <3>5. QED
            BY <2>2, <3>1, <3>2, <3>3, <3>4
    <2>10. QED
        BY <1>2, <2>8, <2>9 DEF LinedUp
<1>6. QED
    BY <1>4, <1>5

\* No value in an order has a smaller key than one before it.
LEMMA KeysRise ==
    ASSUME NEW C \in Seq(Values), Ordered(C),
           NEW a \in 1..Len(C), NEW b \in 1..Len(C), a <= b
    PROVE  KeyOf[C[a]] \in Int /\ KeyOf[C[a]] <= KeyOf[C[b]]
<1>1. C[a] \in Values /\ C[b] \in Values
    OBVIOUS
<1>2. KeyOf[C[a]] \in Int /\ KeyOf[C[b]] \in Int
    BY <1>1, KeyOfAssumption
<1>3. a = b \/ Goes(C[a], C[b])
    BY DEF Ordered
<1>4. QED
    BY <1>2, <1>3 DEF Goes

\* The keys of a node, in a part of the contents.
LEMMA KeysOnNode ==
    ASSUME NEW h, NEW top, NEW lv, NEW S, Tree(h, top, lv, S),
           NEW lo, NEW hi, NEW C, Holds(h, top, lo, hi, C),
           NEW m \in DOMAIN h, NEW k \in KeysOn(h, m)
    PROVE  \E a \in 1..Len(C) : /\ lo[m] < a /\ a <= hi[m]
                                /\ k = KeyOf[C[a]]
<1>1. PICK at : LinedUp(h, m, lo, hi, C, at)
    BY ValuesLinedUp
<1>2. h[m].values \in Seq(Values) /\ Len(h[m].values) = Count(h, m)
    BY NodeRowIs
<1>3. PICK q \in Seq(Values) : q = h[m].values
    BY <1>2
<1>4. PICK v \in Range(q) : k = KeyOf[v]
    BY <1>3 DEF KeysOn
<1>5. PICK i \in 1..Len(q) : v = q[i]
    BY <1>4 DEF Range
<1>6. i \in 1..Count(h, m) /\ h[m].values[i] = v
    BY <1>2, <1>3, <1>5
<1>7. PICK a : a = at[i]
    OBVIOUS
<1>8. a \in Int /\ lo[m] < a /\ a <= hi[m] /\ v = C[a]
    BY <1>1, <1>6, <1>7 DEF LinedUp
<1>9. 0 <= lo[m] /\ hi[m] <= Len(C)
    BY RangesInside
<1>10. lo[m] \in Int /\ hi[m] \in Int /\ Len(C) \in Nat
    BY RangesAre DEF Holds
<1>11. a \in 1..Len(C)
    BY <1>8, <1>9, <1>10
<1>12. QED
    BY <1>4, <1>8, <1>11

\* The values of a node of the tree are in order.
LEMMA NodeInOrder ==
    ASSUME NEW h, NEW top, NEW lv, NEW S, Tree(h, top, lv, S),
           NEW lo, NEW hi, NEW C, Holds(h, top, lo, hi, C), Ordered(C),
           NEW n \in DOMAIN h
    PROVE  \A i \in 1..(Count(h, n) - 1) :
              KeyOf[h[n].values[i]] <= KeyOf[h[n].values[i + 1]]
<1>1. PICK at : LinedUp(h, n, lo, hi, C, at)
    BY ValuesLinedUp
<1>2. PICK N \in Nat : N = Count(h, n)
    BY CountIs DEF Tree
<1>3. /\ 0 <= lo[n] /\ hi[n] <= Len(C)
      /\ lo[n] \in Int /\ hi[n] \in Int /\ Len(C) \in Nat
    BY RangesInside, RangesAre DEF Holds
<1>4. ASSUME NEW i \in 1..(N - 1)
      PROVE  KeyOf[h[n].values[i]] <= KeyOf[h[n].values[i + 1]]
    <2>1. PICK j \in 1..N : j = i + 1 /\ i < j /\ i \in 1..N
        OBVIOUS
    <2>2. PICK a : a = at[i]
        OBVIOUS
    <2>3. PICK b : b = at[j]
        OBVIOUS
    <2>4. /\ a \in Int /\ lo[n] < a /\ a <= hi[n] /\ h[n].values[i] = C[a]
          /\ b \in Int /\ lo[n] < b /\ b <= hi[n] /\ h[n].values[j] = C[b]
          /\ a < b
        BY <1>1, <1>2, <2>1, <2>2, <2>3 DEF LinedUp
    <2>5. a \in 1..Len(C) /\ b \in 1..Len(C) /\ a <= b
        BY <1>3, <2>4
    <2>6. KeyOf[C[a]] <= KeyOf[C[b]]
        BY <2>5, KeysRise DEF Holds
    <2>7. QED
        BY <2>1, <2>4, <2>6
<1>5. QED
    BY <1>2, <1>4

\* The values of an internal node stand between the keys below its children.
LEMMA NodeBetween ==
    ASSUME NEW h, NEW top, NEW lv, NEW S, Tree(h, top, lv, S),
           NEW lo, NEW hi, NEW C, Holds(h, top, lo, hi, C), Ordered(C),
           NEW n \in DOMAIN h, ~h[n].leaf
    PROVE  Between(h, n)
<1>1. PICK anc : Ancestry(h, top, anc)
    BY AncestryIs
<1>2. PICK at : LinedUp(h, n, lo, hi, C, at)
    BY ValuesLinedUp
<1>3. PICK N \in Nat : N = Count(h, n)
    BY CountIs DEF Tree
<1>4. /\ 0 <= lo[n] /\ hi[n] <= Len(C) /\ Len(C) \in Nat
      /\ lo[n] \in Int /\ hi[n] \in Int
    BY RangesInside, RangesAre DEF Holds
<1>5. ASSUME NEW j \in 0..N, NEW m \in Range(Nodes(h, h[n].children[j + 1])),
             NEW k \in KeysOn(h, m)
      PROVE  \E a \in 1..Len(C) :
                /\ k = KeyOf[C[a]]
                /\ lo[Child(h, n, j)] < a /\ a <= hi[Child(h, n, j)]
    <2>1. PICK c : c = Child(h, n, j)
        OBVIOUS
    <2>2. c \in DOMAIN h /\ h[n].children[j + 1] = c
        BY <1>1, <1>3, <2>1, KidsBelow DEF Child
    <2>3. Enum(Nodes(h, c), Below(h, anc, c))
        BY <1>1, <2>2, NodesBelow
    <2>4. m \in DOMAIN h /\ c \in anc[m]
        <3>1. PICK q : q = Nodes(h, c)
            OBVIOUS
        <3>2. m \in Range(q) /\ q \in Seq(Below(h, anc, c))
            BY <2>2, <2>3, <3>1 DEF Enum
        <3>3. m \in Below(h, anc, c)
            BY <3>2 DEF Range
        <3>4. QED
            BY <3>3 DEF Below
    <2>5. lo[c] <= lo[m] /\ hi[m] <= hi[c]
        BY <1>1, <2>2, <2>4, InsideAbove
    <2>6. PICK a \in 1..Len(C) :
             lo[m] < a /\ a <= hi[m] /\ k = KeyOf[C[a]]
        BY <2>4, KeysOnNode
    <2>7. /\ lo[c] \in Int /\ hi[c] \in Int /\ lo[m] \in Int /\ hi[m] \in Int
          /\ a \in Int
        BY <1>4, <2>2, <2>4, RangesAre
    <2>8. lo[c] < a /\ a <= hi[c]
        BY <2>5, <2>6, <2>7
    <2>9. QED
        BY <2>1, <2>6, <2>8
<1>6. ASSUME NEW i \in 1..N
      PROVE  /\ \A m \in Range(Nodes(h, h[n].children[i])) :
                   \A k \in KeysOn(h, m) : k <= KeyOf[h[n].values[i]]
             /\ \A m \in Range(Nodes(h, h[n].children[i + 1])) :
                   \A k \in KeysOn(h, m) : k >= KeyOf[h[n].values[i]]
    <2>1. PICK b : b = at[i]
        OBVIOUS
    <2>2. PICK j \in 0..N : j = i - 1 /\ j + 1 = i /\ i \in 0..N
        OBVIOUS
    <2>3. /\ b \in Int /\ lo[n] < b /\ b <= hi[n] /\ h[n].values[i] = C[b]
          /\ hi[Child(h, n, i - 1)] < b /\ b <= lo[Child(h, n, i)]
        BY <1>2, <1>3, <2>1 DEF LinedUp
    <2>4. b \in 1..Len(C)
        BY <1>4, <2>3
    <2>5. /\ Child(h, n, i) \in DOMAIN h /\ Child(h, n, j) \in DOMAIN h
        BY <1>1, <1>3, <2>2, KidsBelow
    <2>6. hi[Child(h, n, j)] \in Int /\ lo[Child(h, n, i)] \in Int
        BY <2>5, RangesAre
    <2>7. ASSUME NEW m \in Range(Nodes(h, h[n].children[i])),
                 NEW k \in KeysOn(h, m)
          PROVE  k <= KeyOf[h[n].values[i]]
        <3>1. PICK a \in 1..Len(C) :
                 k = KeyOf[C[a]] /\ a <= hi[Child(h, n, j)]
            BY <1>5, <2>2, <2>7
        <3>2. a <= b
            BY <2>2, <2>3, <2>6, <3>1
        <3>3. KeyOf[C[a]] <= KeyOf[C[b]]
            BY <2>4, <3>2, KeysRise DEF Holds
        <3>4. QED
            BY <2>3, <3>1, <3>3
    <2>8. ASSUME NEW m \in Range(Nodes(h, h[n].children[i + 1])),
                 NEW k \in KeysOn(h, m)
          PROVE  k >= KeyOf[h[n].values[i]]
        <3>1. PICK a \in 1..Len(C) :
                 k = KeyOf[C[a]] /\ lo[Child(h, n, i)] < a
            BY <1>5, <2>2, <2>8
        <3>2. b <= a
            BY <2>3, <2>6, <3>1
        <3>3. KeyOf[C[b]] \in Int /\ KeyOf[C[b]] <= KeyOf[C[a]]
            BY <2>4, <3>2, KeysRise DEF Holds
        <3>4. KeyOf[C[a]] \in Int
            BY KeysRise DEF Holds
        <3>5. QED
            BY <2>3, <3>1, <3>3, <3>4
    <2>9. QED
        BY <2>7, <2>8
<1>7. QED
    BY <1>3, <1>6 DEF Between

\* The checks of verify on a container with the contents C.
LEMMA VerifiedFollows == IInv /\ OInv => Verified
<1> SUFFICES ASSUME IInv, OInv, pc = "idle"
             PROVE  IF root = NoNode THEN Size = 0
                    ELSE /\ Size = Len(Contents)
                         /\ Leftmost = FirstLeaf(heap, root)
                         /\ Rightmost = LastLeaf(heap, root)
                         /\ \A n \in Range(Nodes(heap, root)) :
                               /\ Count(heap, n) > 0
                               /\ \A i \in 1..(Count(heap, n) - 1) :
                                     KeyOf[heap[n].values[i]]
                                        <= KeyOf[heap[n].values[i + 1]]
                               /\ ~heap[n].leaf => Between(heap, n)
                               /\ \A i \in DOMAIN heap[n].children :
                                     LET c == heap[n].children[i]
                                     IN  /\ heap[c].parent = n
                                         /\ heap[c].position = i - 1
    BY DEF Verified
<1>1. PICK C, lo, hi, x : State(C, lo, hi, x)
    BY DEF OInv, Holding
<1>2. CASE root = NoNode
    <2>1. Size = 0
        BY <1>2 DEF Size
    <2>2. QED
        BY <1>2, <2>1
<1>3. CASE root # NoNode
    <2>1. PICK lv, S : HeldBy(C, lo, hi, lv, S)
        BY <1>1, <1>3, TreeHeld
    <2>2. Tree(heap, root, lv, S) /\ Holds(heap, root, lo, hi, C)
        BY <2>1 DEF HeldBy
    <2>3. Size = Len(Contents)
        BY <1>1, ContentsAreHeld
    <2>4. \A n \in DOMAIN heap : Count(heap, n) # 0
        BY DEF IInv, Nonempty, Exempt
    <2>5. Leftmost = FirstLeaf(heap, root)
        BY <1>1, <1>3, <2>4, BeginHeld
    <2>6. Rightmost = LastLeaf(heap, root)
        BY <1>1, <1>3, EndHeld
    <2>7. Ordered(C)
        <3>1. C \in Seq(Values) /\ source = <<>> /\ Ordered(C \o source)
            BY <1>1, StateIs DEF InPlace
        <3>2. QED
            BY <3>1
    <2>8. ASSUME NEW n \in Range(Nodes(heap, root))
          PROVE  n \in DOMAIN heap
        <3>1. PICK q : q = Nodes(heap, root)
            OBVIOUS
        <3>2. Enum(q, DOMAIN heap)
            BY <2>2, <3>1, NodesAre
        <3>3. QED
            BY <3>1, <3>2 DEF Enum, Range
    <2>9. ASSUME NEW n \in Range(Nodes(heap, root))
          PROVE  /\ Count(heap, n) > 0
                 /\ \A i \in 1..(Count(heap, n) - 1) :
                       KeyOf[heap[n].values[i]] <= KeyOf[heap[n].values[i + 1]]
                 /\ ~heap[n].leaf => Between(heap, n)
                 /\ \A i \in DOMAIN heap[n].children :
                       LET c == heap[n].children[i]
                       IN  heap[c].parent = n /\ heap[c].position = i - 1
        <3>1. n \in DOMAIN heap
            BY <2>8
        <3>2. Count(heap, n) > 0
            <4>1. Count(heap, n) \in Nat
                BY <2>2, <3>1, NodeRowIs
            <4>2. QED
                BY <2>4, <3>1, <4>1
        <3>3. \A i \in 1..(Count(heap, n) - 1) :
                 KeyOf[heap[n].values[i]] <= KeyOf[heap[n].values[i + 1]]
            BY <2>2, <2>7, <3>1, NodeInOrder
        <3>4. ~heap[n].leaf => Between(heap, n)
            BY <2>2, <2>7, <3>1, NodeBetween
        <3>5. ASSUME NEW i \in DOMAIN heap[n].children
              PROVE  LET c == heap[n].children[i]
                     IN  heap[c].parent = n /\ heap[c].position = i - 1
            <4>1. PICK q : q = heap[n].children
                OBVIOUS
            <4>2. q \in Seq(Nat) /\ i \in 1..Len(q)
                <5>1. q \in Seq(Nat)
                    BY <2>2, <3>1, <4>1, NodeRowIs
                <5>2. QED
                    BY <3>5, <4>1, <5>1
            <4>3. heap[q[i]].parent = n /\ heap[q[i]].position = i - 1
                BY <2>2, <3>1, <4>1, <4>2, NodeRowIs
            <4>4. QED
                BY <4>1, <4>3
        <3>6. QED
            BY <3>2, <3>3, <3>4, <3>5
    <2>10. QED
        BY <1>3, <2>3, <2>5, <2>6, <2>9
<1>4. QED
    BY <1>2, <1>3

\* Between calls the tree passes the checks of verify: the values are in order
\* on each node and from one node to the next.
THEOREM TreeAlwaysVerified == Spec => []Verified
<1>1. IInv /\ OInv => Verified
    BY VerifiedFollows
<1>2. QED
    BY <1>1, OrderInvariant, PTL

\* Between calls ++ and -- lead from each value to the next one and back.
THEOREM IteratorsAlwaysWalk == Spec => []IteratorsWalk
<1>1. IInv /\ OInv => IteratorsWalk
    BY WalkFollows
<1>2. QED
    BY <1>1, OrderInvariant, PTL

\* Between calls lower_bound, upper_bound and find give the places that the
\* order of the whole container says.
THEOREM SearchesAlwaysAgree == Spec => []SearchesAgree
<1>1. IInv /\ OInv => SearchesAgree
    BY SearchesFollow
<1>2. QED
    BY <1>1, OrderInvariant, PTL

(***************************************************************************)
(* The calls, as the abstract container takes them                         *)
(***************************************************************************)

Kinds == {"clear", "copy", "erase", "erase_key", "insert", "insert_hint"}

\* There is a call in all states but the idle one.
CallInv ==
    /\ pc = "idle" => call = M!NoCall
    /\ pc # "idle" => call.kind \in Kinds

LEMMA CallKinds ==
    ASSUME NEW n, NEW c \in M!Calls(n)
    PROVE  c.kind \in Kinds
BY DEF M!Calls, Kinds

\* No step but the first and the last one changes the call.
LEMMA CallGoesOn ==
    ASSUME Insertion \/ Erasure \/ Clear \/ Copying
    PROVE  call' = call /\ pc # "idle" /\ pc' # "idle"
<1>1. CASE Insertion
    BY <1>1 DEF Insertion, InsertAtHint, AnswerHint, SearchPlace, FoundKey,
       FoundPlace, InsertAtSlot, InsertIntoLeaf, GrowRoot, Inserted, MakeRoom,
       InsertIntoRoom, RoomOnLeft, RoomOnRight, RoomAt, AskParent,
       NewRootAboveLeaf, NewNodeBelowRoot, SplitNode
<1>2. CASE Erasure
    BY <1>2 DEF Erasure, EraseAt, EraseKey, RemoveFromLeaf, RootReached, RootKept,
       LastValueErased, EraseReturns, LeafBecomesRoot, ChildMovesIntoRoot,
       Underfull, EnoughValues, MergeLeft, MergeRight, MergeNodes, EndsAt,
       TakeFromRight, TakeFromLeft, LeaveUnderfull, Advance
<1>3. CASE Clear
    BY <1>3 DEF Clear
<1>4. CASE Copying
    BY <1>4 DEF Copying, StartCopy, CopyFirst, CopyNext, CopyEnd, InsertAtSlot
<1>5. QED
    BY <1>1, <1>2, <1>3, <1>4

LEMMA StepCalls == CallInv /\ [Next]_vars => CallInv'
<1> SUFFICES ASSUME CallInv, [Next]_vars PROVE CallInv'
    OBVIOUS
<1>1. CASE Ask
    <2>1. call' \in M!Calls(Size) /\ pc' = "called"
        BY <1>1 DEF Ask
    <2>2. call'.kind \in Kinds
        BY <2>1, CallKinds
    <2>3. QED
        BY <2>1, <2>2 DEF CallInv
<1>2. CASE Return
    BY <1>2 DEF Return, CallInv
<1>3. CASE Insertion \/ Erasure \/ Clear \/ Copying
    BY <1>3, CallGoesOn DEF CallInv
<1>4. CASE UNCHANGED vars
    BY <1>4 DEF vars, CallInv
<1>5. QED
    BY <1>1, <1>2, <1>3, <1>4 DEF Next

-----------------------------------------------------------------------------

\* What the abstract container is between two steps: its values are C, with
\* those still to be copied.
ContentsShown == \A C : IInv /\ Holding(C) => Contents = C /\ Size = Len(C)

LEMMA HeldIs == ContentsShown
BY ContentsAreHeld DEF Holding, ContentsShown

LEMMA HeldNext ==
    ASSUME IInv', NEW C, Holding(C)'
    PROVE  (Contents = C)' /\ Size' = Len(C)
<1>1. ContentsShown'
    BY HeldIs, PTL
<1>2. QED
    BY <1>1 DEF ContentsShown

\* The place of the answer.
PlaceAnswered ==
    \A C, x : IInv /\ Answering(C, x) => PlaceOf(res) = x /\ Holding(C)

LEMMA AnswerIs == PlaceAnswered
<1> SUFFICES ASSUME NEW C, NEW x, IInv, Answering(C, x)
             PROVE  PlaceOf(res) = x /\ Holding(C)
    BY DEF PlaceAnswered
<1>1. PICK lo, hi, y : /\ State(C, lo, hi, y) /\ root # NoNode
                       /\ x \in 0..Len(C)
                       /\ Names(heap, root, lo, hi, C, res, x)
    BY DEF Answering
<1>2. PlaceOf(res) = x
    BY <1>1, PlaceHeld
<1>3. QED
    BY <1>1, <1>2 DEF Holding

LEMMA AnswerNext ==
    ASSUME IInv', NEW C, NEW x, Answering(C, x)'
    PROVE  PlaceOf(res)' = x /\ Holding(C)'
<1>1. PlaceAnswered'
    BY AnswerIs, PTL
<1>2. QED
    BY <1>1 DEF PlaceAnswered

\* Of nothing the answer is the end.
EndOfNothing == \A C : Holding(C) /\ root = NoNode => PlaceOf(NoSlot) = 0

LEMMA NothingIs == EndOfNothing
BY NothingHeld DEF Holding, EndOfNothing

LEMMA NothingNext ==
    ASSUME NEW C, Holding(C)', root' = NoNode, res' = NoSlot
    PROVE  PlaceOf(res)' = 0
<1>1. EndOfNothing'
    BY NothingIs, PTL
<1>2. PlaceOf(NoSlot)' = 0
    BY <1>1 DEF EndOfNothing
<1>3. QED
    BY <1>2 DEF PlaceOf

\* A step within a call that changes neither what is held nor how much is
\* erased is none of the abstract container.
LEMMA Stutters ==
    ASSUME IInv, IInv', NEW C, Holding(C), NEW D, Holding(D)',
           D \o source' = C \o source, call' = call, erased' = erased,
           pc # "done", pc' # "done"
    PROVE  UNCHANGED M!vars
<1>1. Contents = C /\ (Contents = D)'
    BY HeldIs, HeldNext DEF ContentsShown
<1>2. (Contents \o source)' = Contents \o source
    BY <1>1
<1>3. Answer' = Answer
    BY DEF Answer
<1>4. QED
    BY <1>2, <1>3 DEF M!vars

-----------------------------------------------------------------------------

\* The steps on nodes: what is held is the same, and the call goes on.
OnNodes ==
    \/ InsertAtHint \/ SearchPlace \/ FoundPlace \/ MakeRoom
    \/ RoomOnLeft \/ RoomOnRight \/ AskParent
    \/ NewRootAboveLeaf \/ NewNodeBelowRoot \/ SplitNode
    \/ EraseAt \/ RootKept \/ LeafBecomesRoot \/ ChildMovesIntoRoot
    \/ EnoughValues \/ MergeLeft \/ MergeRight
    \/ TakeFromRight \/ TakeFromLeft \/ LeaveUnderfull
    \/ CopyFirst \/ CopyNext

LEMMA OnNodesHolds ==
    ASSUME IInv, NEW C, Holding(C), OnNodes
    PROVE  Holding(C)'
<1>1. CASE InsertAtHint \/ SearchPlace \/ FoundPlace \/ MakeRoom
    BY <1>1, InsertAtHintOrders, SearchPlaceOrders, FoundPlaceOrders,
       MakeRoomOrders
<1>2. CASE RoomOnLeft \/ RoomOnRight \/ AskParent \/ NewRootAboveLeaf
              \/ NewNodeBelowRoot \/ SplitNode
    BY <1>2, RoomBesideOrders, AskParentOrders, NewRootAboveLeafOrders,
       NewNodeBelowRootOrders, SplitNodeOrders
<1>3. CASE EraseAt \/ RootKept \/ LeafBecomesRoot \/ ChildMovesIntoRoot
              \/ EnoughValues
    BY <1>3, EraseAtOrders, RootKeptOrders, LeafBecomesRootOrders,
       ChildMovesIntoRootOrders, EnoughValuesOrders
<1>4. CASE MergeLeft \/ MergeRight \/ TakeFromRight \/ TakeFromLeft
              \/ LeaveUnderfull
    BY <1>4, MergeOrders, TakeFromSiblingOrders, LeaveUnderfullOrders
<1>5. CASE CopyFirst \/ CopyNext
    BY <1>5, CopyFirstOrders, CopyNextOrders
<1>6. QED
    BY <1>1, <1>2, <1>3, <1>4, <1>5 DEF OnNodes

LEMMA OnNodesGoesOn ==
    ASSUME OnNodes
    PROVE  /\ source' = source /\ call' = call /\ erased' = erased
           /\ pc # "done" /\ pc' # "done"
<1>1. CASE InsertAtHint \/ SearchPlace \/ FoundPlace \/ MakeRoom
    BY <1>1 DEF InsertAtHint, SearchPlace, FoundPlace, InsertAtSlot, MakeRoom
<1>2. CASE RoomOnLeft \/ RoomOnRight \/ AskParent \/ NewRootAboveLeaf
              \/ NewNodeBelowRoot \/ SplitNode
    BY <1>2 DEF RoomOnLeft, RoomOnRight, RoomAt, AskParent, NewRootAboveLeaf,
       NewNodeBelowRoot, SplitNode
<1>3. CASE EraseAt \/ RootKept \/ LeafBecomesRoot \/ ChildMovesIntoRoot
              \/ EnoughValues
    BY <1>3 DEF EraseAt, RootReached, RootKept, LeafBecomesRoot,
       ChildMovesIntoRoot, EnoughValues
<1>4. CASE MergeLeft \/ MergeRight \/ TakeFromRight \/ TakeFromLeft
              \/ LeaveUnderfull
    BY <1>4 DEF Underfull, MergeLeft, MergeRight, MergeNodes, EndsAt,
       TakeFromRight, TakeFromLeft, LeaveUnderfull
<1>5. CASE CopyFirst \/ CopyNext
    BY <1>5 DEF CopyFirst, CopyNext, InsertAtSlot
<1>6. QED
    BY <1>1, <1>2, <1>3, <1>4, <1>5 DEF OnNodes

LEMMA OnNodesStutters ==
    ASSUME IInv, IInv', NEW C, Holding(C), OnNodes
    PROVE  UNCHANGED M!vars
<1>1. Holding(C)'
    BY OnNodesHolds
<1>2. /\ source' = source /\ call' = call /\ erased' = erased
      /\ pc # "done" /\ pc' # "done"
    BY OnNodesGoesOn
<1>3. C \o source' = C \o source
    BY <1>2
<1>4. QED
    BY <1>1, <1>2, <1>3, Stutters

\* Before it ends a call that does not erase a place has no answer.
LEMMA Unanswered ==
    ASSUME pc # "done", call.kind # "erase" \/ erased # 1
    PROVE  \A kinds : call.kind \in kinds => M!Asked(kinds)
BY DEF M!Asked, M!Pending, Answer

\* The sequence of a state without a copy.
LEMMA AllHeld ==
    ASSUME IInv, NEW C, Holding(C), source = <<>>
    PROVE  /\ C \in Seq(Values) /\ Len(C) \in Nat /\ Ordered(C)
           /\ Contents \o source = C /\ Size = Len(C)
<1>1. PICK lo, hi, x : State(C, lo, hi, x)
    BY DEF Holding
<1>2. C \in Seq(Values) /\ Len(C) \in Nat /\ Ordered(C \o source)
    BY <1>1, StateIs
<1>3. C \o source = C
    BY <1>2
<1>4. QED
    BY <1>2, <1>3, HeldIs DEF ContentsShown

LEMMA AllHeldNext ==
    ASSUME IInv', NEW C \in Seq(Values), Holding(C)', source' = <<>>
    PROVE  (Contents \o source)' = C /\ Size' = Len(C)
<1>1. (Contents = C)' /\ Size' = Len(C)
    BY HeldNext
<1>2. C \o <<>> = C
    OBVIOUS
<1>3. QED
    BY <1>1, <1>2

\* A call without a value to insert.
LEMMA ClearMeans ==
    ASSUME IInv, IInv', NEW C, Holding(C), Clear
    PROVE  M!Clear
<1>1. source = <<>> /\ Holding(<<>>)'
    BY ClearOrders
<1>2. /\ pc = "called" /\ call.kind = "clear" /\ pc' = "done"
      /\ call' = call /\ erased' = erased /\ source' = source
    BY DEF Clear
<1>3. (Contents \o source)' = <<>> /\ Size' = 0
    <2>1. <<>> \in Seq(Values) /\ Len(<<>>) = 0
        OBVIOUS
    <2>2. PICK E \in Seq(Values) : E = <<>>
        BY <2>1
    <2>3. Holding(E)'
        BY <1>1, <2>2
    <2>4. QED
        BY <1>1, <1>2, <2>1, <2>2, <2>3, AllHeldNext
<1>4. M!Asked({"clear"})
    BY <1>2, Unanswered
<1>5. Answer' = 0
    BY <1>2, <1>3 DEF Answer
<1>6. QED
    BY <1>2, <1>3, <1>4, <1>5 DEF M!Clear

LEMMA StartCopyStutters ==
    ASSUME IInv, IInv', NEW C, Holding(C), StartCopy
    PROVE  UNCHANGED M!vars
<1>1. source = <<>> /\ source' = C /\ Holding(<<>>)'
    BY StartCopyOrders
<1>2. C \in Seq(Values)
    BY <1>1, AllHeld
<1>3. <<>> \o source' = C \o source
    BY <1>1, <1>2
<1>4. /\ call' = call /\ erased' = erased /\ pc # "done" /\ pc' # "done"
    BY DEF StartCopy
<1>5. QED
    BY <1>1, <1>3, <1>4, Stutters

LEMMA CopyEndMeans ==
    ASSUME IInv, IInv', NEW C, Holding(C), CopyEnd
    PROVE  M!Copy
<1>1. Holding(C)'
    BY CopyEndOrders
<1>2. /\ pc = "copy" /\ source = <<>> /\ pc' = "done"
      /\ call' = call /\ erased' = erased /\ source' = source
    BY DEF CopyEnd
<1>3. call.kind = "copy"
    BY <1>2 DEF IInv, Called
<1>4. C \in Seq(Values) /\ Contents \o source = C
    BY <1>2, AllHeld
<1>5. (Contents \o source)' = C /\ Size' = Len(C)
    BY <1>1, <1>2, <1>4, AllHeldNext
<1>6. M!Asked({"copy"})
    BY <1>2, <1>3, Unanswered
<1>7. Answer' = Len(Contents \o source)
    BY <1>2, <1>3, <1>4, <1>5 DEF Answer
<1>8. QED
    BY <1>2, <1>4, <1>5, <1>6, <1>7 DEF M!Copy

LEMMA AskMeans ==
    ASSUME IInv, IInv', CallInv, NEW C, Holding(C), Ask
    PROVE  M!Ask
<1>1. Holding(C)'
    BY AskOrders
<1>2. /\ pc = "idle" /\ pc' = "called" /\ call' \in M!Calls(Size)
      /\ erased' = erased /\ source' = source
    BY DEF Ask
<1>3. PICK lo, hi, x : State(C, lo, hi, x)
    BY DEF Holding
<1>4. source = <<>> /\ erased = 0
    BY <1>2, <1>3, StateIs DEF Meant, InPlace
<1>5. C \in Seq(Values) /\ Contents \o source = C /\ Size = Len(C)
    BY <1>4, AllHeld
<1>6. (Contents \o source)' = C
    BY <1>1, <1>2, <1>4, <1>5, AllHeldNext
<1>7. call = M!NoCall
    BY <1>2 DEF CallInv
<1>8. Answer' = Answer
    BY <1>2, <1>4 DEF Answer
<1>9. QED
    BY <1>2, <1>5, <1>6, <1>7, <1>8 DEF M!Ask

\* An answer is never that there is none yet.
LEMMA PlaceIsAnAnswer ==
    ASSUME IInv, NEW C, Holding(C)
    PROVE  \A s : PlaceOf(s) # -1
<1> SUFFICES ASSUME NEW s PROVE PlaceOf(s) # -1
    OBVIOUS
<1>1. PICK lo, hi, x : State(C, lo, hi, x)
    BY DEF Holding
<1>2. PICK slots : slots = Slots(heap, root)
    OBVIOUS
<1>3. DOMAIN slots = 1..Len(slots) /\ Len(slots) \in Nat
    <2>1. CASE root = NoNode
        <3>1. slots = <<>>
            BY <1>2, <2>1 DEF Slots
        <3>2. QED
            BY <3>1
    <2>2. CASE root # NoNode
        <3>1. PICK lv, S : HeldBy(C, lo, hi, lv, S)
            BY <1>1, <2>2, TreeHeld
        <3>2. Tree(heap, root, lv, S) /\ Holds(heap, root, lo, hi, C)
            BY <3>1 DEF HeldBy
        <3>3. Len(C) \in Nat /\ 0 \in 0..Len(C)
            BY <1>1, StateIs
        <3>4. Names(heap, root, lo, hi, C, IteratorAt(0), 0)
            BY <1>1, <2>2, <3>3, IteratorHeld
        <3>5. DOMAIN slots = 1..Len(C) /\ Len(slots) = Len(C)
            BY <1>2, <3>2, <3>3, <3>4, NamesInOrder
        <3>6. QED
            BY <3>3, <3>5
    <2>3. QED
        BY <2>1, <2>2
<1>4. PlaceOf(s) = IF s \in Range(slots)
                   THEN (CHOOSE i \in DOMAIN slots : slots[i] = s) - 1
                   ELSE IF s = End THEN Len(slots) ELSE Lost
    BY <1>2 DEF PlaceOf
<1>5. CASE s \in Range(slots)
    <2>1. \E i \in DOMAIN slots : slots[i] = s
        BY <1>5 DEF Range
    <2>2. PICK c : c = CHOOSE i \in DOMAIN slots : slots[i] = s
        OBVIOUS
    <2>3. c \in DOMAIN slots
        BY ONLY <2>1, <2>2
    <2>4. PlaceOf(s) = c - 1
        BY <1>4, <1>5, <2>2
    <2>5. QED
        BY <1>3, <2>3, <2>4
<1>6. CASE s \notin Range(slots)
    BY <1>3, <1>4, <1>6 DEF Lost
<1>7. QED
    BY <1>5, <1>6

LEMMA ReturnMeans ==
    ASSUME IInv, IInv', CallInv, NEW C, Holding(C), Return
    PROVE  M!Return
<1>1. Holding(C)'
    BY ReturnOrders
<1>2. /\ pc = "done" /\ pc' = "idle" /\ call' = M!NoCall
      /\ erased' = 0 /\ source' = source
    BY DEF Return
<1>3. PICK lo, hi, x : State(C, lo, hi, x)
    BY DEF Holding
<1>4. source = <<>>
    BY <1>2, <1>3, StateIs DEF InPlace
<1>5. C \in Seq(Values) /\ Contents \o source = C /\ Size = Len(C)
      /\ Len(C) \in Nat
    BY <1>4, AllHeld
<1>6. (Contents \o source)' = C
    BY <1>1, <1>2, <1>4, <1>5, AllHeldNext
<1>7. call # M!NoCall
    BY <1>2 DEF CallInv, Kinds, M!NoCall
<1>8. Answer # -1
    <2>1. CASE call.kind = "erase_key"
        <3>1. erased \in Nat
            BY DEF IInv, Enough
        <3>2. QED
            BY <1>2, <2>1, <3>1 DEF Answer
    <2>2. CASE call.kind \in {"clear", "copy"}
        BY <1>2, <1>5, <2>2 DEF Answer
    <2>3. CASE call.kind \notin {"erase_key", "clear", "copy"}
        BY <1>2, <2>3, PlaceIsAnAnswer DEF Answer
    <2>4. QED
        BY <2>1, <2>2, <2>3
<1>9. Answer' = -1
    BY <1>2 DEF Answer, M!NoCall
<1>10. QED
    BY <1>2, <1>5, <1>6, <1>7, <1>8, <1>9 DEF M!Return, M!Pending

-----------------------------------------------------------------------------
(* The calls that insert *)

\* In a multimap a value fits among those with its key.
LEMMA FitsWhere ==
    ASSUME ~Unique, NEW C \in Seq(Values), Ordered(C), NEW v \in Values
    PROVE  \A y : M!Fits(C, KeyOf[v], y) <=> FitsIn(C, v, y)
<1>1. PICK k \in Int : k = KeyOf[v]
    BY KeyOfAssumption
<1>2. PICK g, f : Cut(C, BelowKey(k), g) /\ Cut(C, UpToKey(k), f)
    BY KeysCut
<1>3. M!Below(C, k) = g /\ M!UpTo(C, k) = f
    BY <1>2, KeysCounted
<1>4. /\ g \in 0..Len(C) /\ f \in 0..Len(C) /\ g <= f
      /\ \A j \in 1..Len(C) : /\ KeyOf[C[j]] < k <=> j <= g
                              /\ KeyOf[C[j]] <= k <=> j <= f
    BY <1>2, KeyRange
<1>5. Len(C) \in Nat /\ \A j \in 1..Len(C) : KeyOf[C[j]] \in Int
    BY KeyOfAssumption
<1>6. \A w \in Values : /\ Goes(w, v) <=> KeyOf[w] <= k
                        /\ Goes(v, w) <=> k <= KeyOf[w]
    BY <1>1 DEF Goes
<1>7. \A j \in 1..Len(C) : C[j] \in Values
    OBVIOUS
<1>8. ASSUME NEW y, M!Fits(C, k, y) PROVE FitsIn(C, v, y)
    <2>1. y \in g..f
        BY <1>3, <1>8 DEF M!Fits
    <2>2. y \in 0..Len(C)
        BY <1>4, <1>5, <2>1
    <2>3. ASSUME NEW j \in 1..Len(C)
          PROVE  IF j <= y THEN KeyOf[C[j]] <= k ELSE k <= KeyOf[C[j]]
        <3>1. CASE j <= y
            BY <1>4, <1>5, <2>1, <3>1
        <3>2. CASE ~(j <= y)
            <4>1. ~(j <= g)
                BY <1>4, <1>5, <2>1, <3>2
            <4>2. ~(KeyOf[C[j]] < k) /\ KeyOf[C[j]] \in Int
                BY <1>4, <1>5, <4>1
            <4>3. QED
                BY <3>2, <4>2
        <3>3. QED
            BY <3>1, <3>2
    <2>4. QED
        BY <1>6, <1>7, <2>2, <2>3 DEF FitsIn
<1>9. ASSUME NEW y, FitsIn(C, v, y) PROVE M!Fits(C, k, y)
    <2>1. y \in 0..Len(C)
        BY <1>9 DEF FitsIn
    <2>2. \A j \in 1..Len(C) : IF j <= y THEN KeyOf[C[j]] <= k
                                         ELSE k <= KeyOf[C[j]]
        BY <1>6, <1>7, <1>9 DEF FitsIn
    <2>3. y <= f
        <3>1. CASE y = 0
            BY <1>4, <3>1
        <3>2. CASE y # 0
            <4>1. y \in 1..Len(C) /\ y <= y
                BY <1>5, <2>1, <3>2
            <4>2. KeyOf[C[y]] <= k
                BY <2>2, <4>1
            <4>3. QED
                BY <1>4, <4>1, <4>2
        <3>3. QED
            BY <3>1, <3>2
    <2>4. g <= y
        <3>1. SUFFICES ASSUME ~(g <= y) PROVE FALSE
            OBVIOUS
        <3>2. g \in 1..Len(C) /\ g <= g
            BY <1>4, <1>5, <2>1, <3>1
        <3>3. k <= KeyOf[C[g]] /\ KeyOf[C[g]] < k /\ KeyOf[C[g]] \in Int
            BY <1>4, <1>5, <2>2, <3>1, <3>2
        <3>4. QED
            BY <3>3
    <2>5. y \in g..f
        BY <1>4, <2>1, <2>3, <2>4
    <2>6. QED
        BY <1>3, <2>5 DEF M!Fits
<1>10. QED
    BY <1>1, <1>8, <1>9

\* In a map a value fits at one place, where its key is missing.
LEMMA FitsOnce ==
    ASSUME Unique, NEW C \in Seq(Values), NEW v \in Values, NEW x,
           FitsIn(C, v, x), NEW k, k = KeyOf[v]
    PROVE  M!Below(C, k) = x /\ ~M!Present(C, k)
<1>1. x \in 0..Len(C) /\ k \in Int /\ Len(C) \in Nat
    BY KeyOfAssumption DEF FitsIn
<1>2. \A j \in 1..Len(C) : C[j] \in Values /\ KeyOf[C[j]] \in Int
    BY KeyOfAssumption
<1>3. \A j \in 1..Len(C) : IF j <= x THEN KeyOf[C[j]] < k ELSE k < KeyOf[C[j]]
    BY DEF FitsIn, Goes
<1>4. Cut(C, BelowKey(k), x)
    BY <1>1, <1>2, <1>3 DEF Cut, BelowKey
<1>5. Cut(C, UpToKey(k), x)
    BY <1>1, <1>2, <1>3 DEF Cut, UpToKey
<1>6. M!Below(C, k) = x /\ M!UpTo(C, k) = x
    BY <1>4, <1>5, KeysCounted
<1>7. QED
    BY <1>1, <1>6 DEF M!Present

\* In a multimap the place behind the values of the same key.
LEMMA FitsLast ==
    ASSUME ~Unique, NEW C \in Seq(Values), NEW v \in Values, NEW x,
           FitsIn(C, v, x), NEW k, k = KeyOf[v],
           \A j \in 1..Len(C) : j > x => k < KeyOf[C[j]]
    PROVE  M!UpTo(C, k) = x
<1>1. x \in 0..Len(C) /\ k \in Int /\ Len(C) \in Nat
    BY KeyOfAssumption DEF FitsIn
<1>2. \A j \in 1..Len(C) : C[j] \in Values /\ KeyOf[C[j]] \in Int
    BY KeyOfAssumption
<1>3. \A j \in 1..Len(C) : j <= x => KeyOf[C[j]] <= k
    BY DEF FitsIn, Goes
<1>4. Cut(C, UpToKey(k), x)
    BY <1>1, <1>2, <1>3 DEF Cut, UpToKey
<1>5. QED
    BY <1>4, KeysCounted

\* The instance inserts and removes as this module does.
LEMMA SameEdits ==
    ASSUME NEW C, NEW i, NEW v
    PROVE  /\ M!InsertAt(C, i, v) = InsertAt(C, i, v)
           /\ M!RemoveAt(C, i) = RemoveAt(C, i)
BY DEF M!InsertAt, InsertAt, M!RemoveAt, RemoveAt

\* What the calls to insert do, in the words of the container.
LEMMA PutInMeans ==
    ASSUME IInv, IInv', NEW C, Holding(C), PutIn(C), pc # "done",
           call' = call, erased' = erased
    PROVE  UNCHANGED M!vars \/ M!InsertMulti \/ M!InsertUnique
<1>1. CASE call.kind = "copy"
    <2>1. /\ pc' = "copy" /\ source' = Tail(source)
          /\ \E D : CopyGoesOn(C, source, D) /\ Holding(D)'
        BY <1>1 DEF PutIn
    <2>2. PICK D : CopyGoesOn(C, source, D) /\ Holding(D)'
        BY <2>1
    <2>3. D \o source' = C \o source
        BY <2>1, <2>2 DEF CopyGoesOn
    <2>4. pc' # "done"
        BY <2>1
    <2>5. UNCHANGED M!vars
        BY <2>2, <2>3, <2>4, Stutters
    <2>6. QED
        BY <2>5
<1>2. CASE call.kind # "copy"
    <2>1. /\ pc' = "done" /\ source' = source /\ source = <<>>
          /\ \E x, D : /\ Stands(C, call, x)
                       /\ D = InsertAt(C, x + 1, call.value)
                       /\ Answering(D, x)'
        BY <1>2 DEF PutIn
    <2>2. PICK x, D : /\ Stands(C, call, x)
                      /\ D = InsertAt(C, x + 1, call.value)
                      /\ Answering(D, x)'
        BY <2>1
    <2>3. /\ call.kind \in {"insert", "insert_hint"} /\ call.value \in Values
          /\ FitsIn(C, call.value, x)
        BY <2>2 DEF Stands
    <2>4. C \in Seq(Values) /\ Ordered(C) /\ Contents \o source = C
        BY <2>1, AllHeld
    <2>5. D \in Seq(Values)
        <3>1. PICK v \in Values : v = call.value
            BY <2>3
        <3>2. D = InsertAt(C, x + 1, v) /\ FitsIn(C, v, x)
            BY <2>2, <2>3, <3>1
        <3>3. QED
            BY ONLY <2>4, <3>1, <3>2, OrderedInsert
    <2>6. Holding(D)' /\ PlaceOf(res)' = x
        BY <2>2, AnswerNext
    <2>7. (Contents \o source)' = D
        BY <2>1, <2>5, <2>6, AllHeldNext
    <2>8. Answer' = x
        BY <2>1, <2>3, <2>6 DEF Answer
    <2>9. M!InsertedAt(x)
        BY <2>2, <2>4, <2>7, <2>8, SameEdits DEF M!InsertedAt
    <2>10. M!Asked({"insert", "insert_hint"})
        BY <2>3, Unanswered
    <2>11. PICK k : k = KeyOf[call.value]
        OBVIOUS
    <2>12. CASE Unique
        <3>1. M!Below(C, k) = x /\ ~M!Present(C, k)
            BY <2>3, <2>4, <2>11, <2>12, FitsOnce
        <3>2. M!InsertUnique
            BY <2>4, <2>9, <2>10, <2>11, <2>12, <3>1 DEF M!InsertUnique
        <3>3. QED
            BY <3>2
    <2>13. CASE ~Unique /\ call.kind = "insert"
        <3>1. \A j \in 1..Len(C) : j > x => k < KeyOf[C[j]]
            BY <2>2, <2>11, <2>13 DEF Stands
        <3>2. M!UpTo(C, k) = x
            BY <2>3, <2>4, <2>11, <2>13, <3>1, FitsLast
        <3>3. M!InsertMulti
            BY <2>4, <2>9, <2>10, <2>11, <2>13, <3>2 DEF M!InsertMulti
        <3>4. QED
            BY <3>3
    <2>14. CASE ~Unique /\ call.kind = "insert_hint"
        <3>1. \A y : M!Fits(C, k, y) <=> FitsIn(C, call.value, y)
            BY <2>3, <2>4, <2>11, <2>14, FitsWhere
        <3>2. FitsIn(C, call.value, call.at) => x = call.at
            BY <2>2, <2>14 DEF Stands
        <3>3. x \in 0..Len(C)
            BY <2>3 DEF FitsIn
        <3>4. \E n \in 0..Len(C) : /\ M!Fits(C, k, n)
                                   /\ M!Fits(C, k, call.at) => n = call.at
                                   /\ M!InsertedAt(n)
            BY <2>3, <2>9, <3>1, <3>2, <3>3
        <3>5. M!InsertMulti
            BY <2>4, <2>10, <2>11, <2>14, <3>4 DEF M!InsertMulti
        <3>6. QED
            BY <3>5
    <2>15. QED
        BY <2>3, <2>12, <2>13, <2>14
<1>3. QED
    BY <1>1, <1>2

LEMMA InsertionMeans ==
    ASSUME IInv, IInv', NEW C, Holding(C),
           InsertIntoLeaf \/ GrowRoot \/ InsertIntoRoom
    PROVE  UNCHANGED M!vars \/ M!InsertMulti \/ M!InsertUnique
<1>1. PutIn(C)
    BY InsertIntoLeafOrders, GrowRootOrders, InsertIntoRoomOrders
<1>2. pc # "done" /\ call' = call /\ erased' = erased
    BY DEF InsertIntoLeaf, GrowRoot, InsertIntoRoom
<1>3. QED
    BY <1>1, <1>2, PutInMeans

\* Of a map the place of a value is the place of its key.
LEMMA KeyAtPlace ==
    ASSUME Unique, NEW C \in Seq(Values), Ordered(C), NEW y \in 0..Len(C),
           y # Len(C), NEW k, k = KeyOf[C[y + 1]]
    PROVE  M!Below(C, k) = y /\ M!Present(C, k)
<1>1. Len(C) \in Nat /\ \A j \in 1..Len(C) : KeyOf[C[j]] \in Int
    BY KeyOfAssumption
<1>2. PICK z \in 1..Len(C) : z = y + 1
    BY <1>1
<1>3. k \in Int /\ k = KeyOf[C[z]]
    BY <1>1, <1>2
<1>4. PICK g, f : Cut(C, BelowKey(k), g) /\ Cut(C, UpToKey(k), f)
    BY <1>3, KeysCut
<1>5. /\ g \in 0..Len(C) /\ f \in 0..Len(C)
      /\ \A j \in 1..Len(C) : /\ KeyOf[C[j]] < k <=> j <= g
                              /\ KeyOf[C[j]] <= k <=> j <= f
    BY <1>3, <1>4, KeyRange
<1>6. ~(z <= g) /\ z <= f
    BY <1>2, <1>3, <1>5
<1>7. y <= g
    <2>1. CASE y = 0
        BY <1>5, <2>1
    <2>2. CASE y # 0
        <3>1. PICK i \in 1..Len(C) : i = y /\ i < z
            BY <1>1, <1>2, <2>2
        <3>2. Goes(C[i], C[z])
            BY <1>2, <3>1 DEF Ordered
        <3>3. KeyOf[C[i]] < k
            BY <1>3, <3>2 DEF Goes
        <3>4. QED
            BY <1>5, <3>1, <3>3
    <2>3. QED
        BY <2>1, <2>2
<1>8. g = y /\ g < f
    BY <1>2, <1>5, <1>6, <1>7
<1>9. M!Below(C, k) = g /\ M!UpTo(C, k) = f
    BY <1>4, KeysCounted
<1>10. QED
    BY <1>8, <1>9 DEF M!Present

\* A map that has the key answers with its place.
LEMMA FoundMeans ==
    ASSUME IInv, IInv', NEW C, Holding(C), Unique, source = <<>>, pc # "done",
           call.kind \in {"insert", "insert_hint"}, NEW k, k = KeyOf[call.value],
           M!Present(C, k), NEW y, y = M!Below(C, k), Answering(C, y)',
           pc' = "done", call' = call, erased' = erased, source' = source
    PROVE  M!InsertUnique
<1>1. C \in Seq(Values) /\ Contents \o source = C
    BY AllHeld
<1>2. Holding(C)' /\ PlaceOf(res)' = y
    BY AnswerNext
<1>3. (Contents \o source)' = C
    BY <1>1, <1>2, AllHeldNext
<1>4. Answer' = y
    BY <1>2 DEF Answer
<1>5. M!Asked({"insert", "insert_hint"})
    BY Unanswered
<1>6. QED
    BY <1>1, <1>3, <1>4, <1>5 DEF M!InsertUnique

LEMMA AnswerHintMeans ==
    ASSUME IInv, IInv', NEW C, Holding(C), AnswerHint
    PROVE  M!InsertUnique
<1>1. PICK lo, hi, x : State(C, lo, hi, x)
    BY DEF Holding
<1>2. /\ pc = "called" /\ call.kind = "insert_hint" /\ root # NoNode
      /\ HintHasKey(IteratorAt(call.at)) /\ res' = IteratorAt(call.at)
      /\ pc' = "done" /\ TreeStays /\ call' = call /\ erased' = erased
      /\ source' = source
    BY DEF AnswerHint, tree, TreeStays
<1>3. source = <<>> /\ call.at \in 0..Len(C)
    BY <1>1, <1>2, StateIs DEF Meant, InPlace
<1>4. C \in Seq(Values) /\ Len(C) \in Nat /\ Ordered(C)
    BY <1>3, AllHeld
<1>5. PICK y \in 0..Len(C) : y = call.at
    BY <1>3
<1>6. PICK s : s = IteratorAt(y)
    OBVIOUS
<1>7. Unique /\ s # End /\ KeyAt(s) = Key /\ res' = s
    BY <1>2, <1>5, <1>6 DEF HintHasKey
<1>8. Names(heap, root, lo, hi, C, s, y)
    BY <1>1, <1>2, <1>6, IteratorHeld
<1>9. PICK lv, S : HeldBy(C, lo, hi, lv, S)
    BY <1>1, <1>2, TreeHeld
<1>10. Tree(heap, root, lv, S) /\ Holds(heap, root, lo, hi, C)
    BY <1>9 DEF HeldBy
<1>11. y # Len(C) /\ HasNumber(heap, lo, hi, s, y)
    <2>1. EndSlot(heap, root) = End
        BY <1>1, <1>2, EndHeld
    <2>2. QED
        BY <1>7, <1>8, <2>1 DEF Names
<1>12. KeyOf[ValueAt(heap, s)] = KeyOf[C[y + 1]]
    BY <1>1, <1>2, <1>11, KeyOfNumber
<1>13. PICK k : k = KeyOf[call.value]
    OBVIOUS
<1>14. k = KeyOf[C[y + 1]]
    BY <1>2, <1>7, <1>12, <1>13 DEF KeyAt, Key, Value
<1>15. M!Below(C, k) = y /\ M!Present(C, k)
    BY <1>4, <1>7, <1>11, <1>14, KeyAtPlace
<1>16. Answering(C, y)'
    BY <1>1, <1>2, <1>3, <1>7, <1>8, QuietAnswers
<1>17. QED
    BY <1>2, <1>3, <1>7, <1>13, <1>15, <1>16, FoundMeans

LEMMA FoundKeyMeans ==
    ASSUME IInv, IInv', NEW C, Holding(C), FoundKey
    PROVE  M!InsertUnique
<1>1. PICK lo, hi, x : State(C, lo, hi, x)
    BY DEF Holding
<1>2. PICK s : s = Find(heap, root, Key)
    OBVIOUS
<1>3. /\ pc = "search" /\ Unique /\ s # NoSlot /\ res' = s
      /\ pc' = "done" /\ TreeStays /\ call' = call /\ erased' = erased
      /\ source' = source
    BY <1>2 DEF FoundKey, tree, TreeStays
<1>4. source = <<>> /\ call.kind # "copy"
    BY <1>1, <1>3, StateIs DEF Meant, InPlace
<1>5. root # NoNode /\ call.kind \in {"insert", "insert_hint"}
      /\ call.value \in Values
    BY <1>3, <1>4 DEF IInv, Called, Inserting, Valued
<1>6. C \in Seq(Values) /\ Len(C) \in Nat /\ Ordered(C)
    BY <1>4, AllHeld
<1>7. PICK k \in Int : k = KeyOf[call.value]
    BY <1>5, KeyOfAssumption
<1>8. k = Key
    BY <1>4, <1>7 DEF Key, Value
<1>9. PICK g \in 0..Len(C), f \in 0..Len(C) :
         /\ Cut(C, BelowKey(k), g) /\ M!Below(C, k) = g
         /\ M!Present(C, k) <=> g < Len(C) /\ KeyOf[C[g + 1]] <= k
    BY <1>6, KeyCounts
<1>10. g < Len(C) /\ KeyOf[C[g + 1]] <= k /\ HasNumber(heap, lo, hi, s, g)
    BY <1>1, <1>2, <1>3, <1>5, <1>8, <1>9, FindHeld
<1>11. Names(heap, root, lo, hi, C, res', g)
    BY <1>3, <1>6, <1>10 DEF Names
<1>12. Answering(C, g)'
    BY <1>1, <1>3, <1>4, <1>5, <1>11, QuietAnswers
<1>13. QED
    BY <1>3, <1>4, <1>5, <1>7, <1>9, <1>10, <1>12, FoundMeans

-----------------------------------------------------------------------------
(* The calls that erase *)

\* What is due of a key are the values that have it.
LEMMA DueKey ==
    ASSUME NEW C \in Seq(Values), NEW step, NEW all \in Int, NEW gone \in Int,
           NEW x, Due(C, step, call, all, gone, x), call.kind = "erase_key",
           NEW k, k = call.key
    PROVE  M!Below(C, k) = x /\ (M!Present(C, k) <=> gone < all)
<1>1. Len(C) \in Nat /\ \A j \in 1..Len(C) : C[j] \in Values
    OBVIOUS
<1>2. PICK f \in Int : f = x + (all - gone)
    BY <1>1 DEF Due
<1>3. /\ x \in 0..Len(C) /\ f \in 0..Len(C) /\ all - gone \in Nat
      /\ \A j \in 1..Len(C) : /\ KeyOf[C[j]] < k <=> j <= x
                              /\ KeyOf[C[j]] <= k <=> j <= f
    BY <1>2 DEF Due
<1>4. Cut(C, BelowKey(k), x)
    BY <1>1, <1>3 DEF Cut, BelowKey
<1>5. Cut(C, UpToKey(k), f)
    BY <1>1, <1>3 DEF Cut, UpToKey
<1>6. M!Below(C, k) = x /\ M!UpTo(C, k) = f
    BY <1>4, <1>5, KeysCounted
<1>7. x < f <=> gone < all
    BY <1>1, <1>2, <1>3
<1>8. QED
    BY <1>6, <1>7 DEF M!Present

\* The call to erase a key ends when no value has it any more.
LEMMA EraseEnds ==
    ASSUME IInv, IInv', NEW C, Holding(C), Holding(C)', source = <<>>,
           source' = source, pc # "done", pc' = "done", call' = call,
           erased' = erased, call.kind = "erase_key", ~M!Present(C, call.key)
    PROVE  M!EraseEnd
<1>1. C \in Seq(Values) /\ Contents \o source = C
    BY AllHeld
<1>2. (Contents \o source)' = C
    BY <1>1, AllHeldNext
<1>3. M!Asked({"erase_key"})
    BY Unanswered
<1>4. Answer' = erased
    BY DEF Answer
<1>5. QED
    BY <1>1, <1>2, <1>3, <1>4 DEF M!EraseEnd

\* When no value is found for a key, there is none.
LEMMA NoneToErase ==
    ASSUME IInv, NEW C, Holding(C), source = <<>>, NEW k \in Int,
           NEW first, first = IF Unique THEN Find(heap, root, k)
                              ELSE LowerBound(heap, root, k),
           NEW last, last = OrEnd(UpperBound(heap, root, k)),
           \/ first = NoSlot
           \/ ~Unique /\ PlaceOf(last) - PlaceOf(first) = 0
    PROVE  ~M!Present(C, k)
<1>1. PICK lo, hi, x : State(C, lo, hi, x)
    BY DEF Holding
<1>2. C \in Seq(Values) /\ Len(C) \in Nat /\ Ordered(C)
    BY AllHeld
<1>3. PICK g \in 0..Len(C), f \in 0..Len(C) :
         /\ Cut(C, BelowKey(k), g) /\ Cut(C, UpToKey(k), f)
         /\ M!Below(C, k) = g /\ M!UpTo(C, k) = f
         /\ M!Present(C, k) <=> g < Len(C) /\ KeyOf[C[g + 1]] <= k
    BY <1>2, KeyCounts
<1>4. CASE root = NoNode
    <2>1. C = <<>>
        BY <1>1, <1>4, NothingHeld
    <2>2. Len(C) = 0 /\ ~(g < Len(C))
        BY <1>3, <2>1
    <2>3. QED
        BY <1>3, <2>2
<1>5. CASE root # NoNode /\ Unique
    <2>1. Find(heap, root, k) = NoSlot
        BY <1>5
    <2>2. ASSUME M!Present(C, k) PROVE FALSE
        <3>1. HasNumber(heap, lo, hi, NoSlot, g)
            BY <1>1, <1>3, <1>5, <2>1, <2>2, FindHeld
        <3>2. QED
            BY <1>1, <1>5, <3>1, KeyOfNumber
    <2>3. QED
        BY <2>2
<1>6. CASE root # NoNode /\ ~Unique
    <2>1. first = LowerBound(heap, root, k)
        BY <1>6
    <2>2. /\ IF g = Len(C) THEN first = NoSlot
             ELSE HasNumber(heap, lo, hi, first, g)
        BY <1>1, <1>3, <1>6, <2>1, LowerHeld DEF Found
    <2>3. Names(heap, root, lo, hi, C, last, f)
        BY <1>1, <1>3, <1>6, UpperHeld DEF Found
    <2>4. PlaceOf(last) = f
        BY <1>1, <1>3, <1>6, <2>3, PlaceHeld
    <2>5. CASE g = Len(C)
        BY <1>2, <1>3, <2>5
    <2>6. CASE g # Len(C)
        <3>1. HasNumber(heap, lo, hi, first, g)
            BY <2>2, <2>6
        <3>2. first # NoSlot
            BY <1>1, <1>6, <3>1, KeyOfNumber
        <3>3. Names(heap, root, lo, hi, C, first, g)
            BY <2>6, <3>1 DEF Names
        <3>4. PlaceOf(first) = g
            BY <1>1, <1>3, <1>6, <3>3, PlaceHeld
        <3>5. f - g = 0
            BY <1>6, <2>4, <3>2, <3>4
        <3>6. ~(g < f)
            BY <1>3, <3>5
        <3>7. QED
            BY <1>3, <3>6 DEF M!Present
    <2>7. QED
        BY <2>5, <2>6
<1>7. QED
    BY <1>4, <1>5, <1>6

LEMMA EraseKeyMeans ==
    ASSUME IInv, IInv', NEW C, Holding(C), EraseKey
    PROVE  UNCHANGED M!vars \/ M!EraseEnd
<1>1. PICK lo, hi, x : State(C, lo, hi, x)
    BY DEF Holding
<1>2. PICK k : k = call.key
    OBVIOUS
<1>3. PICK first : first = IF Unique THEN Find(heap, root, k)
                           ELSE LowerBound(heap, root, k)
    OBVIOUS
<1>4. PICK last : last = OrEnd(UpperBound(heap, root, k))
    OBVIOUS
<1>5. PICK n : n = IF first = NoSlot THEN 0
                   ELSE IF Unique THEN 1 ELSE PlaceOf(last) - PlaceOf(first)
    OBVIOUS
<1>6. /\ pc = "called" /\ pc' = (IF n = 0 THEN "done" ELSE "erase")
      /\ call' = call /\ call.kind = "erase_key"
      /\ erased' = erased /\ source' = source
    BY <1>2, <1>3, <1>4, <1>5 DEF EraseKey
<1>7. source = <<>> /\ k \in Int
    BY <1>1, <1>2, <1>6, StateIs DEF Meant, InPlace
<1>8. Holding(C)'
    BY EraseKeyOrders
<1>9. CASE n = 0
    <2>1. \/ first = NoSlot
          \/ ~Unique /\ PlaceOf(last) - PlaceOf(first) = 0
        BY <1>5, <1>9
    <2>2. ~M!Present(C, call.key)
        BY <1>2, <1>3, <1>4, <1>7, <2>1, NoneToErase
    <2>3. M!EraseEnd
        BY <1>6, <1>7, <1>8, <1>9, <2>2, EraseEnds
    <2>4. QED
        BY <2>3
<1>10. CASE n # 0
    <2>1. pc # "done" /\ pc' # "done" /\ C \o source' = C \o source
        BY <1>6, <1>10
    <2>2. UNCHANGED M!vars
        BY <1>6, <1>8, <2>1, Stutters
    <2>3. QED
        BY <2>2
<1>11. QED
    BY <1>9, <1>10

LEMMA RemoveFromLeafMeans ==
    ASSUME IInv, IInv', NEW C, Holding(C), RemoveFromLeaf
    PROVE  M!Erase \/ M!EraseNext
<1>1. PICK x, D : /\ x \in 0..(Len(C) - 1) /\ source = <<>>
                  /\ Due(C, pc, call, count, erased, x)
                  /\ D = RemoveAt(C, x + 1) /\ Holding(D)'
    BY RemoveFromLeafOrders
<1>2. /\ pc = "erase" /\ pc' = "rebalance" /\ erased' = erased + 1
      /\ call' = call /\ source' = source
    BY DEF RemoveFromLeaf
<1>3. C \in Seq(Values) /\ Len(C) \in Nat /\ Ordered(C)
      /\ Contents \o source = C
    BY <1>1, AllHeld
<1>4. PICK z \in 1..Len(C) : z = x + 1
    BY <1>1, <1>3
<1>5. D \in Seq(Values)
    <2>1. D = RemoveAt(C, z)
        BY <1>1, <1>4
    <2>2. QED
        BY ONLY <1>3, <1>4, <2>1, OrderedRemove
<1>6. (Contents \o source)' = D
    BY <1>1, <1>2, <1>5, AllHeldNext
<1>7. D = M!RemoveAt(C, x + 1)
    BY <1>1, SameEdits
<1>8. count \in Int /\ erased \in Nat
    BY DEF IInv, Enough
<1>9. CASE call.kind = "erase"
    <2>1. x = call.at /\ erased = 0
        BY <1>1, <1>2, <1>9 DEF Due
    <2>2. M!Asked({"erase"})
        BY <1>2, <1>9, <2>1, Unanswered
    <2>3. erased' = 1 /\ Answer' = call.at
        BY <1>2, <1>9, <2>1 DEF Answer
    <2>4. M!Erase
        BY <1>2, <1>3, <1>6, <1>7, <2>1, <2>2, <2>3 DEF M!Erase
    <2>5. QED
        BY <2>4
<1>10. CASE call.kind = "erase_key"
    <2>1. PICK k : k = call.key
        OBVIOUS
    <2>2. erased < count
        BY <1>1, <1>2, <1>10 DEF Due
    <2>3. M!Below(C, k) = x /\ M!Present(C, k)
        BY <1>1, <1>3, <1>8, <1>10, <2>1, <2>2, DueKey
    <2>4. M!Asked({"erase_key"})
        BY <1>2, <1>10, Unanswered
    <2>5. Answer' = Answer
        BY <1>2, <1>10 DEF Answer
    <2>6. M!EraseNext
        BY <1>2, <1>3, <1>6, <1>7, <2>1, <2>3, <2>4, <2>5 DEF M!EraseNext
    <2>7. QED
        BY <2>6
<1>11. QED
    BY <1>1, <1>9, <1>10 DEF Due

\* A call that has erased its place was answered then, with that place.
LEMMA ErasedStutters ==
    ASSUME IInv, IInv', NEW C, Holding(C), Holding(C)', source = <<>>,
           source' = source, pc # "done", pc' = "done", call' = call,
           erased' = erased, call.kind = "erase", erased = 1,
           PlaceOf(res)' = call.at
    PROVE  UNCHANGED M!vars
<1>1. C \in Seq(Values) /\ Contents \o source = C
    BY AllHeld
<1>2. (Contents \o source)' = C
    BY <1>1, AllHeldNext
<1>3. Answer = call.at /\ Answer' = call.at
    BY DEF Answer
<1>4. QED
    BY <1>1, <1>2, <1>3 DEF M!vars

LEMMA AdvanceMeans ==
    ASSUME IInv, IInv', NEW C, Holding(C), Advance
    PROVE  UNCHANGED M!vars \/ M!EraseEnd
<1>1. Holding(C)' /\ source = <<>>
    BY AdvanceOrders
<1>2. PICK x : /\ Due(C, pc, call, count, erased, x)
               /\ pc' = "done" => Answering(C, x)'
    BY AdvanceOrders
<1>3. /\ pc = "advance" /\ call' = call /\ erased' = erased /\ source' = source
      /\ pc' = IF erased < count THEN "erase" ELSE "done"
    BY DEF Advance, EraseReturns
<1>4. CASE pc' # "done"
    <2>1. C \o source' = C \o source /\ pc # "done"
        BY <1>3
    <2>2. UNCHANGED M!vars
        BY <1>1, <1>3, <1>4, <2>1, Stutters
    <2>3. QED
        BY <2>2
<1>5. CASE pc' = "done" /\ call.kind = "erase"
    <2>1. PlaceOf(res)' = x
        BY <1>2, <1>5, AnswerNext
    <2>2. x = call.at /\ erased = 1
        BY <1>2, <1>3, <1>5 DEF Due
    <2>3. PlaceOf(res)' = call.at /\ pc # "done"
        BY <1>3, <2>1, <2>2
    <2>4. UNCHANGED M!vars
        BY <1>1, <1>3, <1>5, <2>2, <2>3, ErasedStutters
    <2>5. QED
        BY <2>4
<1>6. CASE pc' = "done" /\ call.kind = "erase_key"
    <2>1. C \in Seq(Values)
        BY <1>1, AllHeld
    <2>2. count \in Int /\ erased \in Int
        BY DEF IInv, Enough
    <2>3. ~(erased < count)
        BY <1>3, <1>6
    <2>4. ~M!Present(C, call.key)
        BY <1>2, <1>6, <2>1, <2>2, <2>3, DueKey
    <2>5. M!EraseEnd
        BY <1>1, <1>3, <1>6, <2>4, EraseEnds
    <2>6. QED
        BY <2>5
<1>7. QED
    BY <1>2, <1>4, <1>5, <1>6 DEF Due

LEMMA LastValueErasedMeans ==
    ASSUME IInv, IInv', NEW C, Holding(C), LastValueErased
    PROVE  UNCHANGED M!vars \/ M!EraseEnd
<1>1. C = <<>> /\ pc' = "done" /\ source = <<>> /\ Holding(C)'
    BY LastValueErasedOrders
<1>2. /\ pc = "rebalance" /\ call' = call /\ erased' = erased
      /\ source' = source /\ root' = NoNode /\ res' = NoSlot
    BY DEF LastValueErased, RootReached, EraseReturns
<1>3. PICK lo, hi, x : State(C, lo, hi, x)
    BY DEF Holding
<1>4. Due(C, pc, call, count, erased, x)
    BY <1>2, <1>3, StateIs DEF Meant, Erasing
<1>5. CASE call.kind = "erase"
    <2>1. x = call.at /\ erased = 1 /\ x \in 0..0
        BY <1>1, <1>2, <1>4, <1>5 DEF Due
    <2>2. PlaceOf(res)' = 0
        BY <1>1, <1>2, NothingNext
    <2>3. PlaceOf(res)' = call.at /\ pc # "done"
        BY <1>2, <2>1, <2>2
    <2>4. UNCHANGED M!vars
        BY <1>1, <1>2, <1>5, <2>1, <2>3, ErasedStutters
    <2>5. QED
        BY <2>4
<1>6. CASE call.kind = "erase_key"
    <2>1. PICK k : k = call.key
        OBVIOUS
    <2>2. C \in Seq(Values) /\ Len(C) = 0
        BY <1>1
    <2>3. count \in Int /\ erased \in Int
        BY DEF IInv, Enough
    <2>4. ~(erased < count)
        BY <1>4, <1>6, <2>2, <2>3 DEF Due
    <2>5. ~M!Present(C, k)
        BY <1>4, <1>6, <2>1, <2>2, <2>3, <2>4, DueKey
    <2>6. M!EraseEnd
        BY <1>1, <1>2, <1>6, <2>1, <2>5, EraseEnds
    <2>7. QED
        BY <2>6
<1>7. QED
    BY <1>4, <1>5, <1>6 DEF Due

-----------------------------------------------------------------------------

\* Each step is one of the abstract container, or none.
LEMMA StepMeans ==
    ASSUME IInv, IInv', CallInv, OInv, [Next]_vars
    PROVE  [M!Next]_M!vars
<1>1. PICK C : Holding(C)
    BY DEF OInv
<1>2. CASE Ask \/ Return
    BY <1>1, <1>2, AskMeans, ReturnMeans DEF M!Next
<1>3. CASE OnNodes
    BY <1>1, <1>3, OnNodesStutters
<1>4. CASE AnswerHint \/ FoundKey
    BY <1>1, <1>4, AnswerHintMeans, FoundKeyMeans DEF M!Next
<1>5. CASE InsertIntoLeaf \/ GrowRoot \/ InsertIntoRoom
    BY <1>1, <1>5, InsertionMeans DEF M!Next
<1>6. CASE EraseKey \/ Advance \/ LastValueErased
    BY <1>1, <1>6, EraseKeyMeans, AdvanceMeans, LastValueErasedMeans DEF M!Next
<1>7. CASE RemoveFromLeaf
    BY <1>1, <1>7, RemoveFromLeafMeans DEF M!Next
<1>8. CASE Clear \/ CopyEnd
    BY <1>1, <1>8, ClearMeans, CopyEndMeans DEF M!Next
<1>9. CASE StartCopy
    BY <1>1, <1>9, StartCopyStutters
<1>10. CASE UNCHANGED vars
    <2>1. Contents' = Contents /\ Size' = Size
        BY <1>10 DEF vars, tree, Contents, Size, RootIsLeaf
    <2>2. PlaceOf(res)' = PlaceOf(res)
        BY <1>10 DEF vars, tree, PlaceOf, End, Rightmost, RootIsLeaf
    <2>3. Answer' = Answer
        BY <1>10, <2>1, <2>2 DEF vars, Answer
    <2>4. QED
        BY <1>10, <2>1, <2>3 DEF vars, M!vars
<1>11. Next => Ask \/ Return \/ OnNodes \/ AnswerHint \/ FoundKey
               \/ InsertIntoLeaf \/ GrowRoot \/ InsertIntoRoom
               \/ EraseKey \/ Advance \/ LastValueErased \/ RemoveFromLeaf
               \/ Clear \/ CopyEnd \/ StartCopy
    BY DEF Next, Insertion, Erasure, Copying, OnNodes
<1>12. QED
    BY <1>2, <1>3, <1>4, <1>5, <1>6, <1>7, <1>8, <1>9, <1>10, <1>11

\* At first both containers are empty.
LEMMA InitMeans == Init => M!Init
<1> SUFFICES ASSUME Init PROVE M!Init
    OBVIOUS
<1>1. /\ root = NoNode /\ source = <<>> /\ call = M!NoCall /\ erased = 0
      /\ pc = "idle"
    BY DEF Init
<1>2. Slots(heap, root) = <<>>
    BY <1>1 DEF Slots
<1>3. Contents = <<>>
    BY <1>2 DEF Contents
<1>4. Contents \o source = <<>>
    BY <1>1, <1>3
<1>5. Answer = -1
    BY <1>1 DEF Answer
<1>6. QED
    BY <1>1, <1>4, <1>5 DEF M!Init, M!Pending

LEMMA InitCalls == Init => CallInv
BY DEF Init, CallInv

\* The tree is a sorted sequence of values to those who call it: however the
\* values are spread over nodes, each call has the effect that the container
\* promises, once, and the answer.
THEOREM TreeImplementsMultimap == Spec => ImplementsMultimap
<1>1. Init => M!Init /\ IInv /\ OInv /\ CallInv
    BY InitMeans, InitHolds, InitOrders, InitCalls
<1>2. IInv /\ OInv /\ CallInv /\ [Next]_vars => IInv' /\ OInv' /\ CallInv'
    BY StepKeeps, StepOrders, StepCalls
<1>3. IInv /\ IInv' /\ CallInv /\ OInv /\ [Next]_vars => [M!Next]_M!vars
    BY StepMeans
<1>4. QED
    BY <1>1, <1>2, <1>3, PTL DEF Spec, M!Spec, ImplementsMultimap
=============================================================================

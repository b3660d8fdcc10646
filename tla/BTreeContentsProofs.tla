------------------------ MODULE BTreeContentsProofs -------------------------
(***************************************************************************)
(* What the nodes of a tree hold: each has a stretch of the contents, and  *)
(* the operations on nodes change the stretches as they change the nodes.  *)
(* Walks over the tree and searches in it follow the numbers of the        *)
(* places.  In every state there is one such sequence of contents, and     *)
(* the step in progress is at the place where the call belongs.            *)
(***************************************************************************)
EXTENDS BTreeProofs

(***************************************************************************)
(* The order of the values.  Each node has a range of numbers: the places  *)
(* below it are numbered through, from left to right, and the number of a  *)
(* place is where the contents of the whole tree have its value.           *)
(***************************************************************************)

\* What the contents say of n: a leaf holds a stretch of them, and an internal
\* node has each of its values between the stretches of two children.
InOrder(h, n, lo, hi, C) ==
    /\ lo[n] \in Int /\ hi[n] \in Int
    /\ h[n].leaf =>
          /\ hi[n] = lo[n] + Count(h, n)
          /\ \A i \in 1..Count(h, n) : h[n].values[i] = C[lo[n] + i]
    /\ ~h[n].leaf =>
          /\ lo[Child(h, n, 0)] = lo[n]
          /\ hi[Child(h, n, Count(h, n))] = hi[n]
          /\ \A i \in 1..Count(h, n) :
                /\ lo[Child(h, n, i)] = hi[Child(h, n, i - 1)] + 1
                /\ h[n].values[i] = C[lo[Child(h, n, i)]]

\* The tree holds the sequence C.
Holds(h, top, lo, hi, C) ==
    /\ C \in Seq(Values)
    /\ lo[top] = 0 /\ hi[top] = Len(C)
    /\ \A n \in DOMAIN h : InOrder(h, n, lo, hi, C)

\* Ranges that follow one another, with a number between two of them, do not
\* overlap.
LEMMA Climb ==
    ASSUME NEW L \in Nat, NEW a, NEW b,
           \A i \in 0..L : a[i] \in Int /\ b[i] \in Int /\ a[i] <= b[i],
           \A i \in 1..L : a[i] = b[i - 1] + 1
    PROVE  /\ \A i, j \in 0..L : i < j => b[i] < a[j]
           /\ \A j \in 0..L : a[0] <= a[j] /\ b[j] <= b[L]
<1>1. ASSUME NEW i \in 0..L PROVE \A j \in 0..L : i < j => b[i] < a[j]
    <2> DEFINE T == {j \in Nat : j \in 0..L /\ i < j /\ ~(b[i] < a[j])}
    <2>1. ASSUME T # {} PROVE FALSE
        <3>1. PICK j \in T : \A x \in T : j <= x
            <4>1. T \subseteq Nat
                OBVIOUS
            <4> HIDE DEF T
            <4>2. QED
                BY <2>1, <4>1, LeastNumber
        <3>2. j \in 1..L /\ i < j /\ j - 1 \in 0..L /\ ~(b[i] < a[j])
            OBVIOUS
        <3>3. a[j] = b[j - 1] + 1 /\ a[j - 1] <= b[j - 1]
            BY <3>2
        <3>4. CASE i = j - 1
            BY <3>2, <3>3, <3>4
        <3>5. CASE i < j - 1
            <4>1. j - 1 \notin T
                BY <3>1, <3>2
            <4>2. b[i] < a[j - 1]
                BY <3>2, <3>5, <4>1
            <4>3. a[j] \in Int /\ b[j - 1] \in Int /\ a[j - 1] \in Int /\ b[i] \in Int
                BY <3>2
            <4>4. QED
                BY <3>2, <3>3, <4>2, <4>3
        <3>6. QED
            BY <3>2, <3>4, <3>5
    <2>2. QED
        BY <2>1
<1>2. ASSUME NEW j \in 0..L PROVE a[0] <= a[j] /\ b[j] <= b[L]
    <2>1. 0 \in 0..L /\ L \in 0..L
        OBVIOUS
    <2>2. j = 0 \/ b[0] < a[j]
        BY <1>1, <2>1
    <2>3. j = L \/ b[j] < a[L]
        BY <1>1, <2>1
    <2>4. QED
        BY <2>1, <2>2, <2>3
<1>3. QED
    BY <1>1, <1>2


\* The ranges of the children of n follow one another inside that of n.
ChildrenInside(h, n, lo, hi) ==
    /\ \A i, j \in 0..Count(h, n) :
          i < j => hi[Child(h, n, i)] < lo[Child(h, n, j)]
    /\ \A i \in 0..Count(h, n) :
          /\ lo[Child(h, n, i)] \in Int /\ hi[Child(h, n, i)] \in Int
          /\ lo[n] <= lo[Child(h, n, i)]
          /\ lo[Child(h, n, i)] <= hi[Child(h, n, i)]
          /\ hi[Child(h, n, i)] <= hi[n]

LEMMA ChildRanges ==
    ASSUME NEW h, NEW top, NEW lv, NEW S, Tree(h, top, lv, S),
           NEW lo, NEW hi, NEW C, Holds(h, top, lo, hi, C),
           NEW n \in DOMAIN h, ~h[n].leaf,
           \A i \in 0..Count(h, n) : lo[Child(h, n, i)] <= hi[Child(h, n, i)]
    PROVE  ChildrenInside(h, n, lo, hi)
<1> DEFINE L == Count(h, n)
           a == [i \in 0..L |-> lo[Child(h, n, i)]]
           b == [i \in 0..L |-> hi[Child(h, n, i)]]
<1>1. L \in Nat
    BY CountIs DEF Tree
<1>2. ASSUME NEW i \in 0..L
      PROVE  Child(h, n, i) \in DOMAIN h
    BY ChildIs
<1>3. InOrder(h, n, lo, hi, C)
    BY DEF Holds
<1>4. ASSUME NEW i \in 0..L
      PROVE  /\ a[i] = lo[Child(h, n, i)] /\ b[i] = hi[Child(h, n, i)]
             /\ a[i] \in Int /\ b[i] \in Int /\ a[i] <= b[i]
    <2>1. InOrder(h, Child(h, n, i), lo, hi, C)
        BY <1>2 DEF Holds
    <2>2. a[i] = lo[Child(h, n, i)] /\ b[i] = hi[Child(h, n, i)]
        OBVIOUS
    <2>3. QED
        BY <2>1, <2>2 DEF InOrder
<1>5. a[0] = lo[n] /\ b[L] = hi[n]
    <2>1. 0 \in 0..L /\ L \in 0..L
        BY <1>1
    <2> HIDE DEF a, b
    <2>2. QED
        BY <1>3, <1>4, <2>1 DEF InOrder
<1>6. ASSUME NEW i \in 1..L PROVE a[i] = b[i - 1] + 1
    <2>1. i \in 0..L /\ i - 1 \in 0..L
        BY <1>1
    <2> HIDE DEF a, b
    <2>2. lo[Child(h, n, i)] = hi[Child(h, n, i - 1)] + 1
        BY <1>3 DEF InOrder
    <2>3. QED
        BY <1>4, <2>1, <2>2
<1> HIDE DEF a, b
<1>7. /\ \A i, j \in 0..L : i < j => b[i] < a[j]
      /\ \A j \in 0..L : a[0] <= a[j] /\ b[j] <= b[L]
    BY <1>1, <1>4, <1>6, Climb
<1> HIDE DEF L
<1>8. QED
    BY <1>4, <1>5, <1>7 DEF ChildrenInside, L

\* No range is empty: a node without values still has a place to insert.
LEMMA RangesAre ==
    ASSUME NEW h, NEW top, NEW lv, NEW S, Tree(h, top, lv, S),
           NEW lo, NEW hi, NEW C, Holds(h, top, lo, hi, C)
    PROVE  \A n \in DOMAIN h : lo[n] \in Int /\ hi[n] \in Int /\ lo[n] <= hi[n]
<1> DEFINE rank == UpRank(h, lv)
           P == {n \in DOMAIN h : lo[n] <= hi[n]}
<1>1. Ranked(rank, DOMAIN h, lv[top] + 1)
    BY LevelsRank
<1>2. ASSUME NEW n \in DOMAIN h,
             \A m \in DOMAIN h : rank[m] < rank[n] => m \in P
      PROVE  n \in P
    <2>1. InOrder(h, n, lo, hi, C) /\ Count(h, n) \in Nat
        BY CountIs DEF Holds, Tree
    <2>2. CASE h[n].leaf
        BY <2>1, <2>2 DEF InOrder
    <2>3. CASE ~h[n].leaf
        <3>1. ASSUME NEW i \in 0..Count(h, n)
              PROVE  lo[Child(h, n, i)] <= hi[Child(h, n, i)]
            <4>1. /\ Child(h, n, i) \in DOMAIN h
                  /\ lv[Child(h, n, i)] + 1 = lv[n]
                BY <2>3, ChildIs
            <4>2. lv[Child(h, n, i)] \in Nat
                BY <4>1 DEF Tree, Sized
            <4>3. rank[Child(h, n, i)] < rank[n]
                BY <4>1, <4>2 DEF UpRank
            <4> HIDE DEF rank
            <4>4. QED
                BY <1>2, <4>1, <4>3
        <3>2. ChildrenInside(h, n, lo, hi)
            BY <2>3, <3>1, ChildRanges
        <3>3. 0 \in 0..Count(h, n)
            BY <2>1
        <3>4. lo[n] \in Int /\ hi[n] \in Int
            BY <2>1 DEF InOrder
        <3>5. QED
            BY <3>2, <3>3, <3>4 DEF ChildrenInside
    <2>4. QED
        BY <2>2, <2>3
<1> HIDE DEF rank, P
<1>3. DOMAIN h \subseteq P
    BY <1>1, <1>2, RankInduction
<1>4. QED
    BY <1>3 DEF P, Holds, InOrder

LEMMA InsideParent ==
    ASSUME NEW h, NEW top, NEW lv, NEW S, Tree(h, top, lv, S),
           NEW lo, NEW hi, NEW C, Holds(h, top, lo, hi, C)
    PROVE  \A n \in DOMAIN h : ~h[n].leaf => ChildrenInside(h, n, lo, hi)
<1> SUFFICES ASSUME NEW n \in DOMAIN h, ~h[n].leaf
             PROVE  ChildrenInside(h, n, lo, hi)
    OBVIOUS
<1>1. \A i \in 0..Count(h, n) : lo[Child(h, n, i)] <= hi[Child(h, n, i)]
    BY ChildIs, RangesAre
<1>2. QED
    BY <1>1, ChildRanges

\* Two nodes of one level whose ranges have a common number are the same.
LEMMA LevelDisjoint ==
    ASSUME NEW h, NEW top, NEW lv, NEW S, Tree(h, top, lv, S),
           NEW lo, NEW hi, NEW C, Holds(h, top, lo, hi, C)
    PROVE  \A m, n \in DOMAIN h, x \in Int :
              /\ lv[m] = lv[n]
              /\ lo[m] <= x /\ x <= hi[m]
              /\ lo[n] <= x /\ x <= hi[n]
              => m = n
<1> DEFINE rank == DownRank(h, top, lv)
           P == {m \in DOMAIN h : \A n \in DOMAIN h, x \in Int :
                    /\ lv[m] = lv[n]
                    /\ lo[m] <= x /\ x <= hi[m]
                    /\ lo[n] <= x /\ x <= hi[n]
                    => m = n}
<1>1. Ranked(rank, DOMAIN h, lv[top] + 1)
    BY LevelsRank
<1>2. ASSUME NEW m \in DOMAIN h,
             \A e \in DOMAIN h : rank[e] < rank[m] => e \in P
      PROVE  m \in P
    <2>1. SUFFICES ASSUME NEW n \in DOMAIN h, NEW x \in Int, lv[m] = lv[n],
                          lo[m] <= x, x <= hi[m], lo[n] <= x, x <= hi[n]
                   PROVE  m = n
        OBVIOUS
    <2>2. lv[m] \in Nat /\ (m # top => lv[m] < lv[top])
          /\ (n # top => lv[n] < lv[top]) /\ lv[top] \in Nat
        BY DEF Tree, Sized
    <2>3. CASE m = top \/ n = top
        BY <2>1, <2>2, <2>3
    <2>4. CASE m # top /\ n # top
        <3>1. PICK p \in DOMAIN h : p = h[m].parent
            BY <2>4, ParentIs
        <3>2. PICK q \in DOMAIN h : q = h[n].parent
            BY <2>4, ParentIs
        <3>3. /\ ~h[p].leaf /\ h[m].position \in 0..Count(h, p)
              /\ Child(h, p, h[m].position) = m /\ lv[p] = lv[m] + 1
            BY <2>4, <3>1, ParentIs
        <3>4. /\ ~h[q].leaf /\ h[n].position \in 0..Count(h, q)
              /\ Child(h, q, h[n].position) = n /\ lv[q] = lv[n] + 1
            BY <2>4, <3>2, ParentIs
        <3>5. ChildrenInside(h, p, lo, hi) /\ ChildrenInside(h, q, lo, hi)
            BY <3>3, <3>4, InsideParent
        <3>6. lo[p] <= lo[m] /\ hi[m] <= hi[p] /\ lo[q] <= lo[n] /\ hi[n] <= hi[q]
            BY <3>3, <3>4, <3>5 DEF ChildrenInside
        <3>7. \A e \in DOMAIN h : lo[e] \in Int /\ hi[e] \in Int
            BY RangesAre
        <3>8. lo[p] <= x /\ x <= hi[p] /\ lo[q] <= x /\ x <= hi[q]
            BY <2>1, <3>6, <3>7
        <3>9. p \in P
            <4>1. rank[p] < rank[m]
                BY <2>2, <3>3 DEF DownRank
            <4> HIDE DEF rank, P
            <4>2. QED
                BY <1>2, <4>1
        <3>10. p = q
            BY <2>1, <3>3, <3>4, <3>8, <3>9
        <3>11. CASE h[m].position = h[n].position
            BY <3>3, <3>4, <3>10, <3>11
        <3>12. CASE h[m].position < h[n].position
            <4>1. hi[m] < lo[n]
                BY <3>3, <3>4, <3>5, <3>10, <3>12 DEF ChildrenInside
            <4>2. QED
                BY <2>1, <3>7, <4>1
        <3>13. CASE h[m].position > h[n].position
            <4>1. hi[n] < lo[m]
                BY <3>3, <3>4, <3>5, <3>10, <3>13 DEF ChildrenInside
            <4>2. QED
                BY <2>1, <3>7, <4>1
        <3>14. Count(h, p) \in Nat
            BY CountIs DEF Tree
        <3>15. QED
            BY <3>3, <3>4, <3>10, <3>11, <3>12, <3>13, <3>14
    <2>5. QED
        BY <2>3, <2>4
<1> HIDE DEF rank, P
<1>3. DOMAIN h \subseteq P
    BY <1>1, <1>2, RankInduction
<1>4. QED
    BY <1>3 DEF P


(***************************************************************************)
(* Rows: the values of one or more nodes side by side with their children. *)
(***************************************************************************)

\* The values v with the children u, if there are any, around them hold the
\* contents between a and z.
Row(v, u, a, z, lo, hi, C) ==
    /\ a \in Int /\ z \in Int
    /\ \A i \in 1..Len(u) : lo[u[i]] \in Int /\ hi[u[i]] \in Int
    /\ Len(u) = 0 =>
          /\ z = a + Len(v)
          /\ \A i \in 1..Len(v) : v[i] = C[a + i]
    /\ Len(u) # 0 =>
          /\ Len(u) = Len(v) + 1
          /\ lo[u[1]] = a /\ hi[u[Len(u)]] = z
          /\ \A i \in 1..Len(v) :
                lo[u[i + 1]] = hi[u[i]] + 1 /\ v[i] = C[lo[u[i + 1]]]

\* A row after its value number k + 1 was taken out.
LEMMA RowCut ==
    ASSUME NEW v \in Seq(Values), NEW u \in Seq(Nat), NEW a, NEW z,
           NEW lo, NEW hi, NEW C, Row(v, u, a, z, lo, hi, C),
           NEW k \in Nat, k < Len(v)
    PROVE  \E x \in Int :
              /\ Row(Take(v, k), Take(u, k + 1), a, x, lo, hi, C)
              /\ v[k + 1] = C[x + 1]
              /\ Row(Drop(v, k + 1), Drop(u, k + 1), x + 1, z, lo, hi, C)
<1> DEFINE v1 == Take(v, k)
           u1 == Take(u, k + 1)
           v2 == Drop(v, k + 1)
           u2 == Drop(u, k + 1)
<1>1. /\ Len(v1) = k /\ \A i \in 1..k : v1[i] = v[i]
      /\ Len(v2) = Len(v) - (k + 1)
      /\ \A i \in 1..(Len(v) - (k + 1)) : v2[i] = v[i + (k + 1)]
      /\ Len(v) \in Nat
    <2>1. k + 1 \in Nat /\ k + 1 <= Len(v) /\ Len(v) \in Nat /\ k <= Len(v)
        OBVIOUS
    <2>2. QED
        BY <2>1, TakeIs, DropIs
<1>2. CASE Len(u) = 0
    <2>1. u1 = <<>> /\ u2 = <<>>
        BY <1>2, NothingToTake, k + 1 \in Nat
    <2>2. Len(u1) = 0 /\ Len(u2) = 0
        BY <2>1
    <2>3. /\ a \in Int /\ z = a + Len(v)
          /\ \A i \in 1..Len(v) : v[i] = C[a + i]
        BY <1>2 DEF Row
    <2> HIDE DEF v1, u1, v2, u2
    <2>4. Row(v1, u1, a, a + k, lo, hi, C)
        <3>1. ASSUME NEW i \in 1..Len(v1) PROVE v1[i] = C[a + i]
            <4>1. i \in 1..k /\ i \in 1..Len(v)
                BY <1>1
            <4>2. QED
                BY <1>1, <2>3, <4>1
        <3>2. a + k = a + Len(v1) /\ a + k \in Int /\ a \in Int
            BY <1>1, <2>3
        <3>3. QED
            BY <2>2, <3>1, <3>2 DEF Row
    <2>5. v[k + 1] = C[(a + k) + 1]
        <3>1. k + 1 \in 1..Len(v) /\ (a + k) + 1 = a + (k + 1)
            BY <1>1, <2>3
        <3>2. QED
            BY <2>3, <3>1
    <2>6. Row(v2, u2, (a + k) + 1, z, lo, hi, C)
        <3>1. ASSUME NEW i \in 1..Len(v2) PROVE v2[i] = C[((a + k) + 1) + i]
            <4>1. i + (k + 1) \in 1..Len(v) /\ v2[i] = v[i + (k + 1)]
                BY <1>1
            <4>2. a + (i + (k + 1)) = ((a + k) + 1) + i
                BY <2>3
            <4>3. QED
                BY <2>3, <4>1, <4>2
        <3>2. z = ((a + k) + 1) + Len(v2) /\ z \in Int /\ (a + k) + 1 \in Int
            BY <1>1, <2>3
        <3>3. QED
            BY <2>2, <3>1, <3>2 DEF Row
    <2>7. a + k \in Int
        BY <2>3
    <2>8. QED
        BY <2>4, <2>5, <2>6, <2>7 DEF v1, u1, v2, u2
<1>3. CASE Len(u) # 0
    <2>1. /\ Len(u) = Len(v) + 1
          /\ lo[u[1]] = a /\ hi[u[Len(u)]] = z
          /\ \A i \in 1..Len(v) :
                lo[u[i + 1]] = hi[u[i]] + 1 /\ v[i] = C[lo[u[i + 1]]]
          /\ \A i \in 1..Len(u) : lo[u[i]] \in Int /\ hi[u[i]] \in Int
          /\ a \in Int /\ z \in Int
        BY <1>3 DEF Row
    <2>2. /\ Len(u1) = k + 1 /\ \A i \in 1..(k + 1) : u1[i] = u[i]
          /\ Len(u2) = Len(u) - (k + 1)
          /\ \A i \in 1..(Len(u) - (k + 1)) : u2[i] = u[i + (k + 1)]
        <3>1. k + 1 \in Nat /\ k + 1 <= Len(u)
            BY <2>1
        <3>2. QED
            BY <3>1, TakeIs, DropIs
    <2> DEFINE x == hi[u[k + 1]]
    <2>3. x \in Int /\ k + 1 \in 1..Len(v) /\ k + 1 \in 1..Len(u)
        BY <1>1, <2>1
    <2>4. lo[u[(k + 1) + 1]] = x + 1 /\ v[k + 1] = C[x + 1]
        <3>1. lo[u[(k + 1) + 1]] = x + 1 /\ v[k + 1] = C[lo[u[(k + 1) + 1]]]
            BY <2>1, <2>3
        <3>2. QED
            BY <3>1
    <2> HIDE DEF v1, u1, v2, u2, x
    <2>5. Row(v1, u1, a, x, lo, hi, C)
        <3>1. ASSUME NEW i \in 1..Len(v1)
              PROVE  lo[u1[i + 1]] = hi[u1[i]] + 1 /\ v1[i] = C[lo[u1[i + 1]]]
            <4>1. i \in 1..Len(v) /\ i \in 1..(k + 1) /\ i + 1 \in 1..(k + 1)
                    /\ v1[i] = v[i]
                BY <1>1
            <4>2. u1[i] = u[i] /\ u1[i + 1] = u[i + 1]
                BY <2>2, <4>1
            <4>3. QED
                BY <2>1, <4>1, <4>2
        <3>2. u1[1] = u[1] /\ u1[Len(u1)] = u[k + 1]
            BY <2>2
        <3>3. ASSUME NEW i \in 1..Len(u1) PROVE lo[u1[i]] \in Int /\ hi[u1[i]] \in Int
            <4>1. u1[i] = u[i] /\ i \in 1..Len(u)
                BY <1>1, <2>1, <2>2
            <4>2. QED
                BY <2>1, <4>1
        <3>4. Len(u1) = Len(v1) + 1 /\ Len(u1) # 0
            BY <1>1, <2>2
        <3>5. QED
            BY <2>1, <2>3, <3>1, <3>2, <3>3, <3>4 DEF Row, x
    <2>6. Row(v2, u2, x + 1, z, lo, hi, C)
        <3>1. ASSUME NEW i \in 1..Len(v2)
              PROVE  lo[u2[i + 1]] = hi[u2[i]] + 1 /\ v2[i] = C[lo[u2[i + 1]]]
            <4>1. i + (k + 1) \in 1..Len(v) /\ v2[i] = v[i + (k + 1)]
                BY <1>1
            <4>2. /\ i \in 1..(Len(u) - (k + 1)) /\ i + 1 \in 1..(Len(u) - (k + 1))
                  /\ (i + 1) + (k + 1) = (i + (k + 1)) + 1
                BY <1>1, <2>1
            <4>3. u2[i] = u[i + (k + 1)] /\ u2[i + 1] = u[(i + (k + 1)) + 1]
                BY <2>2, <4>2
            <4>4. QED
                BY <2>1, <4>1, <4>3
        <3>2. u2[1] = u[(k + 1) + 1] /\ u2[Len(u2)] = u[Len(u)]
            <4>1. /\ 1 \in 1..(Len(u) - (k + 1)) /\ 1 + (k + 1) = (k + 1) + 1
                  /\ Len(u2) \in 1..(Len(u) - (k + 1)) /\ Len(u2) + (k + 1) = Len(u)
                BY <1>1, <2>1, <2>2
            <4>2. QED
                BY <2>2, <4>1
        <3>3. ASSUME NEW i \in 1..Len(u2) PROVE lo[u2[i]] \in Int /\ hi[u2[i]] \in Int
            <4>1. u2[i] = u[i + (k + 1)] /\ i + (k + 1) \in 1..Len(u)
                BY <1>1, <2>1, <2>2
            <4>2. QED
                BY <2>1, <4>1
        <3>4. Len(u2) = Len(v2) + 1 /\ Len(u2) # 0
            BY <1>1, <2>1, <2>2
        <3>5. QED
            BY <2>1, <2>3, <2>4, <3>1, <3>2, <3>3, <3>4 DEF Row
    <2>7. QED
        BY <2>3, <2>4, <2>5, <2>6 DEF v1, u1, v2, u2
<1>4. QED
    BY <1>2, <1>3

\* Two rows and the value between them.
LEMMA RowJoin ==
    ASSUME NEW v \in Seq(Values), NEW u \in Seq(Nat),
           NEW w \in Seq(Values), NEW t \in Seq(Nat), NEW e \in Values,
           NEW a, NEW x, NEW z, NEW lo, NEW hi, NEW C,
           Row(v, u, a, x, lo, hi, C), Row(w, t, x + 1, z, lo, hi, C),
           e = C[x + 1], Len(u) = 0 <=> Len(t) = 0
    PROVE  Row((v \o <<e>>) \o w, u \o t, a, z, lo, hi, C)
<1> DEFINE vw == (v \o <<e>>) \o w
           ut == u \o t
           L == Len(v)
           K == Len(w)
<1>1. /\ L \in Nat /\ K \in Nat /\ Len(vw) = L + 1 + K
      /\ \A i \in 1..L : vw[i] = v[i]
      /\ vw[L + 1] = e
      /\ \A i \in 1..K : vw[(L + 1) + i] = w[i]
    OBVIOUS
<1>2. /\ Len(ut) = Len(u) + Len(t)
      /\ \A i \in 1..Len(u) : ut[i] = u[i]
      /\ \A i \in 1..Len(t) : ut[Len(u) + i] = t[i]
      /\ Len(u) \in Nat /\ Len(t) \in Nat
    OBVIOUS
<1> HIDE DEF vw, ut, L, K
<1>3. a \in Int /\ x \in Int /\ z \in Int
    <2>1. a \in Int /\ x \in Int /\ z \in Int
        BY DEF Row
    <2>2. QED
        BY <2>1
<1>4. CASE Len(u) = 0
    <2>1. Len(ut) = 0 /\ Len(t) = 0
        BY <1>2, <1>4
    <2>2. /\ x = a + L /\ \A i \in 1..L : v[i] = C[a + i]
          /\ z = (x + 1) + K /\ \A i \in 1..K : w[i] = C[(x + 1) + i]
        BY <1>4, <2>1 DEF Row, L, K
    <2>3. ASSUME NEW i \in 1..Len(vw) PROVE vw[i] = C[a + i]
        <3>1. CASE i \in 1..L
            BY <1>1, <2>2, <3>1
        <3>2. CASE i = L + 1
            <4>1. a + i = x + 1
                BY <1>3, <2>2, <3>2, <1>1
            <4>2. QED
                BY <1>1, <3>2, <4>1
        <3>3. CASE i > L + 1
            <4>1. i - (L + 1) \in 1..K /\ (L + 1) + (i - (L + 1)) = i
                <5>1. L \in Nat /\ K \in Nat /\ i \in 1..(L + 1 + K)
                    BY <1>1
                <5>2. QED
                    BY <3>3, <5>1
            <4>2. (x + 1) + (i - (L + 1)) = a + i
                BY <1>1, <1>3, <2>2
            <4>3. vw[i] = w[i - (L + 1)]
                BY <1>1, <4>1
            <4>4. w[i - (L + 1)] = C[a + i]
                BY <2>2, <4>1, <4>2
            <4>5. QED
                BY <4>3, <4>4
        <3>4. QED
            BY <1>1, <3>1, <3>2, <3>3
    <2>4. z = a + Len(vw)
        BY <1>1, <1>3, <2>2
    <2>5. Row(vw, ut, a, z, lo, hi, C)
        BY <1>3, <2>1, <2>3, <2>4 DEF Row
    <2>6. QED
        BY <2>5 DEF vw, ut
<1>5. CASE Len(u) # 0
    <2>1. /\ Len(u) = L + 1 /\ lo[u[1]] = a /\ hi[u[Len(u)]] = x
          /\ \A i \in 1..L : lo[u[i + 1]] = hi[u[i]] + 1 /\ v[i] = C[lo[u[i + 1]]]
          /\ \A i \in 1..Len(u) : lo[u[i]] \in Int /\ hi[u[i]] \in Int
        BY <1>5 DEF Row, L
    <2>2. /\ Len(t) = K + 1 /\ lo[t[1]] = x + 1 /\ hi[t[Len(t)]] = z
          /\ \A i \in 1..K : lo[t[i + 1]] = hi[t[i]] + 1 /\ w[i] = C[lo[t[i + 1]]]
          /\ \A i \in 1..Len(t) : lo[t[i]] \in Int /\ hi[t[i]] \in Int
        BY <1>5 DEF Row, K
    <2>3. ASSUME NEW i \in 1..Len(vw)
          PROVE  lo[ut[i + 1]] = hi[ut[i]] + 1 /\ vw[i] = C[lo[ut[i + 1]]]
        <3>1. CASE i \in 1..L
            <4>1. i \in 1..Len(u) /\ i + 1 \in 1..Len(u)
                BY <1>1, <2>1, <3>1
            <4>2. ut[i] = u[i] /\ ut[i + 1] = u[i + 1] /\ vw[i] = v[i]
                BY <1>1, <1>2, <3>1, <4>1
            <4>3. QED
                BY <2>1, <3>1, <4>2
        <3>2. CASE i = L + 1
            <4>1. i = Len(u) /\ Len(u) \in 1..Len(u) /\ 1 \in 1..Len(t)
                BY <1>1, <2>1, <2>2, <3>2
            <4>2. ut[i] = u[Len(u)] /\ ut[i + 1] = t[1] /\ vw[i] = e
                BY <1>1, <1>2, <3>2, <4>1
            <4>3. QED
                BY <2>1, <2>2, <4>2
        <3>3. CASE i > L + 1
            <4> DEFINE j == i - (L + 1)
            <4>1. /\ j \in 1..K /\ (L + 1) + j = i
                  /\ j \in 1..Len(t) /\ j + 1 \in 1..Len(t)
                  /\ Len(u) + j = i /\ Len(u) + (j + 1) = i + 1
                BY <1>1, <2>1, <2>2, <3>3
            <4> HIDE DEF j
            <4>2. ut[i] = t[j] /\ ut[i + 1] = t[j + 1] /\ vw[i] = w[j]
                <5>1. ut[Len(u) + j] = t[j] /\ ut[Len(u) + (j + 1)] = t[j + 1]
                    BY <1>2, <4>1
                <5>2. vw[(L + 1) + j] = w[j]
                    BY <1>1, <4>1
                <5>3. QED
                    BY <4>1, <5>1, <5>2
            <4>3. QED
                BY <2>2, <4>1, <4>2
        <3>4. QED
            BY <1>1, <3>1, <3>2, <3>3
    <2>4. ASSUME NEW i \in 1..Len(ut) PROVE lo[ut[i]] \in Int /\ hi[ut[i]] \in Int
        <3>1. CASE i \in 1..Len(u)
            BY <1>2, <2>1, <3>1
        <3>2. CASE i > Len(u)
            <4>1. i - Len(u) \in 1..Len(t) /\ Len(u) + (i - Len(u)) = i
                BY <1>2, <3>2
            <4>2. ut[i] = t[i - Len(u)]
                BY <1>2, <4>1
            <4>3. QED
                BY <2>2, <4>1, <4>2
        <3>3. QED
            BY <1>2, <3>1, <3>2
    <2>5. /\ Len(ut) = Len(vw) + 1 /\ Len(ut) # 0
          /\ ut[1] = u[1] /\ ut[Len(ut)] = t[Len(t)]
        <3>1. 1 \in 1..Len(u) /\ Len(t) \in 1..Len(t)
            BY <1>1, <2>1, <2>2
        <3>2. QED
            BY <1>1, <1>2, <2>1, <2>2, <3>1
    <2>6. Row(vw, ut, a, z, lo, hi, C)
        BY <1>3, <2>1, <2>2, <2>3, <2>4, <2>5 DEF Row
    <2>7. QED
        BY <2>6 DEF vw, ut
<1>6. QED
    BY <1>4, <1>5 DEF vw, ut

\* A row with other numbers, but not for its children.
LEMMA RowSame ==
    ASSUME NEW v, NEW u, NEW a, NEW z, NEW lo, NEW hi, NEW C,
           Row(v, u, a, z, lo, hi, C), Len(u) \in Nat, Len(v) \in Nat,
           NEW lo2, NEW hi2,
           \A i \in 1..Len(u) : lo2[u[i]] = lo[u[i]] /\ hi2[u[i]] = hi[u[i]]
    PROVE  Row(v, u, a, z, lo2, hi2, C)
<1>1. CASE Len(u) = 0
    BY <1>1 DEF Row
<1>2. CASE Len(u) # 0
    <2>1. /\ Len(u) = Len(v) + 1
          /\ lo[u[1]] = a /\ hi[u[Len(u)]] = z
          /\ \A i \in 1..Len(v) :
                lo[u[i + 1]] = hi[u[i]] + 1 /\ v[i] = C[lo[u[i + 1]]]
        BY <1>2 DEF Row
    <2>2. 1 \in 1..Len(u) /\ Len(u) \in 1..Len(u)
        BY <1>2
    <2>3. ASSUME NEW i \in 1..Len(v)
          PROVE  lo2[u[i + 1]] = hi2[u[i]] + 1 /\ v[i] = C[lo2[u[i + 1]]]
        <3>1. i \in 1..Len(u) /\ i + 1 \in 1..Len(u)
            BY <2>1
        <3>2. QED
            BY <2>1, <3>1
    <2>4. \A i \in 1..Len(u) : lo2[u[i]] \in Int /\ hi2[u[i]] \in Int
        BY DEF Row
    <2>5. a \in Int /\ z \in Int
        BY DEF Row
    <2>6. QED
        BY <1>2, <2>1, <2>2, <2>3, <2>4, <2>5 DEF Row
<1>3. QED
    BY <1>1, <1>2

\* A row with children around its values.
KidRow(v, u, a, z, lo, hi, C) ==
    /\ a \in Int /\ z \in Int
    /\ \A i \in 1..Len(u) : lo[u[i]] \in Int /\ hi[u[i]] \in Int
    /\ lo[u[1]] = a /\ hi[u[Len(u)]] = z
    /\ \A i \in 1..Len(v) :
          lo[u[i + 1]] = hi[u[i]] + 1 /\ v[i] = C[lo[u[i + 1]]]

\* What a row with children is.
LEMMA RowHas ==
    ASSUME NEW v, NEW u, Len(v) \in Nat, Len(u) = Len(v) + 1,
           NEW a, NEW z, NEW lo, NEW hi, NEW C
    PROVE  Row(v, u, a, z, lo, hi, C) <=> KidRow(v, u, a, z, lo, hi, C)
<1>1. Len(u) # 0
    OBVIOUS
<1>2. QED
    BY <1>1 DEF Row, KidRow

\* The children i and i + 1 meet at x, and the value between them is the one
\* there; nothing else differs.
RowMeets(v, w, u, i, x, lo, hi, lo2, hi2, C) ==
    /\ Len(v) \in Nat /\ Len(u) = Len(v) + 1 /\ Len(w) = Len(v)
    /\ i \in 1..Len(v) /\ x \in Int
    /\ w[i] = C[x + 1] /\ \A j \in 1..Len(v) : j # i => w[j] = v[j]
    /\ lo2[u[i + 1]] = x + 1 /\ hi2[u[i]] = x
    /\ \A j \in 1..Len(u) : /\ j # i + 1 => lo2[u[j]] = lo[u[j]]
                            /\ j # i => hi2[u[j]] = hi[u[j]]

\* A row in which the children i and i + 1 meet at another place.
LEMMA RowShared ==
    ASSUME NEW v, NEW u, NEW a, NEW z, NEW lo, NEW hi, NEW C,
           Row(v, u, a, z, lo, hi, C), NEW w, NEW i, NEW x, NEW lo2, NEW hi2,
           RowMeets(v, w, u, i, x, lo, hi, lo2, hi2, C)
    PROVE  Row(w, u, a, z, lo2, hi2, C)
<1> USE DEF RowMeets
<1>1. KidRow(v, u, a, z, lo, hi, C)
    BY RowHas
<1>2. /\ a \in Int /\ z \in Int
      /\ \A j \in 1..Len(u) : lo[u[j]] \in Int /\ hi[u[j]] \in Int
      /\ lo[u[1]] = a /\ hi[u[Len(u)]] = z
      /\ \A j \in 1..Len(v) :
            lo[u[j + 1]] = hi[u[j]] + 1 /\ v[j] = C[lo[u[j + 1]]]
    BY <1>1 DEF KidRow
<1>3. \A j \in 1..Len(u) : lo2[u[j]] \in Int /\ hi2[u[j]] \in Int
    <2>1. SUFFICES ASSUME NEW j \in 1..Len(u)
                   PROVE  lo2[u[j]] \in Int /\ hi2[u[j]] \in Int
        OBVIOUS
    <2>2. lo2[u[j]] \in Int
        <3>1. CASE j = i + 1
            BY <3>1
        <3>2. CASE j # i + 1
            BY <1>2, <3>2
        <3>3. QED
            BY <3>1, <3>2
    <2>3. hi2[u[j]] \in Int
        BY <1>2
    <2>4. QED
        BY <2>2, <2>3
<1>4. lo2[u[1]] = a /\ hi2[u[Len(u)]] = z
    <2>1. 1 \in 1..Len(u) /\ 1 # i + 1 /\ Len(u) \in 1..Len(u) /\ Len(u) # i
        OBVIOUS
    <2>2. QED
        BY <1>2, <2>1
<1>5. ASSUME NEW j \in 1..Len(w)
      PROVE  lo2[u[j + 1]] = hi2[u[j]] + 1 /\ w[j] = C[lo2[u[j + 1]]]
    <2>1. j \in 1..Len(v) /\ j \in 1..Len(u) /\ j + 1 \in 1..Len(u)
        OBVIOUS
    <2>2. CASE j = i
        BY <2>2
    <2>3. CASE j # i
        <3>1. j + 1 # i + 1
            BY <2>3
        <3>2. lo2[u[j + 1]] = lo[u[j + 1]] /\ hi2[u[j]] = hi[u[j]] /\ w[j] = v[j]
            BY <2>1, <2>3, <3>1
        <3>3. QED
            BY <1>2, <2>1, <3>2
    <2>4. QED
        BY <2>2, <2>3
<1>6. Len(u) # 0 /\ Len(u) = Len(w) + 1
    OBVIOUS
<1>7. QED
    BY <1>2, <1>3, <1>4, <1>5, <1>6 DEF Row

\* v2 and u2 have a value and a child more than v and u: the child i ends at x
\* now, and the new one has the rest of what it had.
RowParts(v, u, v2, u2, i, new, e, x, lo, hi, lo2, hi2, C) ==
    /\ Len(v) \in Nat /\ Len(u) = Len(v) + 1 /\ i \in 1..Len(u) /\ x \in Int
    /\ HasOneMore(v, i, e, v2) /\ HasOneMore(u, i + 1, new, u2)
    /\ e = C[x + 1]
    /\ lo2[new] = x + 1 /\ hi2[new] = hi[u[i]] /\ hi2[u[i]] = x
    /\ \A j \in 1..Len(u) : /\ lo2[u[j]] = lo[u[j]]
                            /\ j # i => hi2[u[j]] = hi[u[j]]

\* A row with a new child, which takes the second part of what the child i had.
LEMMA RowSplit ==
    ASSUME NEW v, NEW u, NEW a, NEW z, NEW lo, NEW hi, NEW C,
           Row(v, u, a, z, lo, hi, C), NEW v2, NEW u2, NEW i, NEW new, NEW e,
           NEW x, NEW lo2, NEW hi2,
           RowParts(v, u, v2, u2, i, new, e, x, lo, hi, lo2, hi2, C)
    PROVE  Row(v2, u2, a, z, lo2, hi2, C)
<1> USE DEF RowParts
<1>1. KidRow(v, u, a, z, lo, hi, C)
    BY RowHas
<1>2. /\ a \in Int /\ z \in Int
      /\ \A j \in 1..Len(u) : lo[u[j]] \in Int /\ hi[u[j]] \in Int
      /\ lo[u[1]] = a /\ hi[u[Len(u)]] = z
      /\ \A j \in 1..Len(v) :
            lo[u[j + 1]] = hi[u[j]] + 1 /\ v[j] = C[lo[u[j + 1]]]
    BY <1>1 DEF KidRow
<1>3. /\ Len(v2) = Len(v) + 1 /\ Len(u2) = Len(v2) + 1
      /\ \A j \in 1..Len(v2) :
            v2[j] = IF j < i THEN v[j] ELSE IF j = i THEN e ELSE v[j - 1]
      /\ \A j \in 1..Len(u2) :
            u2[j] = IF j < i + 1 THEN u[j] ELSE IF j = i + 1 THEN new ELSE u[j - 1]
    BY DEF HasOneMore
<1>4. ASSUME NEW j \in 1..Len(u2) PROVE lo2[u2[j]] \in Int /\ hi2[u2[j]] \in Int
    <2>1. CASE j < i + 1
        <3>1. j \in 1..Len(u) /\ u2[j] = u[j]
            BY <1>3, <2>1
        <3>2. QED
            BY <1>2, <3>1
    <2>2. CASE j = i + 1
        <3>1. u2[j] = new
            BY <1>3, <2>2
        <3>2. QED
            BY <1>2, <3>1
    <2>3. CASE j > i + 1
        <3>1. j - 1 \in 1..Len(u) /\ u2[j] = u[j - 1] /\ j - 1 # i
            BY <1>3, <2>3
        <3>2. QED
            BY <1>2, <3>1
    <2>4. QED
        BY <2>1, <2>2, <2>3, <1>3
<1>5. ASSUME NEW j \in 1..Len(v2)
      PROVE  lo2[u2[j + 1]] = hi2[u2[j]] + 1 /\ v2[j] = C[lo2[u2[j + 1]]]
    <2>1. j \in 1..Len(u2) /\ j + 1 \in 1..Len(u2)
        BY <1>3
    <2>2. CASE j < i
        <3>1. /\ v2[j] = v[j] /\ u2[j] = u[j] /\ u2[j + 1] = u[j + 1]
              /\ j \in 1..Len(v) /\ j \in 1..Len(u) /\ j + 1 \in 1..Len(u)
            BY <1>3, <2>1, <2>2
        <3>2. lo2[u2[j + 1]] = lo[u[j + 1]]
            BY <3>1
        <3>3. hi2[u2[j]] = hi[u[j]]
            BY <2>2, <3>1
        <3>4. v2[j] = v[j]
            BY <3>1
        <3>5. lo[u[j + 1]] = hi[u[j]] + 1 /\ v[j] = C[lo[u[j + 1]]]
            BY <1>2, <3>1
        <3>6. QED
            BY <3>2, <3>3, <3>4, <3>5
    <2>3. CASE j = i
        <3>1. v2[j] = e /\ u2[j] = u[i] /\ u2[j + 1] = new
            BY <1>3, <2>1, <2>3
        <3>2. QED
            BY <3>1
    <2>4. CASE j = i + 1
        <3>1. /\ v2[j] = v[i] /\ u2[j] = new /\ u2[j + 1] = u[i + 1]
              /\ i \in 1..Len(v) /\ i + 1 \in 1..Len(u)
            BY <1>3, <2>1, <2>4
        <3>2. lo2[u2[j + 1]] = lo[u[i + 1]]
            BY <3>1
        <3>3. hi2[u2[j]] = hi[u[i]]
            BY <3>1
        <3>4. v2[j] = v[i]
            BY <3>1
        <3>5. lo[u[i + 1]] = hi[u[i]] + 1 /\ v[i] = C[lo[u[i + 1]]]
            BY <1>2, <3>1
        <3>6. QED
            BY <3>2, <3>3, <3>4, <3>5
    <2>5. CASE j > i + 1
        <3>1. /\ v2[j] = v[j - 1] /\ u2[j] = u[j - 1] /\ u2[j + 1] = u[(j - 1) + 1]
              /\ j - 1 \in 1..Len(v) /\ j - 1 \in 1..Len(u) /\ (j - 1) + 1 \in 1..Len(u)
              /\ j - 1 # i
            BY <1>3, <2>1, <2>5
        <3>2. lo2[u2[j + 1]] = lo[u[(j - 1) + 1]]
            BY <3>1
        <3>3. hi2[u2[j]] = hi[u[(j - 1)]]
            BY <3>1
        <3>4. v2[j] = v[(j - 1)]
            BY <3>1
        <3>5. lo[u[(j - 1) + 1]] = hi[u[(j - 1)]] + 1 /\ v[(j - 1)] = C[lo[u[(j - 1) + 1]]]
            BY <1>2, <3>1
        <3>6. QED
            BY <3>2, <3>3, <3>4, <3>5
    <2>6. QED
        BY <2>2, <2>3, <2>4, <2>5
<1>6. lo2[u2[1]] = a /\ hi2[u2[Len(u2)]] = z
    <2>1. u2[1] = u[1] /\ 1 \in 1..Len(u)
        BY <1>3
    <2>2. CASE i = Len(u)
        <3>1. u2[Len(u2)] = new
            BY <1>3, <2>2
        <3>2. QED
            BY <1>2, <2>1, <2>2, <3>1
    <2>3. CASE i # Len(u)
        <3>1. u2[Len(u2)] = u[Len(u)] /\ Len(u) \in 1..Len(u)
            BY <1>3, <2>3
        <3>2. QED
            BY <1>2, <2>1, <2>3, <3>1
    <2>4. QED
        BY <2>2, <2>3
<1>7. Len(u2) # 0
    BY <1>3
<1>8. QED
    BY <1>2, <1>3, <1>4, <1>5, <1>6, <1>7 DEF Row

\* v2 and u2 have a value and a child less than v and u: the child i has what
\* the child i + 1 had.
RowJoins(v, u, v2, u2, i, lo, hi, lo2, hi2) ==
    /\ Len(v) \in Nat /\ Len(u) = Len(v) + 1 /\ i \in 1..Len(v)
    /\ HasOneLess(v, i, v2) /\ HasOneLess(u, i + 1, u2)
    /\ hi2[u[i]] = hi[u[i + 1]]
    /\ \A j \in 1..Len(u) : j # i + 1 =>
          lo2[u[j]] = lo[u[j]] /\ (j # i => hi2[u[j]] = hi[u[j]])

\* A row without the child i + 1, whose part the child i has now.
LEMMA RowMerged ==
    ASSUME NEW v, NEW u, NEW a, NEW z, NEW lo, NEW hi, NEW C,
           Row(v, u, a, z, lo, hi, C), NEW v2, NEW u2, NEW i, NEW lo2, NEW hi2,
           RowJoins(v, u, v2, u2, i, lo, hi, lo2, hi2)
    PROVE  Row(v2, u2, a, z, lo2, hi2, C)
<1> USE DEF RowJoins
<1>1. KidRow(v, u, a, z, lo, hi, C)
    BY RowHas
<1>2. /\ a \in Int /\ z \in Int
      /\ \A j \in 1..Len(u) : lo[u[j]] \in Int /\ hi[u[j]] \in Int
      /\ lo[u[1]] = a /\ hi[u[Len(u)]] = z
      /\ \A j \in 1..Len(v) :
            lo[u[j + 1]] = hi[u[j]] + 1 /\ v[j] = C[lo[u[j + 1]]]
    BY <1>1 DEF KidRow
<1>3. /\ Len(v2) = Len(v) - 1 /\ Len(u2) = Len(v2) + 1
      /\ \A j \in 1..Len(v2) : v2[j] = IF j < i THEN v[j] ELSE v[j + 1]
      /\ \A j \in 1..Len(u2) : u2[j] = IF j < i + 1 THEN u[j] ELSE u[j + 1]
    <2>1. /\ Len(v2) = Len(v) - 1
          /\ \A j \in 1..(Len(v) - 1) : v2[j] = IF j < i THEN v[j] ELSE v[j + 1]
        BY DEF HasOneLess
    <2>2. /\ Len(u2) = Len(u) - 1
          /\ \A j \in 1..(Len(u) - 1) : u2[j] = IF j < i + 1 THEN u[j] ELSE u[j + 1]
        BY DEF HasOneLess
    <2>3. Len(u2) = Len(v2) + 1
        BY <2>1, <2>2
    <2>4. \A j \in 1..Len(u2) : u2[j] = IF j < i + 1 THEN u[j] ELSE u[j + 1]
        BY <2>2
    <2>5. QED
        BY <2>1, <2>3, <2>4
<1>4. ASSUME NEW j \in 1..Len(u2) PROVE lo2[u2[j]] \in Int /\ hi2[u2[j]] \in Int
    <2>1. CASE j < i + 1
        <3>1. j \in 1..Len(u) /\ u2[j] = u[j] /\ j # i + 1 /\ i + 1 \in 1..Len(u)
            BY <1>3, <2>1
        <3>2. lo2[u[j]] = lo[u[j]] /\ (j # i => hi2[u[j]] = hi[u[j]])
            BY <3>1
        <3>3. lo[u[j]] \in Int /\ hi[u[j]] \in Int /\ hi[u[i + 1]] \in Int
            BY <1>2, <3>1
        <3>4. CASE j = i
            BY <3>1, <3>2, <3>3, <3>4
        <3>5. CASE j # i
            BY <3>1, <3>2, <3>3, <3>5
        <3>6. QED
            BY <3>4, <3>5
    <2>2. CASE j >= i + 1
        <3>1. j + 1 \in 1..Len(u) /\ u2[j] = u[j + 1] /\ j + 1 # i /\ j + 1 # i + 1
            BY <1>3, <2>2
        <3>2. QED
            BY <1>2, <3>1
    <2>3. QED
        BY <2>1, <2>2, <1>3
<1>5. ASSUME NEW j \in 1..Len(v2)
      PROVE  lo2[u2[j + 1]] = hi2[u2[j]] + 1 /\ v2[j] = C[lo2[u2[j + 1]]]
    <2>1. j \in 1..Len(u2) /\ j + 1 \in 1..Len(u2)
        BY <1>3
    <2>2. CASE j < i
        <3>1. /\ v2[j] = v[j] /\ u2[j] = u[j] /\ u2[j + 1] = u[j + 1]
              /\ j \in 1..Len(v) /\ j \in 1..Len(u) /\ j + 1 \in 1..Len(u)
              /\ j # i + 1 /\ j + 1 # i + 1
            BY <1>3, <2>1, <2>2
        <3>2. lo2[u2[j + 1]] = lo[u[j + 1]]
            BY <3>1
        <3>3. hi2[u2[j]] = hi[u[j]]
            BY <2>2, <3>1
        <3>4. v2[j] = v[j]
            BY <3>1
        <3>5. lo[u[j + 1]] = hi[u[j]] + 1 /\ v[j] = C[lo[u[j + 1]]]
            BY <1>2, <3>1
        <3>6. QED
            BY <3>2, <3>3, <3>4, <3>5
    <2>3. CASE j = i
        <3>1. /\ v2[j] = v[i + 1] /\ u2[j] = u[i] /\ u2[j + 1] = u[(i + 1) + 1]
              /\ i + 1 \in 1..Len(v) /\ (i + 1) + 1 \in 1..Len(u)
              /\ (i + 1) + 1 # i + 1
            BY <1>3, <2>1, <2>3
        <3>2. lo2[u2[j + 1]] = lo[u[(i + 1) + 1]]
            BY <3>1
        <3>3. hi2[u2[j]] = hi[u[(i + 1)]]
            BY <3>1
        <3>4. v2[j] = v[(i + 1)]
            BY <3>1
        <3>5. lo[u[(i + 1) + 1]] = hi[u[(i + 1)]] + 1 /\ v[(i + 1)] = C[lo[u[(i + 1) + 1]]]
            BY <1>2, <3>1
        <3>6. QED
            BY <3>2, <3>3, <3>4, <3>5
    <2>4. CASE j > i
        <3>1. ~(j < i) /\ ~(j < i + 1) /\ ~(j + 1 < i + 1)
            BY <2>4
        <3>2. /\ v2[j] = v[j + 1] /\ u2[j] = u[j + 1] /\ u2[j + 1] = u[(j + 1) + 1]
              /\ j + 1 \in 1..Len(v) /\ j + 1 \in 1..Len(u) /\ (j + 1) + 1 \in 1..Len(u)
              /\ j + 1 # i /\ j + 1 # i + 1 /\ (j + 1) + 1 # i + 1
            <4>1. v2[j] = v[j + 1]
                BY <1>3, <3>1
            <4>2. u2[j] = u[j + 1] /\ u2[j + 1] = u[(j + 1) + 1]
                BY <1>3, <2>1, <3>1
            <4>3. QED
                BY <1>3, <2>4, <4>1, <4>2
        <3>3. lo2[u2[j + 1]] = lo[u[(j + 1) + 1]]
            BY <3>2
        <3>4. hi2[u2[j]] = hi[u[(j + 1)]]
            BY <3>2
        <3>5. v2[j] = v[(j + 1)]
            BY <3>2
        <3>6. lo[u[(j + 1) + 1]] = hi[u[(j + 1)]] + 1 /\ v[(j + 1)] = C[lo[u[(j + 1) + 1]]]
            BY <1>2, <3>2
        <3>7. QED
            BY <3>3, <3>4, <3>5, <3>6
    <2>5. QED
        BY <2>2, <2>3, <2>4
<1>6. lo2[u2[1]] = a /\ hi2[u2[Len(u2)]] = z
    <2>1. u2[1] = u[1] /\ 1 \in 1..Len(u) /\ 1 # i + 1
        BY <1>3
    <2>2. CASE i = Len(v)
        <3>1. u2[Len(u2)] = u[i] /\ i + 1 = Len(u)
            BY <1>3, <2>2
        <3>2. QED
            BY <1>2, <2>1, <3>1
    <2>3. CASE i # Len(v)
        <3>1. /\ u2[Len(u2)] = u[Len(u)] /\ Len(u) \in 1..Len(u)
              /\ Len(u) # i + 1 /\ Len(u) # i
            BY <1>3, <2>3
        <3>2. QED
            BY <1>2, <2>1, <3>1
    <2>4. QED
        BY <2>2, <2>3
<1>7. Len(u2) # 0
    BY <1>3
<1>8. QED
    BY <1>2, <1>3, <1>4, <1>5, <1>6, <1>7 DEF Row

(***************************************************************************)
(* What the operations on nodes do to the order of the values              *)
(***************************************************************************)

\* The node n of h as a row.
NodeRow(h, n, lo, hi, C) ==
    Row(h[n].values, h[n].children, lo[n], hi[n], lo, hi, C)

\* A node of a tree as a row.
LEMMA NodeRowIs ==
    ASSUME NEW h, NEW top, NEW lv, NEW S, Tree(h, top, lv, S),
           NEW n \in DOMAIN h
    PROVE  /\ h[n].values \in Seq(Values) /\ h[n].children \in Seq(Nat)
           /\ Len(h[n].values) = Count(h, n) /\ Count(h, n) \in Nat
           /\ h[n].leaf => Len(h[n].children) = 0
           /\ ~h[n].leaf => Len(h[n].children) = Count(h, n) + 1
           /\ \A i \in 1..Len(h[n].children) :
                 /\ h[n].children[i] \in DOMAIN h
                 /\ h[n].children[i] # top
                 /\ h[h[n].children[i]].parent = n
                 /\ h[h[n].children[i]].position = i - 1
                 /\ lv[h[n].children[i]] + 1 = lv[n]
<1>1. Heap(h) /\ Children(h, top, lv, n)
    BY DEF Tree
<1>2. h[n].values \in Seq(Values) /\ h[n].children \in Seq(Nat)
    BY <1>1, NodeIs
<1>3. Len(h[n].values) = Count(h, n) /\ Count(h, n) \in Nat
    BY <1>1, CountIs
<1>4. Len(h[n].children) = IF h[n].leaf THEN 0 ELSE Count(h, n) + 1
    BY <1>1 DEF Children
<1>5. \A i \in 1..Len(h[n].children) :
         /\ h[n].children[i] \in DOMAIN h /\ h[n].children[i] # top
         /\ h[h[n].children[i]].parent = n
         /\ h[h[n].children[i]].position = i - 1
         /\ lv[h[n].children[i]] + 1 = lv[n]
    BY <1>1 DEF Children
<1>6. QED
    BY <1>2, <1>3, <1>4, <1>5

\* A tree holds a sequence when its nodes are rows of it.
LEMMA HoldsIs ==
    ASSUME NEW h, NEW top, NEW lv, NEW S, Tree(h, top, lv, S),
           NEW lo, NEW hi, NEW C
    PROVE  Holds(h, top, lo, hi, C) <=>
              /\ C \in Seq(Values)
              /\ lo[top] = 0 /\ hi[top] = Len(C)
              /\ \A n \in DOMAIN h : NodeRow(h, n, lo, hi, C)
<1>1. ASSUME NEW n \in DOMAIN h,
             \A m \in DOMAIN h : InOrder(h, m, lo, hi, C)
      PROVE  NodeRow(h, n, lo, hi, C)
    <2> DEFINE u == h[n].children
               v == h[n].values
    <2>1. /\ Len(v) = Count(h, n) /\ Count(h, n) \in Nat
          /\ h[n].leaf => Len(u) = 0
          /\ ~h[n].leaf => Len(u) = Count(h, n) + 1
          /\ \A i \in 1..Len(u) : u[i] \in DOMAIN h
        BY NodeRowIs
    <2>2. \A i \in 1..Len(u) : lo[u[i]] \in Int /\ hi[u[i]] \in Int
        BY <1>1, <2>1 DEF InOrder
    <2>3. lo[n] \in Int /\ hi[n] \in Int
        BY <1>1 DEF InOrder
    <2>4. CASE h[n].leaf
        <3>1. hi[n] = lo[n] + Len(v) /\ \A i \in 1..Len(v) : v[i] = C[lo[n] + i]
            BY <1>1, <2>1, <2>4 DEF InOrder
        <3> HIDE DEF u, v
        <3>2. QED
            BY <2>1, <2>2, <2>3, <2>4, <3>1 DEF NodeRow, Row, u, v
    <2>5. CASE ~h[n].leaf
        <3>1. /\ lo[u[1]] = lo[n] /\ hi[u[Len(u)]] = hi[n]
              /\ \A i \in 1..Len(v) :
                    lo[u[i + 1]] = hi[u[i]] + 1 /\ v[i] = C[lo[u[i + 1]]]
            <4>1. InOrder(h, n, lo, hi, C)
                BY <1>1
            <4>2. /\ lo[u[0 + 1]] = lo[n] /\ hi[u[Count(h, n) + 1]] = hi[n]
                  /\ \A i \in 1..Count(h, n) :
                        lo[u[i + 1]] = hi[u[(i - 1) + 1]] + 1 /\ v[i] = C[lo[u[i + 1]]]
                BY <2>5, <4>1 DEF InOrder, Child
            <4> HIDE DEF u, v
            <4>3. \A i \in 1..Count(h, n) : (i - 1) + 1 = i
                BY <2>1
            <4>4. \A i \in 1..Len(v) :
                     lo[u[i + 1]] = hi[u[i]] + 1 /\ v[i] = C[lo[u[i + 1]]]
                BY <2>1, <4>2, <4>3
            <4>5. QED
                BY <2>1, <2>5, <4>2, <4>4
        <3> HIDE DEF u, v
        <3>2. KidRow(v, u, lo[n], hi[n], lo, hi, C)
            BY <2>2, <2>3, <3>1 DEF KidRow
        <3>3. Row(v, u, lo[n], hi[n], lo, hi, C)
            BY <2>1, <2>5, <3>2, RowHas
        <3>4. QED
            BY <3>3 DEF NodeRow, u, v
    <2>6. QED
        BY <2>4, <2>5
<1>2. ASSUME NEW n \in DOMAIN h, NodeRow(h, n, lo, hi, C)
      PROVE  InOrder(h, n, lo, hi, C)
    <2> DEFINE u == h[n].children
               v == h[n].values
    <2>1. /\ Len(v) = Count(h, n) /\ Count(h, n) \in Nat
          /\ h[n].leaf => Len(u) = 0
          /\ ~h[n].leaf => Len(u) = Count(h, n) + 1
        BY NodeRowIs
    <2>2. Row(v, u, lo[n], hi[n], lo, hi, C)
        BY <1>2 DEF NodeRow
    <2>3. CASE h[n].leaf
        <3>1. /\ lo[n] \in Int /\ hi[n] \in Int
              /\ hi[n] = lo[n] + Len(v) /\ \A i \in 1..Len(v) : v[i] = C[lo[n] + i]
            BY <2>1, <2>2, <2>3 DEF Row
        <3>2. QED
            BY <2>1, <2>3, <3>1 DEF InOrder
    <2>4. CASE ~h[n].leaf
        <3> HIDE DEF u, v
        <3>1. KidRow(v, u, lo[n], hi[n], lo, hi, C)
            BY <2>1, <2>2, <2>4, RowHas
        <3>2. /\ lo[n] \in Int /\ hi[n] \in Int
              /\ lo[u[1]] = lo[n] /\ hi[u[Len(u)]] = hi[n]
              /\ \A i \in 1..Len(v) :
                    lo[u[i + 1]] = hi[u[i]] + 1 /\ v[i] = C[lo[u[i + 1]]]
            BY <3>1 DEF KidRow
        <3>3. /\ lo[u[0 + 1]] = lo[n] /\ hi[u[Count(h, n) + 1]] = hi[n]
              /\ \A i \in 1..Count(h, n) :
                    lo[u[i + 1]] = hi[u[(i - 1) + 1]] + 1 /\ v[i] = C[lo[u[i + 1]]]
            <4>1. \A i \in 1..Count(h, n) : (i - 1) + 1 = i
                BY <2>1
            <4>2. \A i \in 1..Count(h, n) :
                    lo[u[i + 1]] = hi[u[(i - 1) + 1]] + 1 /\ v[i] = C[lo[u[i + 1]]]
                BY <2>1, <3>2, <4>1
            <4>3. QED
                BY <2>1, <2>4, <3>2, <4>2
        <3>4. QED
            BY <2>4, <3>2, <3>3 DEF InOrder, Child, u, v
    <2>5. QED
        BY <2>3, <2>4
<1>3. QED
    BY <1>1, <1>2 DEF Holds

\* A node in other numbers, when they differ at none of its children.
LEMMA NodeRowKept ==
    ASSUME NEW h, NEW top, NEW lv, NEW S, Tree(h, top, lv, S),
           NEW lo, NEW hi, NEW C, NEW n \in DOMAIN h, NodeRow(h, n, lo, hi, C),
           NEW g, g[n].values = h[n].values, g[n].children = h[n].children,
           NEW lo2, NEW hi2, lo2[n] = lo[n], hi2[n] = hi[n],
           \A m \in DOMAIN h : h[m].parent = n /\ m # top =>
              lo2[m] = lo[m] /\ hi2[m] = hi[m]
    PROVE  NodeRow(g, n, lo2, hi2, C)
<1> DEFINE u == h[n].children
           v == h[n].values
<1>1. Len(u) \in Nat /\ Len(v) \in Nat
    BY NodeRowIs
<1>2. \A i \in 1..Len(u) : lo2[u[i]] = lo[u[i]] /\ hi2[u[i]] = hi[u[i]]
    BY NodeRowIs
<1>3. Row(v, u, lo[n], hi[n], lo, hi, C)
    BY DEF NodeRow
<1> HIDE DEF u, v
<1>4. Row(v, u, lo[n], hi[n], lo2, hi2, C)
    BY <1>1, <1>2, <1>3, RowSame
<1>5. QED
    BY <1>4 DEF NodeRow, u, v

\* n is the child i of p, and r is the next one; the tree holds C in the numbers
\* lo to hi.
SideBySide(h, top, lv, S, n, r, p, i, lo, hi, C) ==
    /\ r \in DOMAIN h /\ r # top /\ r # n /\ p # n /\ p # r /\ ~h[p].leaf
    /\ p = h[n].parent /\ p = h[r].parent /\ lv[r] = lv[n]
    /\ i = h[n].position + 1 /\ i \in 1..Len(h[p].values)
    /\ h[p].values \in Seq(Values) /\ h[p].values[i] \in Values
    /\ Len(h[p].children) = Len(h[p].values) + 1
    /\ h[p].children[i] = n /\ h[p].children[i + 1] = r
    /\ lo[r] = hi[n] + 1 /\ h[p].values[i] = C[hi[n] + 1]
    /\ NodeRow(h, n, lo, hi, C) /\ NodeRow(h, r, lo, hi, C)
    /\ NodeRow(h, p, lo, hi, C)
    /\ Gathered(h, top, lv, S, n, r, Both(h, n, r))

\* A node and its right sibling.
LEMMA SiblingsHold ==
    ASSUME NEW h, NEW top, NEW lv, NEW S, Tree(h, top, lv, S),
           NEW lo, NEW hi, NEW C, Holds(h, top, lo, hi, C),
           NEW n \in DOMAIN h, n # top, HasRight(h, n), NEW r, r = Right(h, n)
    PROVE  \E p \in DOMAIN h, i \in Nat :
              SideBySide(h, top, lv, S, n, r, p, i, lo, hi, C)
<1>1. /\ r \in DOMAIN h /\ r # top /\ r # n /\ lv[n] = lv[r] /\ r \notin S
      /\ h[r].parent = h[n].parent /\ h[r].position = h[n].position + 1
    BY RightIs
<1>2. PICK p \in DOMAIN h : p = h[n].parent
    BY ParentIs
<1>3. /\ ~h[p].leaf /\ h[n].position \in 0..Count(h, p) /\ lv[p] = lv[n] + 1
      /\ h[p].children[h[n].position + 1] = n
    BY <1>2, ParentIs
<1>4. /\ h[r].position \in 0..Count(h, p)
      /\ h[p].children[h[r].position + 1] = r
    BY <1>1, <1>2, ParentIs
<1>5. p # n /\ p # r
    <2>1. lv[n] \in Nat
        BY DEF Tree, Sized
    <2>2. QED
        BY <1>1, <1>3, <2>1
<1>6. /\ h[p].values \in Seq(Values) /\ Len(h[p].values) = Count(h, p)
      /\ Count(h, p) \in Nat /\ Len(h[p].children) = Count(h, p) + 1
    BY <1>3, NodeRowIs
<1>7. PICK i \in Nat : i = h[n].position + 1 /\ i \in 1..Len(h[p].values)
    BY <1>1, <1>3, <1>4, <1>6
<1>8. h[p].children[i] = n /\ h[p].children[i + 1] = r
    BY <1>1, <1>3, <1>4, <1>7
<1>9. NodeRow(h, n, lo, hi, C) /\ NodeRow(h, r, lo, hi, C) /\ NodeRow(h, p, lo, hi, C)
    BY <1>1, HoldsIs
<1>10. lo[r] = hi[n] + 1 /\ h[p].values[i] = C[hi[n] + 1]
    <2> DEFINE v == h[p].values
               u == h[p].children
    <2>1. Len(v) \in Nat /\ Len(u) = Len(v) + 1 /\ i \in 1..Len(v)
          /\ u[i] = n /\ u[i + 1] = r
        BY <1>6, <1>7, <1>8
    <2>2. Row(v, u, lo[p], hi[p], lo, hi, C)
        BY <1>9 DEF NodeRow
    <2> HIDE DEF v, u
    <2>3. KidRow(v, u, lo[p], hi[p], lo, hi, C)
        BY <2>1, <2>2, RowHas
    <2>4. lo[u[i + 1]] = hi[u[i]] + 1 /\ v[i] = C[lo[u[i + 1]]]
        BY <2>1, <2>3 DEF KidRow
    <2>5. lo[r] = hi[n] + 1 /\ v[i] = C[lo[r]]
        BY <2>1, <2>4
    <2>6. QED
        BY <2>5 DEF v
<1>11. Gathered(h, top, lv, S, n, r, Both(h, n, r))
    BY <1>1, BothIs
<1>12. h[p].values[i] \in Values
    BY <1>6, <1>7
<1>13. SideBySide(h, top, lv, S, n, r, p, i, lo, hi, C)
    BY <1>1, <1>2, <1>3, <1>5, <1>6, <1>7, <1>8, <1>9, <1>10, <1>11, <1>12
       DEF SideBySide
<1>14. QED
    BY <1>13

\* Their values and children are one row.
LEMMA SiblingsJoined ==
    ASSUME NEW h, NEW top, NEW lv, NEW S, Tree(h, top, lv, S),
           NEW lo, NEW hi, NEW C, NEW n \in DOMAIN h, NEW r,
           NEW p, NEW i, SideBySide(h, top, lv, S, n, r, p, i, lo, hi, C),
           NEW v, v = ValuesOfBoth(h, n, r), NEW u, u = Both(h, n, r)
    PROVE  /\ v \in Seq(Values) /\ u \in Seq(Nat)
           /\ Len(v) = Count(h, n) + 1 + Count(h, r)
           /\ Row(v, u, lo[n], hi[r], lo, hi, C)
<1> DEFINE vn == h[n].values
           vr == h[r].values
           un == h[n].children
           ur == h[r].children
           e == h[p].values[i]
<1>1. /\ vn \in Seq(Values) /\ vr \in Seq(Values) /\ e \in Values
      /\ un \in Seq(Nat) /\ ur \in Seq(Nat)
      /\ Len(vn) = Count(h, n) /\ Len(vr) = Count(h, r)
    <2>1. r \in DOMAIN h /\ e \in Values
        BY DEF SideBySide
    <2>2. vn \in Seq(Values) /\ un \in Seq(Nat) /\ Len(vn) = Count(h, n)
        BY NodeRowIs
    <2>3. vr \in Seq(Values) /\ ur \in Seq(Nat) /\ Len(vr) = Count(h, r)
        BY <2>1, NodeRowIs
    <2>4. QED
        BY <2>1, <2>2, <2>3
<1>2. v = (vn \o <<e>>) \o vr /\ u = un \o ur
    BY DEF ValuesOfBoth, Both, SideBySide
<1>3. /\ Row(vn, un, lo[n], hi[n], lo, hi, C)
      /\ Row(vr, ur, hi[n] + 1, hi[r], lo, hi, C)
      /\ e = C[hi[n] + 1]
    BY DEF SideBySide, NodeRow
<1>4. Len(un) = 0 <=> Len(ur) = 0
    <2>1. /\ h[n].leaf => Len(un) = 0
          /\ ~h[n].leaf => Len(un) = Count(h, n) + 1
          /\ h[r].leaf => Len(ur) = 0
          /\ ~h[r].leaf => Len(ur) = Count(h, r) + 1
          /\ Count(h, n) \in Nat /\ Count(h, r) \in Nat
        BY NodeRowIs DEF SideBySide
    <2>2. h[n].leaf = h[r].leaf
        BY DEF SideBySide, Gathered
    <2>3. QED
        BY <2>1, <2>2
<1>5. Len(v) = Count(h, n) + 1 + Count(h, r) /\ v \in Seq(Values)
    <2>1. v \in Seq(Values) /\ Len(v) = Len(vn) + 1 + Len(vr)
        BY <1>1, <1>2, ValuesInARow
    <2>2. QED
        BY <1>1, <2>1
<1>6. u \in Seq(Nat)
    BY <1>1, <1>2
<1> HIDE DEF vn, vr, un, ur, e
<1>7. Row((vn \o <<e>>) \o vr, un \o ur, lo[n], hi[r], lo, hi, C)
    BY <1>1, <1>3, <1>4, RowJoin
<1>8. QED
    BY <1>2, <1>5, <1>6, <1>7

\* Other numbers for the end of n and the start of r, which meet at x.
MeetAt(h, lo, hi, n, r, x, lo2, hi2) ==
    /\ \A m \in DOMAIN h : m # r => lo2[m] = lo[m]
    /\ \A m \in DOMAIN h : m # n => hi2[m] = hi[m]
    /\ lo2[r] = x + 1 /\ hi2[n] = x

\* There are such numbers.
LEMMA NumbersMeet ==
    ASSUME NEW h, NEW lo, NEW hi, NEW n \in DOMAIN h, NEW r \in DOMAIN h, NEW x
    PROVE  \E lo2, hi2 : MeetAt(h, lo, hi, n, r, x, lo2, hi2)
<1> DEFINE lo2 == [m \in DOMAIN h |-> IF m = r THEN x + 1 ELSE lo[m]]
           hi2 == [m \in DOMAIN h |-> IF m = n THEN x ELSE hi[m]]
<1>1. MeetAt(h, lo, hi, n, r, x, lo2, hi2)
    BY DEF MeetAt
<1>2. QED
    BY <1>1

\* Sharing out leaves the contents.
LEMMA ShareHolds ==
    ASSUME NEW h, NEW top, NEW lv, NEW S, Tree(h, top, lv, S),
           NEW lo, NEW hi, NEW C, Holds(h, top, lo, hi, C),
           NEW n \in DOMAIN h, n # top, HasRight(h, n),
           NEW r, r = Right(h, n), NEW k \in 0..NodeValues,
           Count(h, n) + Count(h, r) - k \in 0..NodeValues,
           NEW g, g = Share(h, n, k)
    PROVE  \E x \in Int : \E lo2, hi2 :
              /\ Holds(g, top, lo2, hi2, C)
              /\ MeetAt(h, lo, hi, n, r, x, lo2, hi2)
              /\ h[n].leaf => x = lo[n] + k
<1> DEFINE u == Both(h, n, r)
           v == ValuesOfBoth(h, n, r)
<1>1. /\ Tree(g, top, lv, S) /\ Shared(h, g, n, r, k, u)
      /\ SharedOut(h, g, n, r, k, v, u)
    BY ShareIs
<1>2. PICK p \in DOMAIN h, i \in Nat :
          SideBySide(h, top, lv, S, n, r, p, i, lo, hi, C)
    BY SiblingsHold
<1>3. /\ v \in Seq(Values) /\ u \in Seq(Nat)
      /\ Len(v) = Count(h, n) + 1 + Count(h, r)
      /\ Row(v, u, lo[n], hi[r], lo, hi, C)
    BY <1>2, SiblingsJoined
<1>4. /\ r \in DOMAIN h /\ r # top /\ r # n /\ p # n /\ p # r /\ lv[r] = lv[n]
      /\ p = h[n].parent /\ p = h[r].parent
      /\ i = h[n].position + 1 /\ i \in 1..Len(h[p].values)
      /\ h[p].values \in Seq(Values)
      /\ Len(h[p].children) = Len(h[p].values) + 1
      /\ h[p].children[i] = n /\ h[p].children[i + 1] = r
      /\ NodeRow(h, p, lo, hi, C)
      /\ Gathered(h, top, lv, S, n, r, u)
    BY <1>2 DEF SideBySide
<1> HIDE DEF u, v
<1>5. k \in Nat /\ k < Len(v) /\ k + 1 \in Nat /\ lv[n] \in Nat
    <2>1. Count(h, n) \in Nat /\ Count(h, r) \in Nat /\ lv[n] \in Nat
        BY <1>4, CountIs DEF Tree, Sized
    <2>2. QED
        BY <1>3, <2>1, NodeValuesAssumption
<1> DEFINE t == Take(u, k + 1)
           d == Drop(u, k + 1)
           left == Take(v, k)
           right == Drop(v, k + 1)
<1>6. PICK x \in Int :
          /\ Row(left, t, lo[n], x, lo, hi, C)
          /\ v[k + 1] = C[x + 1]
          /\ Row(right, d, x + 1, hi[r], lo, hi, C)
    BY <1>3, <1>5, RowCut
<1>7. PICK lo2, hi2 : MeetAt(h, lo, hi, n, r, x, lo2, hi2)
    BY <1>4, NumbersMeet
<1>8. Len(left) \in Nat /\ Len(right) \in Nat
    <2>1. left \in Seq(Values)
        BY <1>3, <1>5, TakeIs
    <2>2. PICK y \in Nat : y = k + 1 /\ y <= Len(v)
        BY <1>3, <1>5
    <2>3. Drop(v, y) \in Seq(Values)
        BY <1>3, <2>2, DropIs
    <2>4. right \in Seq(Values)
        BY <2>2, <2>3
    <2>5. QED
        BY <2>1, <2>4
<1>9. Halves(u, k + 1, t, d)
    <2>1. Distinct(u)
        BY <1>4 DEF Gathered
    <2>2. Len(u) = 0 \/ k + 1 <= Len(u)
        <3>1. Len(u) = 0 \/ Len(u) = Len(v) + 1
            BY <1>3 DEF Row
        <3>2. Len(v) \in Nat
            BY <1>3
        <3>3. QED
            BY <1>5, <3>1, <3>2
    <2>3. QED
        BY <1>3, <1>5, <2>1, <2>2, HalvesAre
<1> HIDE DEF t, d, left, right
<1>10. ASSUME NEW j \in 1..Len(u)
       PROVE  lo2[u[j]] = lo[u[j]] /\ hi2[u[j]] = hi[u[j]]
    <2>1. u[j] \in DOMAIN h /\ lv[u[j]] + 1 = lv[n]
        BY <1>4 DEF Gathered
    <2>2. u[j] # n /\ u[j] # r
        BY <1>4, <1>5, <2>1
    <2>3. QED
        BY <1>7, <2>1, <2>2 DEF MeetAt
<1>11. Row(left, t, lo[n], x, lo2, hi2, C)
    <2>1. ASSUME NEW j \in 1..Len(t)
          PROVE  lo2[t[j]] = lo[t[j]] /\ hi2[t[j]] = hi[t[j]]
        <3>1. j \in 1..Len(u) /\ t[j] = u[j]
            BY <1>9 DEF Halves
        <3>2. QED
            BY <1>10, <3>1
    <2>2. Len(t) \in Nat
        BY <1>9 DEF Halves
    <2>3. QED
        BY <1>6, <1>8, <2>1, <2>2, RowSame
<1>12. Row(right, d, x + 1, hi[r], lo2, hi2, C)
    <2>1. ASSUME NEW j \in 1..Len(d)
          PROVE  lo2[d[j]] = lo[d[j]] /\ hi2[d[j]] = hi[d[j]]
        <3>1. j + (k + 1) \in 1..Len(u) /\ d[j] = u[j + (k + 1)]
            BY <1>9 DEF Halves
        <3>2. QED
            BY <1>10, <3>1
    <2>2. Len(d) \in Nat
        BY <1>9 DEF Halves
    <2>3. QED
        BY <1>6, <1>8, <2>1, <2>2, RowSame
<1>13. NodeRow(g, n, lo2, hi2, C)
    <2>1. lo2[n] = lo[n] /\ hi2[n] = x
        BY <1>4, <1>7 DEF MeetAt
    <2>2. g[n].values = left /\ g[n].children = t
        BY <1>1 DEF SharedOut, left, t
    <2>3. QED
        BY <1>11, <2>1, <2>2 DEF NodeRow
<1>14. NodeRow(g, r, lo2, hi2, C)
    <2>1. lo2[r] = x + 1 /\ hi2[r] = hi[r]
        BY <1>4, <1>7 DEF MeetAt
    <2>2. g[r].values = right /\ g[r].children = d
        BY <1>1 DEF SharedOut, right, d
    <2>3. QED
        BY <1>12, <2>1, <2>2 DEF NodeRow
<1>15. NodeRow(g, p, lo2, hi2, C)
    <2> DEFINE vp == h[p].values
               up == h[p].children
               w == g[p].values
    <2>1. lo2[p] = lo[p] /\ hi2[p] = hi[p]
        BY <1>4, <1>7 DEF MeetAt
    <2>2. w = [vp EXCEPT ![i] = v[k + 1]] /\ g[p].children = up
        BY <1>1, <1>4 DEF SharedOut
    <2>3. Len(w) = Len(vp) /\ w[i] = C[x + 1]
          /\ \A j \in 1..Len(vp) : j # i => w[j] = vp[j]
        BY <1>4, <1>6, <2>2, SMTT(30)
    <2>4. Len(vp) \in Nat /\ Len(up) = Len(vp) + 1 /\ i \in 1..Len(vp)
        BY <1>4
    <2>5. lo2[up[i + 1]] = x + 1 /\ hi2[up[i]] = x
        BY <1>4, <1>7 DEF MeetAt
    <2>6. ASSUME NEW j \in 1..Len(up)
          PROVE  /\ j # i + 1 => lo2[up[j]] = lo[up[j]]
                 /\ j # i => hi2[up[j]] = hi[up[j]]
        <3>1. up[j] \in DOMAIN h /\ h[up[j]].position = j - 1
            BY NodeRowIs
        <3>2. h[n].position = i - 1 /\ h[r].position = (i + 1) - 1
            <4>1. i \in 1..Len(up) /\ i + 1 \in 1..Len(up)
                BY <2>4
            <4>2. up[i] = n /\ up[i + 1] = r
                BY <1>4
            <4>3. \A y \in 1..Len(up) : h[up[y]].position = y - 1
                BY NodeRowIs
            <4> HIDE DEF up
            <4>4. QED
                BY <4>1, <4>2, <4>3
        <3>3. (j # i + 1 => up[j] # r) /\ (j # i => up[j] # n)
            <4>1. j \in Int /\ i \in Int
                BY <2>4
            <4>2. QED
                BY <4>1, <3>1, <3>2
        <3>4. QED
            BY <1>7, <3>1, <3>3 DEF MeetAt
    <2>7. Row(vp, up, lo[p], hi[p], lo, hi, C)
        BY <1>4 DEF NodeRow
    <2> HIDE DEF vp, up, w
    <2>8. Row(w, up, lo[p], hi[p], lo2, hi2, C)
        <3>1. \A j \in 1..Len(up) : /\ j # i + 1 => lo2[up[j]] = lo[up[j]]
                                    /\ j # i => hi2[up[j]] = hi[up[j]]
            BY <2>6
        <3>2. /\ Row(vp, up, lo[p], hi[p], lo, hi, C)
              /\ Len(vp) \in Nat /\ Len(up) = Len(vp) + 1 /\ i \in 1..Len(vp)
              /\ x \in Int /\ Len(w) = Len(vp) /\ w[i] = C[x + 1]
            BY <1>6, <2>3, <2>4, <2>7
        <3>3. \A j \in 1..Len(vp) : j # i => w[j] = vp[j]
            BY <2>3
        <3>4. lo2[up[i + 1]] = x + 1 /\ hi2[up[i]] = x
            BY <2>5
        <3>5. RowMeets(vp, w, up, i, x, lo, hi, lo2, hi2, C)
            BY <3>1, <3>2, <3>3, <3>4 DEF RowMeets
        <3>6. QED
            BY <3>2, <3>5, RowShared
    <2>9. QED
        BY <2>1, <2>2, <2>8 DEF NodeRow, w
<1>16. ASSUME NEW m \in DOMAIN h, m \notin {n, r, p}
       PROVE  NodeRow(g, m, lo2, hi2, C)
    <2>1. g[m].values = h[m].values /\ g[m].children = h[m].children
        BY <1>1, <1>4, <1>16 DEF SharedOut
    <2>2. NodeRow(h, m, lo, hi, C)
        BY HoldsIs
    <2>3. lo2[m] = lo[m] /\ hi2[m] = hi[m]
        BY <1>7, <1>16 DEF MeetAt
    <2>4. \A y \in DOMAIN h : h[y].parent = m /\ y # top =>
              lo2[y] = lo[y] /\ hi2[y] = hi[y]
        BY <1>4, <1>7, <1>16 DEF MeetAt
    <2>5. QED
        BY <2>1, <2>2, <2>3, <2>4, NodeRowKept
<1>17. Holds(g, top, lo2, hi2, C)
    <2>1. DOMAIN g = DOMAIN h /\ top \in DOMAIN h
        BY <1>1 DEF Shared, Tree
    <2>2. \A m \in DOMAIN g : NodeRow(g, m, lo2, hi2, C)
        BY <1>13, <1>14, <1>15, <1>16, <2>1
    <2>3. C \in Seq(Values) /\ lo[top] = 0 /\ hi[top] = Len(C)
        BY DEF Holds
    <2>4. lo2[top] = 0 /\ hi2[top] = Len(C)
        BY <1>4, <1>7, <2>1, <2>3 DEF MeetAt
    <2>5. QED
        BY <1>1, <2>2, <2>3, <2>4, HoldsIs
<1>18. h[n].leaf => x = lo[n] + k
    <2>1. SUFFICES ASSUME h[n].leaf PROVE x = lo[n] + k
        OBVIOUS
    <2>2. Len(t) = 0
        BY <1>4, <1>9, <2>1 DEF Gathered, Halves
    <2>3. x = lo[n] + Len(left)
        BY <1>6, <2>2 DEF Row
    <2>4. Len(left) = k
        BY <1>3, <1>5, TakeIs DEF left
    <2>5. QED
        BY <2>3, <2>4
<1>19. QED
    BY <1>7, <1>17, <1>18

\* Other numbers for the end of n, where the new node goes on.
PartAt(h, lo, hi, n, new, x, lo2, hi2) ==
    /\ \A m \in DOMAIN h : /\ lo2[m] = lo[m]
                           /\ m # n => hi2[m] = hi[m]
    /\ lo2[new] = x + 1 /\ hi2[new] = hi[n] /\ hi2[n] = x

\* There are such numbers.
LEMMA NumbersPart ==
    ASSUME NEW h, NEW lo, NEW hi, NEW n \in DOMAIN h, NEW new,
           new \notin DOMAIN h, NEW x
    PROVE  \E lo2, hi2 : PartAt(h, lo, hi, n, new, x, lo2, hi2)
<1> DEFINE lo2 == [m \in DOMAIN h \cup {new} |-> IF m = new THEN x + 1 ELSE lo[m]]
           hi2 == [m \in DOMAIN h \cup {new} |->
                      IF m = new THEN hi[n] ELSE IF m = n THEN x ELSE hi[m]]
<1>1. PartAt(h, lo, hi, n, new, x, lo2, hi2)
    BY DEF PartAt
<1>2. QED
    BY <1>1

\* Splitting a node leaves the contents.
LEMMA SplitHolds ==
    ASSUME NEW h, NEW top, NEW lv, NEW S, Tree(h, top, lv, S),
           NEW lo, NEW hi, NEW C, Holds(h, top, lo, hi, C),
           NEW n \in DOMAIN h, n # top, NEW k \in Nat, k < Count(h, n),
           NEW new \in Nat, new \notin DOMAIN h,
           NEW lw, NEW g, Tree(g, top, lw, S), DOMAIN g = DOMAIN h \cup {new},
           SplitOff(h, g, n, new, k)
    PROVE  \E x \in Int : \E lo2, hi2 :
              /\ Holds(g, top, lo2, hi2, C)
              /\ PartAt(h, lo, hi, n, new, x, lo2, hi2)
              /\ h[n].leaf => x = lo[n] + k
<1> DEFINE v == h[n].values
           u == h[n].children
<1>1. PICK p \in DOMAIN h : p = h[n].parent
    BY ParentIs
<1>2. /\ ~h[p].leaf /\ h[n].position \in 0..Count(h, p) /\ lv[p] = lv[n] + 1
      /\ h[p].children[h[n].position + 1] = n /\ lv[n] \in Nat
    <2>1. lv[n] \in Nat
        BY DEF Tree, Sized
    <2>2. QED
        BY <1>1, <2>1, ParentIs
<1>3. p # n /\ n # new /\ p # new /\ top # new /\ top \in DOMAIN h
    BY <1>2 DEF Tree
<1>4. /\ v \in Seq(Values) /\ u \in Seq(Nat) /\ Len(v) = Count(h, n)
      /\ h[n].leaf => Len(u) = 0
      /\ ~h[n].leaf => Len(u) = Count(h, n) + 1
      /\ \A j \in 1..Len(u) :
            u[j] \in DOMAIN h /\ u[j] # top /\ h[u[j]].parent = n
                /\ lv[u[j]] + 1 = lv[n]
    BY NodeRowIs
<1>5. Distinct(u)
    BY KidsDistinct DEF Tree
<1>6. Row(v, u, lo[n], hi[n], lo, hi, C)
    BY HoldsIs DEF NodeRow
<1> HIDE DEF u, v
<1>7. k < Len(v) /\ k + 1 \in Nat
    BY <1>4
<1> DEFINE t == Take(u, k + 1)
           d == Drop(u, k + 1)
           left == Take(v, k)
           right == Drop(v, k + 1)
<1>8. PICK x \in Int :
          /\ Row(left, t, lo[n], x, lo, hi, C)
          /\ v[k + 1] = C[x + 1]
          /\ Row(right, d, x + 1, hi[n], lo, hi, C)
    BY <1>4, <1>6, <1>7, RowCut
<1>9. PICK lo2, hi2 : PartAt(h, lo, hi, n, new, x, lo2, hi2)
    BY NumbersPart
<1>10. Len(left) \in Nat /\ Len(right) \in Nat /\ Len(left) = k
    <2>1. left \in Seq(Values) /\ Len(left) = k
        BY <1>4, <1>7, TakeIs
    <2>2. PICK y \in Nat : y = k + 1 /\ y <= Len(v)
        BY <1>4, <1>7
    <2>3. Drop(v, y) \in Seq(Values)
        BY <1>4, <2>2, DropIs
    <2>4. right \in Seq(Values)
        BY <2>2, <2>3
    <2>5. QED
        BY <2>1, <2>4
<1>11. Halves(u, k + 1, t, d)
    <2>1. Len(u) = 0 \/ k + 1 <= Len(u)
        BY <1>4, <1>7, CountIs DEF Tree
    <2>2. QED
        BY <1>4, <1>5, <1>7, <2>1, HalvesAre
<1> HIDE DEF t, d, left, right
<1>12. ASSUME NEW j \in 1..Len(u)
       PROVE  lo2[u[j]] = lo[u[j]] /\ hi2[u[j]] = hi[u[j]]
    <2>1. u[j] \in DOMAIN h /\ u[j] # n
        BY <1>2, <1>4
    <2>2. QED
        BY <1>9, <2>1 DEF PartAt
<1>13. NodeRow(g, n, lo2, hi2, C)
    <2>1. ASSUME NEW j \in 1..Len(t)
          PROVE  lo2[t[j]] = lo[t[j]] /\ hi2[t[j]] = hi[t[j]]
        <3>1. j \in 1..Len(u) /\ t[j] = u[j]
            BY <1>11 DEF Halves
        <3>2. QED
            BY <1>12, <3>1
    <2>2. Len(t) \in Nat
        BY <1>11 DEF Halves
    <2>3. Row(left, t, lo[n], x, lo2, hi2, C)
        BY <1>8, <1>10, <2>1, <2>2, RowSame
    <2>4. lo2[n] = lo[n] /\ hi2[n] = x
        BY <1>9 DEF PartAt
    <2>5. g[n].values = left /\ g[n].children = t
        BY DEF SplitOff, left, t, u, v
    <2>6. QED
        BY <2>3, <2>4, <2>5 DEF NodeRow
<1>14. NodeRow(g, new, lo2, hi2, C)
    <2>1. ASSUME NEW j \in 1..Len(d)
          PROVE  lo2[d[j]] = lo[d[j]] /\ hi2[d[j]] = hi[d[j]]
        <3>1. j + (k + 1) \in 1..Len(u) /\ d[j] = u[j + (k + 1)]
            BY <1>11 DEF Halves
        <3>2. QED
            BY <1>12, <3>1
    <2>2. Len(d) \in Nat
        BY <1>11 DEF Halves
    <2>3. Row(right, d, x + 1, hi[n], lo2, hi2, C)
        BY <1>8, <1>10, <2>1, <2>2, RowSame
    <2>4. lo2[new] = x + 1 /\ hi2[new] = hi[n]
        BY <1>9 DEF PartAt
    <2>5. g[new].values = right /\ g[new].children = d
        BY DEF SplitOff, right, d, u, v
    <2>6. QED
        BY <2>3, <2>4, <2>5 DEF NodeRow
<1>15. NodeRow(g, p, lo2, hi2, C)
    <2> DEFINE vp == h[p].values
               up == h[p].children
               e == v[k + 1]
    <2>1. /\ vp \in Seq(Values) /\ up \in Seq(Nat) /\ Len(vp) \in Nat
          /\ Len(up) = Len(vp) + 1 /\ Len(vp) = Count(h, p)
        <3>1. /\ vp \in Seq(Values) /\ up \in Seq(Nat)
              /\ Len(vp) = Count(h, p) /\ Count(h, p) \in Nat
            BY NodeRowIs
        <3>2. Len(up) = Count(h, p) + 1
            BY <1>2, NodeRowIs
        <3>3. QED
            BY <3>1, <3>2
    <2>2. PICK i \in Nat : i = h[n].position + 1 /\ i \in 1..Len(up)
        BY <1>2, <2>1
    <2>3. up[i] = n
        BY <1>2, <2>2
    <2>4. g[p].values = InsertAt(vp, i, e) /\ g[p].children = InsertAt(up, i + 1, new)
        BY <1>1, <2>2 DEF SplitOff, v
    <2>5. Row(vp, up, lo[p], hi[p], lo, hi, C)
        BY HoldsIs DEF NodeRow
    <2>6. \A j \in 1..Len(up) : up[j] \in DOMAIN h /\ h[up[j]].position = j - 1
        BY NodeRowIs
    <2>7. e \in Values
        BY <1>4, <1>7
    <2> HIDE DEF vp, up, e
    <2>8. HasOneMore(vp, i, e, InsertAt(vp, i, e))
        BY <2>1, <2>2, <2>7, InsertAtGives
    <2>9. HasOneMore(up, i + 1, new, InsertAt(up, i + 1, new))
        <3>1. PICK y \in Nat : y = i + 1 /\ y \in 1..(Len(up) + 1)
            BY <2>1, <2>2
        <3>2. HasOneMore(up, y, new, InsertAt(up, y, new))
            BY <2>1, <3>1, InsertAtGives
        <3>3. QED
            BY <3>1, <3>2
    <2>10. ASSUME NEW j \in 1..Len(up)
           PROVE  lo2[up[j]] = lo[up[j]] /\ (j # i => hi2[up[j]] = hi[up[j]])
        <3>1. up[j] \in DOMAIN h /\ h[up[j]].position = j - 1
            BY <2>6
        <3>2. j # i => up[j] # n
            <4>1. j \in Int /\ i \in Int
                BY <2>1
            <4>2. QED
                BY <2>2, <3>1, <4>1
        <3>3. QED
            BY <1>9, <3>1, <3>2 DEF PartAt
    <2>11. /\ e = C[x + 1] /\ lo2[new] = x + 1
           /\ hi2[new] = hi[up[i]] /\ hi2[up[i]] = x
        BY <1>8, <1>9, <2>3 DEF PartAt, e
    <2>12. RowParts(vp, up, InsertAt(vp, i, e), InsertAt(up, i + 1, new), i, new, e,
                    x, lo, hi, lo2, hi2, C)
        BY <2>1, <2>2, <2>8, <2>9, <2>10, <2>11 DEF RowParts
    <2>13. Row(InsertAt(vp, i, e), InsertAt(up, i + 1, new), lo[p], hi[p],
               lo2, hi2, C)
        BY <2>5, <2>12, RowSplit
    <2>14. lo2[p] = lo[p] /\ hi2[p] = hi[p]
        BY <1>3, <1>9 DEF PartAt
    <2>15. QED
        BY <2>4, <2>13, <2>14 DEF NodeRow
<1>16. ASSUME NEW m \in DOMAIN h, m # n, m # p
       PROVE  NodeRow(g, m, lo2, hi2, C)
    <2>1. g[m].values = h[m].values /\ g[m].children = h[m].children
        BY <1>1, <1>16 DEF SplitOff
    <2>2. NodeRow(h, m, lo, hi, C)
        BY HoldsIs
    <2>3. lo2[m] = lo[m] /\ hi2[m] = hi[m]
        BY <1>9, <1>16 DEF PartAt
    <2>4. \A y \in DOMAIN h : h[y].parent = m /\ y # top =>
              lo2[y] = lo[y] /\ hi2[y] = hi[y]
        BY <1>1, <1>9, <1>16 DEF PartAt
    <2>5. QED
        BY <2>1, <2>2, <2>3, <2>4, NodeRowKept
<1>17. Holds(g, top, lo2, hi2, C)
    <2>1. \A m \in DOMAIN g : NodeRow(g, m, lo2, hi2, C)
        BY <1>13, <1>14, <1>15, <1>16
    <2>2. C \in Seq(Values) /\ lo[top] = 0 /\ hi[top] = Len(C)
        BY DEF Holds
    <2>3. lo2[top] = 0 /\ hi2[top] = Len(C)
        BY <1>3, <1>9, <2>2 DEF PartAt
    <2>4. QED
        BY <2>1, <2>2, <2>3, HoldsIs
<1>18. h[n].leaf => x = lo[n] + k
    <2>1. SUFFICES ASSUME h[n].leaf PROVE x = lo[n] + k
        OBVIOUS
    <2>2. Len(t) = 0
        BY <1>4, <1>11, <2>1 DEF Halves
    <2>3. x = lo[n] + Len(left)
        BY <1>8, <2>2 DEF Row
    <2>4. QED
        BY <1>10, <2>3
<1>19. QED
    BY <1>9, <1>17, <1>18

\* A node takes in its right sibling.
LEMMA MergeHolds ==
    ASSUME NEW h, NEW top, NEW lv, NEW S, Tree(h, top, lv, S),
           NEW lo, NEW hi, NEW C, Holds(h, top, lo, hi, C),
           NEW n \in DOMAIN h, n # top, HasRight(h, n), NEW r, r = Right(h, n),
           NEW g, Tree(g, top, lv, S), DOMAIN g = DOMAIN h \ {r},
           TakenIn(h, g, n, r, ValuesOfBoth(h, n, r), Both(h, n, r)),
           NEW hi2, hi2 = [m \in DOMAIN h |-> IF m = n THEN hi[r] ELSE hi[m]]
    PROVE  Holds(g, top, lo, hi2, C)
<1> DEFINE v == ValuesOfBoth(h, n, r)
           u == Both(h, n, r)
<1>1. PICK p \in DOMAIN h, i \in Nat :
          SideBySide(h, top, lv, S, n, r, p, i, lo, hi, C)
    BY SiblingsHold
<1>2. /\ v \in Seq(Values) /\ u \in Seq(Nat)
      /\ Row(v, u, lo[n], hi[r], lo, hi, C)
    BY <1>1, SiblingsJoined
<1>3. /\ r \in DOMAIN h /\ r # top /\ r # n /\ p # n /\ p # r /\ ~h[p].leaf
      /\ p = h[n].parent /\ p = h[r].parent
      /\ i = h[n].position + 1 /\ i \in 1..Len(h[p].values)
      /\ h[p].values \in Seq(Values)
      /\ Len(h[p].children) = Len(h[p].values) + 1
      /\ h[p].children[i] = n /\ h[p].children[i + 1] = r
      /\ NodeRow(h, p, lo, hi, C)
      /\ Gathered(h, top, lv, S, n, r, u) /\ lv[r] = lv[n]
    BY <1>1 DEF SideBySide
<1>4. g[n].values = v /\ g[n].children = u
    BY DEF TakenIn
<1> HIDE DEF u, v
<1>5. /\ hi2[n] = hi[r] /\ \A m \in DOMAIN h : m # n => hi2[m] = hi[m]
    OBVIOUS
<1>6. NodeRow(g, n, lo, hi2, C)
    <2>1. ASSUME NEW j \in 1..Len(u)
          PROVE  lo[u[j]] = lo[u[j]] /\ hi2[u[j]] = hi[u[j]]
        <3>1. u[j] \in DOMAIN h /\ lv[u[j]] + 1 = lv[n]
            BY <1>3 DEF Gathered
        <3>2. lv[n] \in Nat
            BY DEF Tree, Sized
        <3>3. u[j] # n
            BY <3>1, <3>2
        <3>4. QED
            BY <1>5, <3>1, <3>3
    <2>2. Len(u) \in Nat /\ Len(v) \in Nat
        BY <1>2
    <2>3. Row(v, u, lo[n], hi[r], lo, hi2, C)
        BY <1>2, <2>1, <2>2, RowSame
    <2>4. QED
        BY <1>4, <1>5, <2>3 DEF NodeRow
<1>7. NodeRow(g, p, lo, hi2, C)
    <2> DEFINE vp == h[p].values
               up == h[p].children
    <2>1. /\ vp \in Seq(Values) /\ up \in Seq(Nat) /\ Len(vp) \in Nat
          /\ Len(up) = Len(vp) + 1 /\ i \in 1..Len(vp)
        BY <1>3, NodeRowIs
    <2>2. up[i] = n /\ up[i + 1] = r
        BY <1>3
    <2>3. g[p].values = RemoveAt(vp, i) /\ g[p].children = RemoveAt(up, i + 1)
        BY <1>3 DEF TakenIn
    <2>4. Row(vp, up, lo[p], hi[p], lo, hi, C)
        BY <1>3 DEF NodeRow
    <2>5. \A j \in 1..Len(up) : up[j] \in DOMAIN h /\ h[up[j]].position = j - 1
        BY NodeRowIs
    <2> HIDE DEF vp, up
    <2>6. HasOneLess(vp, i, RemoveAt(vp, i))
        BY <2>1, RemoveAtGives
    <2>7. HasOneLess(up, i + 1, RemoveAt(up, i + 1))
        <3>1. PICK y \in Nat : y = i + 1 /\ y \in 1..Len(up)
            BY <2>1
        <3>2. HasOneLess(up, y, RemoveAt(up, y))
            BY <2>1, <3>1, RemoveAtGives
        <3>3. QED
            BY <3>1, <3>2
    <2>8. ASSUME NEW j \in 1..Len(up), j # i + 1
          PROVE  lo[up[j]] = lo[up[j]] /\ (j # i => hi2[up[j]] = hi[up[j]])
        <3>1. up[j] \in DOMAIN h /\ h[up[j]].position = j - 1
            BY <2>5
        <3>2. j # i => up[j] # n
            <4>1. j \in Int /\ i \in Int
                BY <2>1
            <4>2. QED
                BY <1>3, <3>1, <4>1
        <3>3. QED
            BY <1>5, <3>1, <3>2
    <2>9. hi2[up[i]] = hi[up[i + 1]]
        BY <1>5, <2>2
    <2>10. RowJoins(vp, up, RemoveAt(vp, i), RemoveAt(up, i + 1), i, lo, hi, lo, hi2)
        BY <2>1, <2>6, <2>7, <2>8, <2>9 DEF RowJoins
    <2>11. Row(RemoveAt(vp, i), RemoveAt(up, i + 1), lo[p], hi[p], lo, hi2, C)
        BY <2>4, <2>10, RowMerged
    <2>12. hi2[p] = hi[p]
        BY <1>3, <1>5
    <2>13. QED
        BY <2>3, <2>11, <2>12 DEF NodeRow
<1>8. ASSUME NEW m \in DOMAIN h, m # n, m # p, m # r
      PROVE  NodeRow(g, m, lo, hi2, C)
    <2>1. g[m].values = h[m].values /\ g[m].children = h[m].children
        BY <1>3, <1>8 DEF TakenIn
    <2>2. NodeRow(h, m, lo, hi, C)
        BY HoldsIs
    <2>3. lo[m] = lo[m] /\ hi2[m] = hi[m]
        BY <1>5, <1>8
    <2>4. \A y \in DOMAIN h : h[y].parent = m /\ y # top =>
              lo[y] = lo[y] /\ hi2[y] = hi[y]
        BY <1>3, <1>5, <1>8
    <2>5. QED
        BY <2>1, <2>2, <2>3, <2>4, NodeRowKept
<1>9. Holds(g, top, lo, hi2, C)
    <2>1. \A m \in DOMAIN g : NodeRow(g, m, lo, hi2, C)
        BY <1>6, <1>7, <1>8
    <2>2. C \in Seq(Values) /\ lo[top] = 0 /\ hi[top] = Len(C) /\ top \in DOMAIN h
        BY DEF Holds, Tree
    <2>3. hi2[top] = Len(C)
        BY <1>5, <2>2
    <2>4. QED
        BY <2>1, <2>2, <2>3, HoldsIs
<1>10. QED
    BY <1>9

(***************************************************************************)
(* The number of a place of a value                                        *)
(***************************************************************************)

\* How many values come before the place s.
Number(h, lo, hi, s) ==
    IF h[s.node].leaf THEN lo[s.node] + s.position
    ELSE hi[Child(h, s.node, s.position)]

\* The numbers of all places of values.
Numbers(h, lo, hi) == [s \in Places(h) |-> Number(h, lo, hi, s)]

\* The sequence q has the places with the numbers from a on to that before b.
Stretch(q, a, b, nr) ==
    /\ a \in Int /\ b \in Int
    /\ q \in Seq(DOMAIN nr) /\ Len(q) = b - a
    /\ \A j \in 1..Len(q) : nr[q[j]] = a + (j - 1)

\* A stretch of none, and one of one place.
LEMMA ShortStretches ==
    ASSUME NEW nr, NEW a \in Int
    PROVE  /\ Stretch(<<>>, a, a, nr)
           /\ \A s \in DOMAIN nr : nr[s] = a => Stretch(<<s>>, a, a + 1, nr)
<1>1. Stretch(<<>>, a, a, nr)
    BY DEF Stretch
<1>2. ASSUME NEW s \in DOMAIN nr, nr[s] = a
      PROVE  Stretch(<<s>>, a, a + 1, nr)
    <2>1. <<s>> \in Seq(DOMAIN nr) /\ Len(<<s>>) = 1 /\ <<s>>[1] = s
        OBVIOUS
    <2>2. \A j \in 1..1 : j = 1 /\ a + (j - 1) = a
        OBVIOUS
    <2>3. QED
        BY <1>2, <2>1, <2>2 DEF Stretch
<1>3. QED
    BY <1>1, <1>2

\* One stretch after the other.
LEMMA StretchConcat ==
    ASSUME NEW nr, NEW q, NEW t, NEW a, NEW b, NEW c,
           Stretch(q, a, b, nr), Stretch(t, b, c, nr), NEW u, u = q \o t
    PROVE  Stretch(u, a, c, nr)
<1> DEFINE P == DOMAIN nr
<1>1. /\ q \in Seq(P) /\ t \in Seq(P) /\ a \in Int /\ b \in Int /\ c \in Int
      /\ Len(q) = b - a /\ Len(t) = c - b
      /\ \A j \in 1..Len(q) : nr[q[j]] = a + (j - 1)
      /\ \A j \in 1..Len(t) : nr[t[j]] = b + (j - 1)
    BY DEF Stretch
<1> HIDE DEF P
<1>2. /\ u \in Seq(P) /\ Len(u) = Len(q) + Len(t)
      /\ \A j \in 1..Len(q) : u[j] = q[j]
      /\ \A j \in (Len(q) + 1)..(Len(q) + Len(t)) : u[j] = t[j - Len(q)]
    <2>1. q \in Seq(P) /\ t \in Seq(P)
        BY <1>1
    <2>2. u \in Seq(P) /\ Len(u) = Len(q) + Len(t)
        BY <2>1
    <2>3. \A j \in 1..Len(q) : u[j] = q[j]
        BY <2>1
    <2>4. \A j \in (Len(q) + 1)..(Len(q) + Len(t)) : u[j] = t[j - Len(q)]
        BY <2>1
    <2>5. QED
        BY <2>2, <2>3, <2>4
<1>3. ASSUME NEW j \in 1..Len(u) PROVE nr[u[j]] = a + (j - 1)
    <2>1. Len(q) \in Nat /\ Len(t) \in Nat
        BY <1>1
    <2>2. CASE j <= Len(q)
        BY <1>1, <1>2, <2>1, <2>2
    <2>3. CASE j > Len(q)
        <3>1. j - Len(q) \in 1..Len(t) /\ j \in (Len(q) + 1)..(Len(q) + Len(t))
            BY <1>2, <2>1, <2>3
        <3>2. u[j] = t[j - Len(q)] /\ nr[t[j - Len(q)]] = b + ((j - Len(q)) - 1)
            BY <1>1, <1>2, <3>1
        <3>3. b + ((j - Len(q)) - 1) = a + (j - 1)
            BY <1>1, <2>1
        <3>4. QED
            BY <3>2, <3>3
    <2>4. QED
        BY <1>2, <2>1, <2>2, <2>3
<1>4. Len(u) = c - a
    BY <1>1, <1>2
<1>5. QED
    BY <1>1, <1>2, <1>3, <1>4 DEF Stretch, P

\* A row of stretches, each from where the one before it ends.
LEMMA StretchRow ==
    ASSUME NEW nr, NEW L \in Nat, NEW base, NEW piece, NEW a, NEW c,
           Stretch(base, a, c[0], nr),
           \A i \in 1..L : Stretch(piece[i], c[i - 1], c[i], nr)
    PROVE  Stretch(TheRow(L, base, piece)[L], a, c[L], nr)
<1> DEFINE s == TheRow(L, base, piece)
<1>1. IsRow(s, L, base, piece)
    <2>1. base \in Seq(DOMAIN nr) /\ \A i \in 1..L : piece[i] \in Seq(DOMAIN nr)
        BY DEF Stretch
    <2>2. QED
        BY <2>1, RowIs
<1> HIDE DEF s
<1>2. /\ s[0] = base
      /\ \A i \in 1..L : Joined(s[i - 1], piece[i], s[i])
    BY <1>1, RowValue
<1> DEFINE P == {i \in 0..L : Stretch(s[i], a, c[i], nr)}
<1>3. ASSUME NEW i \in 0..L,
             \A e \in 0..L : ByNumber(L)[e] < ByNumber(L)[i] => e \in P
      PROVE  i \in P
    <2>1. CASE i = 0
        BY <1>2, <2>1
    <2>2. CASE i # 0
        <3>1. PICK e \in 0..L : e = i - 1
            BY <2>2
        <3>2. i \in 1..L
            BY <2>2
        <3>3. e \in P
            <4>1. ByNumber(L)[e] < ByNumber(L)[i]
                BY <3>1 DEF ByNumber
            <4>2. QED
                BY <1>3, <4>1
        <3>4. s[i] = s[e] \o piece[i]
            BY <1>2, <3>1, <3>2 DEF Joined
        <3>5. Stretch(s[e], a, c[e], nr) /\ Stretch(piece[i], c[e], c[i], nr)
            BY <3>1, <3>2, <3>3
        <3>6. Stretch(s[i], a, c[i], nr)
            BY <3>4, <3>5, StretchConcat
        <3>7. QED
            BY <3>6
    <2>3. QED
        BY <2>1, <2>2
<1> HIDE DEF P
<1>4. 0..L \subseteq P
    <2> DEFINE I == 0..L
    <2>1. Ranked(ByNumber(L), I, L + 1)
        BY NumbersRank
    <2>2. ASSUME NEW i \in I,
                 \A e \in I : ByNumber(L)[e] < ByNumber(L)[i] => e \in P
          PROVE  i \in P
        BY <1>3, <2>2
    <2> HIDE DEF I
    <2>3. I \subseteq P
        BY <2>1, <2>2, RankInduction
    <2>4. QED
        BY <2>3 DEF I
<1>5. Stretch(s[L], a, c[L], nr)
    <2>1. L \in 0..L
        OBVIOUS
    <2>2. QED
        BY <1>4, <2>1 DEF P
<1>6. QED
    BY <1>5 DEF s

\* The places below a node, in order, have the numbers of its range.
LEMMA SlotsStretch ==
    ASSUME NEW h, NEW top, NEW lv, NEW S, Tree(h, top, lv, S),
           NEW lo, NEW hi, NEW C, Holds(h, top, lo, hi, C),
           NEW nr, nr = Numbers(h, lo, hi)
    PROVE  Stretch(Slots(h, top), lo[top], hi[top], nr)
<1>1. PICK anc : Ancestry(h, top, anc)
    BY AncestryIs
<1> DEFINE f == CHOOSE g : IsSlots(h, g)
           D == DOMAIN h
           rank == UpRank(h, lv)
<1>2. IsSlots(h, f)
    BY SlotsExist
<1> HIDE DEF f
<1>3. \A m \in D : f[m] = SlotsOf(h, m, f)
    BY <1>2 DEF IsSlots
<1>4. \A m \in D : Count(h, m) \in Nat /\ InOrder(h, m, lo, hi, C)
    BY CountIs DEF Tree, Holds
<1> DEFINE P == {m \in D : Stretch(f[m], lo[m], hi[m], nr)}
<1>5. ASSUME NEW m \in D, \A e \in D : rank[e] < rank[m] => e \in P
      PROVE  m \in P
    <2>1. PICK N \in Nat : N = Count(h, m)
        BY <1>4
    <2> DEFINE base == KidSlots(h, m, f)[0]
               piece == SlotPieces(h, m, f)
               c == [i \in 0..N |-> IF h[m].leaf THEN lo[m] + i ELSE hi[Child(h, m, i)]]
               b == [i \in 0..N |-> IF h[m].leaf THEN lo[m] + i ELSE lo[Child(h, m, i)]]
    <2>2. /\ lo[m] \in Int /\ hi[m] \in Int
          /\ h[m].leaf => hi[m] = lo[m] + N
          /\ ~h[m].leaf =>
                /\ lo[Child(h, m, 0)] = lo[m] /\ hi[Child(h, m, N)] = hi[m]
                /\ \A i \in 1..N : lo[Child(h, m, i)] = hi[Child(h, m, i - 1)] + 1
        BY <1>4, <2>1 DEF InOrder
    <2>3. ASSUME NEW i \in 0..N
          PROVE  Stretch(KidOf(h, m, f, i), b[i], c[i], nr)
        <3>1. CASE h[m].leaf
            <4>1. b[i] = lo[m] + i /\ c[i] = lo[m] + i
                BY <3>1
            <4>2. lo[m] + i \in Int
                BY <2>2
            <4> HIDE DEF b, c
            <4>3. KidOf(h, m, f, i) = <<>>
                BY <3>1 DEF KidOf
            <4>4. PICK y \in Int : y = lo[m] + i
                BY <4>2
            <4>5. Stretch(<<>>, y, y, nr)
                BY ShortStretches
            <4>6. QED
                BY <4>1, <4>3, <4>4, <4>5
        <3>2. CASE ~h[m].leaf
            <4>1. Child(h, m, i) \in D /\ rank[Child(h, m, i)] < rank[m]
                BY <1>1, <2>1, <3>2, KidsBelow
            <4>2. Child(h, m, i) \in P
                BY <1>5, <4>1
            <4>3. QED
                BY <3>2, <4>2 DEF KidOf
        <3>3. QED
            BY <3>1, <3>2
    <2>4. b[0] = lo[m] /\ c[N] = hi[m]
        BY <2>1, <2>2
    <2>5. ASSUME NEW i \in 1..N
          PROVE  /\ Slot(m, i - 1) \in Places(h)
                 /\ nr[Slot(m, i - 1)] = c[i - 1] /\ b[i] = c[i - 1] + 1
                 /\ c[i - 1] \in Int
        <3>1. PICK j \in Nat : j = i - 1 /\ j < N /\ j \in 0..N
            BY <2>1
        <3>2. Slot(m, j) \in Places(h)
            BY <2>1, <3>1, PlacesAre
        <3>3. nr[Slot(m, j)] = Number(h, lo, hi, Slot(m, j))
            BY <3>2 DEF Numbers
        <3>4. Number(h, lo, hi, Slot(m, j)) = c[j]
            BY <3>1, SlotIs DEF Number
        <3>5. b[i] = c[j] + 1
            <4>1. CASE h[m].leaf
                <5>1. lo[m] + i = (lo[m] + j) + 1
                    BY <2>2, <3>1
                <5>2. i \in 0..N
                    OBVIOUS
                <5>3. b[i] = lo[m] + i /\ c[j] = lo[m] + j
                    BY <3>1, <4>1, <5>2
                <5>4. QED
                    BY <5>1, <5>3
            <4>2. CASE ~h[m].leaf
                <5>1. i \in 0..N
                    OBVIOUS
                <5>2. b[i] = lo[Child(h, m, i)] /\ c[j] = hi[Child(h, m, j)]
                    BY <3>1, <4>2, <5>1
                <5>3. QED
                    BY <2>2, <3>1, <4>2, <5>2
            <4>3. QED
                BY <4>1, <4>2
        <3>6. c[j] \in Int
            <4>1. Stretch(KidOf(h, m, f, j), b[j], c[j], nr)
                BY <2>3, <3>1
            <4>2. QED
                BY <4>1 DEF Stretch
        <3> HIDE DEF b, c
        <3>7. QED
            BY <3>1, <3>2, <3>3, <3>4, <3>5, <3>6
    <2> HIDE DEF b, c
    <2>6. Stretch(base, lo[m], c[0], nr)
        <3>1. 0 \in 0..N /\ base = KidOf(h, m, f, 0)
            BY <2>1, KidSlotsAre
        <3>2. QED
            BY <2>3, <2>4, <3>1
    <2>7. ASSUME NEW i \in 1..N PROVE Stretch(piece[i], c[i - 1], c[i], nr)
        <3>1. PICK s \in Places(h), x \in Int :
                  s = Slot(m, i - 1) /\ x = c[i - 1] /\ nr[s] = x /\ b[i] = x + 1
            BY <2>5
        <3>2. piece[i] = <<s>> \o KidOf(h, m, f, i)
            <4>1. piece[i] = <<Slot(m, i - 1)>> \o KidOf(h, m, f, i)
                BY <2>1, KidSlotsAre
            <4>2. QED
                BY <3>1, <4>1
        <3>3. Stretch(<<s>>, x, x + 1, nr)
            <4>1. s \in DOMAIN nr
                BY <3>1 DEF Numbers
            <4>2. QED
                BY <3>1, <4>1, ShortStretches
        <3>4. Stretch(KidOf(h, m, f, i), x + 1, c[i], nr)
            BY <2>3, <3>1
        <3>5. Stretch(piece[i], x, c[i], nr)
            BY <3>2, <3>3, <3>4, StretchConcat
        <3>6. QED
            BY <3>1, <3>5
    <2> HIDE DEF base, piece
    <2>8. Stretch(TheRow(N, base, piece)[N], lo[m], c[N], nr)
        BY <2>1, <2>6, <2>7, StretchRow
    <2>9. Stretch(f[m], lo[m], hi[m], nr)
        BY <1>3, <2>1, <2>4, <2>8 DEF SlotsOf, base, piece
    <2>10. QED
        BY <2>9
<1>6. Ranked(rank, D, lv[top] + 1)
    BY LevelsRank
<1> HIDE DEF P, rank, D
<1>7. D \subseteq P
    BY <1>5, <1>6, RankInduction
<1>8. top \in D /\ top # NoNode
    BY NodeIs DEF D, Tree
<1>9. Stretch(f[top], lo[top], hi[top], nr)
    BY <1>7, <1>8 DEF P
<1>10. Slots(h, top) = f[top]
    BY <1>4, <1>8, SlotsIsWalk DEF f, D
<1>11. QED
    BY <1>9, <1>10

\* A place of a value on its node.
LEMMA PlaceOnNode ==
    ASSUME NEW h, NEW s \in Places(h)
    PROVE  /\ s.node \in DOMAIN h /\ s.position \in Nat
           /\ s.position < Count(h, s.node) /\ s = Slot(s.node, s.position)
<1>1. s = Slot(s.node, s.position)
    BY PlacesAre
<1>2. Slot(s.node, s.position) \in Places(h)
    BY <1>1
<1>3. s.node \in DOMAIN h /\ s.position \in Nat /\ s.position < Count(h, s.node)
    BY <1>2, PlacesAre
<1>4. QED
    BY <1>1, <1>3

\* The value at a place is the one with its number.
LEMMA ValueOfNumber ==
    ASSUME NEW h, NEW top, NEW lv, NEW S, Tree(h, top, lv, S),
           NEW lo, NEW hi, NEW C, Holds(h, top, lo, hi, C), NEW s \in Places(h)
    PROVE  /\ Number(h, lo, hi, s) \in Int
           /\ ValueAt(h, s) = C[Number(h, lo, hi, s) + 1]
<1>1. PICK m \in DOMAIN h, j \in Nat : m = s.node /\ j = s.position /\ j < Count(h, m)
    BY PlaceOnNode
<1>2. Count(h, m) \in Nat
    BY CountIs DEF Tree
<1>3. PICK i \in 1..Count(h, m) : i = j + 1 /\ i - 1 = j
    BY <1>1, <1>2
<1>4. ValueAt(h, s) = h[m].values[i]
    BY <1>1, <1>3 DEF ValueAt
<1>5. InOrder(h, m, lo, hi, C)
    BY DEF Holds
<1>6. CASE h[m].leaf
    <2>1. h[m].values[i] = C[lo[m] + i] /\ lo[m] \in Int
        BY <1>5, <1>6 DEF InOrder
    <2>2. Number(h, lo, hi, s) = lo[m] + j
        BY <1>1, <1>6 DEF Number
    <2>3. lo[m] + i = (lo[m] + j) + 1 /\ lo[m] + j \in Int
        BY <1>3, <2>1
    <2>4. QED
        BY <1>4, <2>1, <2>2, <2>3
<1>7. CASE ~h[m].leaf
    <2>1. /\ lo[Child(h, m, i)] = hi[Child(h, m, i - 1)] + 1
          /\ h[m].values[i] = C[lo[Child(h, m, i)]]
        BY <1>5, <1>7 DEF InOrder
    <2>2. Number(h, lo, hi, s) = hi[Child(h, m, j)]
        BY <1>1, <1>7 DEF Number
    <2>3. Child(h, m, j) \in DOMAIN h
        <3>1. j \in 0..Count(h, m)
            BY <1>1, <1>2
        <3>2. QED
            BY <1>7, <3>1, ChildIs
    <2>4. hi[Child(h, m, j)] \in Int
        BY <2>3 DEF Holds, InOrder
    <2>5. QED
        BY <1>3, <1>4, <2>1, <2>2, <2>4
<1>8. QED
    BY <1>6, <1>7

\* The walk finds the places by their numbers, and each place has one.
LEMMA PlacesInOrder ==
    ASSUME NEW h, NEW top, NEW lv, NEW S, Tree(h, top, lv, S),
           NEW lo, NEW hi, NEW C, Holds(h, top, lo, hi, C),
           NEW slots, slots = Slots(h, top)
    PROVE  /\ slots \in Seq(Places(h)) /\ Len(slots) = Len(C)
           /\ \A j \in 1..Len(C) :
                 slots[j] \in Places(h) /\ Number(h, lo, hi, slots[j]) = j - 1
           /\ \A s \in Places(h) :
                 /\ Number(h, lo, hi, s) \in 0..(Len(C) - 1)
                 /\ slots[Number(h, lo, hi, s) + 1] = s
<1> DEFINE nr == Numbers(h, lo, hi)
<1>1. Stretch(slots, lo[top], hi[top], nr)
    BY SlotsStretch
<1>2. lo[top] = 0 /\ hi[top] = Len(C) /\ Len(C) \in Nat
    BY DEF Holds
<1>3. \A s \in Places(h) : nr[s] = Number(h, lo, hi, s)
    BY DEF Numbers
<1>4. DOMAIN nr = Places(h)
    BY DEF Numbers
<1> HIDE DEF nr
<1>5. /\ slots \in Seq(Places(h)) /\ Len(slots) = Len(C) - 0
      /\ \A j \in 1..Len(slots) : nr[slots[j]] = 0 + (j - 1)
    BY <1>1, <1>2, <1>4 DEF Stretch
<1>6. Len(slots) = Len(C)
    BY <1>2, <1>5
<1>7. ASSUME NEW j \in 1..Len(C)
      PROVE  slots[j] \in Places(h) /\ Number(h, lo, hi, slots[j]) = j - 1
    <2>1. slots[j] \in Places(h) /\ nr[slots[j]] = j - 1
        BY <1>5, <1>6
    <2>2. QED
        BY <1>3, <2>1
<1>8. ASSUME NEW s \in Places(h)
      PROVE  /\ Number(h, lo, hi, s) \in 0..(Len(C) - 1)
             /\ slots[Number(h, lo, hi, s) + 1] = s
    <2>1. PICK j \in 1..Len(slots) : slots[j] = s
        BY SlotsAre DEF Enum
    <2>2. Number(h, lo, hi, s) = j - 1
        BY <1>6, <1>7, <2>1
    <2>3. j - 1 \in 0..(Len(C) - 1) /\ (j - 1) + 1 = j
        BY <1>2, <1>6
    <2>4. QED
        BY <2>1, <2>2, <2>3
<1>9. QED
    BY <1>5, <1>6, <1>7, <1>8

\* Two places with the same number are the same.
LEMMA NumberNames ==
    ASSUME NEW h, NEW top, NEW lv, NEW S, Tree(h, top, lv, S),
           NEW lo, NEW hi, NEW C, Holds(h, top, lo, hi, C),
           NEW s \in Places(h), NEW t \in Places(h),
           Number(h, lo, hi, s) = Number(h, lo, hi, t)
    PROVE  s = t
<1>1. PICK slots : slots = Slots(h, top)
    OBVIOUS
<1>2. \A p \in Places(h) : slots[Number(h, lo, hi, p) + 1] = p
    BY <1>1, PlacesInOrder
<1>3. QED
    BY <1>2

\* The contents of a tree are what it holds.
LEMMA ContentsHeld ==
    ASSUME NEW h, NEW top, NEW lv, NEW S, Tree(h, top, lv, S),
           NEW lo, NEW hi, NEW C, Holds(h, top, lo, hi, C),
           NEW slots, slots = Slots(h, top)
    PROVE  [i \in DOMAIN slots |-> ValueAt(h, slots[i])] = C
<1>1. /\ slots \in Seq(Places(h)) /\ Len(slots) = Len(C)
      /\ \A j \in 1..Len(C) :
            slots[j] \in Places(h) /\ Number(h, lo, hi, slots[j]) = j - 1
    BY PlacesInOrder
<1>2. C \in Seq(Values)
    BY DEF Holds
<1>3. DOMAIN slots = 1..Len(C)
    BY <1>1, <1>2
<1>4. ASSUME NEW j \in 1..Len(C) PROVE ValueAt(h, slots[j]) = C[j]
    <2>1. ValueAt(h, slots[j]) = C[Number(h, lo, hi, slots[j]) + 1]
        BY <1>1, ValueOfNumber
    <2>2. Number(h, lo, hi, slots[j]) + 1 = j
        BY <1>1
    <2>3. QED
        BY <2>1, <2>2
<1>5. C = [i \in 1..Len(C) |-> C[i]]
    BY <1>2
<1>6. QED
    BY <1>3, <1>4, <1>5

(***************************************************************************)
(* Another value: the numbers behind it shift                              *)
(***************************************************************************)

\* Every range is one of numbers of the contents.
LEMMA RangesInside ==
    ASSUME NEW h, NEW top, NEW lv, NEW S, Tree(h, top, lv, S),
           NEW lo, NEW hi, NEW C, Holds(h, top, lo, hi, C)
    PROVE  \A n \in DOMAIN h : 0 <= lo[n] /\ hi[n] <= Len(C)
<1> DEFINE rank == DownRank(h, top, lv)
           P == {n \in DOMAIN h : 0 <= lo[n] /\ hi[n] <= Len(C)}
<1>1. Ranked(rank, DOMAIN h, lv[top] + 1)
    BY LevelsRank
<1>2. lo[top] = 0 /\ hi[top] = Len(C) /\ Len(C) \in Nat
    BY DEF Holds
<1>3. \A n \in DOMAIN h : lo[n] \in Int /\ hi[n] \in Int
    BY RangesAre
<1>4. ASSUME NEW n \in DOMAIN h,
             \A e \in DOMAIN h : rank[e] < rank[n] => e \in P
      PROVE  n \in P
    <2>1. CASE n = top
        BY <1>2, <2>1
    <2>2. CASE n # top
        <3>1. PICK p \in DOMAIN h : p = h[n].parent
            BY <2>2, ParentIs
        <3>2. rank[p] < rank[n]
            BY <2>2, <3>1, LevelsAre
        <3>3. p \in P
            BY <1>4, <3>2
        <3>4. PICK i \in 0..Count(h, p) : Child(h, p, i) = n
            BY <2>2, <3>1, ParentIs
        <3>5. ~h[p].leaf
            BY <2>2, <3>1, ParentIs
        <3>6. lo[p] <= lo[n] /\ hi[n] <= hi[p]
            BY <3>4, <3>5, InsideParent DEF ChildrenInside
        <3>7. QED
            BY <1>2, <1>3, <3>3, <3>6
    <2>3. QED
        BY <2>1, <2>2
<1> HIDE DEF P, rank
<1>5. DOMAIN h \subseteq P
    BY <1>1, <1>4, RankInduction
<1>6. QED
    BY <1>5 DEF P

\* A child behind the first one starts behind a value.
LEMMA KidStarts ==
    ASSUME NEW h, NEW top, NEW lv, NEW S, Tree(h, top, lv, S),
           NEW lo, NEW hi, NEW C, Holds(h, top, lo, hi, C),
           NEW m \in DOMAIN h, ~h[m].leaf, NEW i \in 1..Count(h, m)
    PROVE  /\ lo[Child(h, m, i)] \in 1..Len(C)
           /\ lo[Child(h, m, i)] = hi[Child(h, m, i - 1)] + 1
           /\ Slot(m, i - 1) \in Places(h)
           /\ Number(h, lo, hi, Slot(m, i - 1)) = lo[Child(h, m, i)] - 1
<1>1. Count(h, m) \in Nat /\ Len(C) \in Nat
    BY CountIs DEF Tree, Holds
<1>2. PICK j \in 0..Count(h, m) : j = i - 1 /\ j < Count(h, m)
    BY <1>1
<1>3. i \in 0..Count(h, m)
    BY <1>1
<1>4. Child(h, m, i) \in DOMAIN h /\ Child(h, m, j) \in DOMAIN h
    BY <1>3, ChildIs
<1>5. lo[Child(h, m, i)] = hi[Child(h, m, j)] + 1
    BY <1>2 DEF Holds, InOrder
<1>6. /\ lo[Child(h, m, i)] \in Int /\ hi[Child(h, m, i)] \in Int
      /\ lo[Child(h, m, i)] <= hi[Child(h, m, i)] /\ hi[Child(h, m, i)] <= Len(C)
      /\ lo[Child(h, m, j)] \in Int /\ hi[Child(h, m, j)] \in Int
      /\ lo[Child(h, m, j)] <= hi[Child(h, m, j)] /\ 0 <= lo[Child(h, m, j)]
    BY <1>4, RangesAre, RangesInside
<1>7. lo[Child(h, m, i)] \in 1..Len(C)
    BY <1>1, <1>5, <1>6
<1>8. Slot(m, j) \in Places(h)
    BY <1>1, <1>2, PlacesAre
<1>9. Number(h, lo, hi, Slot(m, j)) = hi[Child(h, m, j)]
    BY SlotIs DEF Number
<1>10. QED
    BY <1>2, <1>5, <1>6, <1>7, <1>8, <1>9

\* The numbers behind x are d more.
Shifted(h, lo, hi, x, d, lo2, hi2) ==
    \A m \in DOMAIN h :
       /\ lo2[m] = IF lo[m] > x THEN lo[m] + d ELSE lo[m]
       /\ hi2[m] = IF hi[m] >= x THEN hi[m] + d ELSE hi[m]

\* There are such numbers.
LEMMA NumbersShift ==
    ASSUME NEW h, NEW lo, NEW hi, NEW x, NEW d
    PROVE  \E lo2, hi2 : Shifted(h, lo, hi, x, d, lo2, hi2)
<1> DEFINE lo2 == [m \in DOMAIN h |-> IF lo[m] > x THEN lo[m] + d ELSE lo[m]]
           hi2 == [m \in DOMAIN h |-> IF hi[m] >= x THEN hi[m] + d ELSE hi[m]]
<1>1. Shifted(h, lo, hi, x, d, lo2, hi2)
    BY DEF Shifted
<1>2. QED
    BY <1>1

\* C2 has the value that C has where a child of m starts.
Follows(h, m, lo, x, d, C, C2) ==
    \A i \in 1..Count(h, m) :
       /\ lo[Child(h, m, i)] <= x => C2[lo[Child(h, m, i)]] = C[lo[Child(h, m, i)]]
       /\ lo[Child(h, m, i)] > x =>
             C2[lo[Child(h, m, i)] + d] = C[lo[Child(h, m, i)]]

\* The same node, as far as order goes.
SameNode(h, g, m) ==
    /\ g[m].leaf = h[m].leaf /\ g[m].values = h[m].values
    /\ g[m].children = h[m].children

\* An internal node in the shifted numbers.
LEMMA InternalShift ==
    ASSUME NEW h, NEW top, NEW lv, NEW S, Tree(h, top, lv, S),
           NEW lo, NEW hi, NEW C, Holds(h, top, lo, hi, C),
           NEW m \in DOMAIN h, ~h[m].leaf, NEW x \in Int, NEW d \in Int,
           NEW lo2, NEW hi2, Shifted(h, lo, hi, x, d, lo2, hi2),
           NEW C2, Follows(h, m, lo, x, d, C, C2), NEW g, SameNode(h, g, m)
    PROVE  InOrder(g, m, lo2, hi2, C2)
<1>1. /\ Count(g, m) = Count(h, m) /\ Count(h, m) \in Nat
      /\ \A i : Child(g, m, i) = Child(h, m, i)
    BY CountIs DEF Tree, SameNode, Count, Child
<1>2. \A i \in 0..Count(h, m) : Child(h, m, i) \in DOMAIN h
    BY ChildIs
<1>3. \A n \in DOMAIN h : lo[n] \in Int /\ hi[n] \in Int
    BY RangesAre
<1>4. \A n \in DOMAIN h :
          /\ lo2[n] = IF lo[n] > x THEN lo[n] + d ELSE lo[n]
          /\ hi2[n] = IF hi[n] >= x THEN hi[n] + d ELSE hi[n]
    BY DEF Shifted
<1>5. lo2[m] \in Int /\ hi2[m] \in Int
    BY <1>3, <1>4
<1>6. InOrder(h, m, lo, hi, C)
    BY DEF Holds
<1>7. lo2[Child(h, m, 0)] = lo2[m] /\ hi2[Child(h, m, Count(h, m))] = hi2[m]
    <2>1. /\ lo[Child(h, m, 0)] = lo[m] /\ Child(h, m, 0) \in DOMAIN h
          /\ hi[Child(h, m, Count(h, m))] = hi[m]
          /\ Child(h, m, Count(h, m)) \in DOMAIN h
        BY <1>1, <1>2, <1>6 DEF InOrder
    <2>2. QED
        BY <1>4, <2>1
<1>8. ASSUME NEW i \in 1..Count(h, m)
      PROVE  /\ lo2[Child(h, m, i)] = hi2[Child(h, m, i - 1)] + 1
             /\ h[m].values[i] = C2[lo2[Child(h, m, i)]]
    <2>1. PICK a \in DOMAIN h, b \in DOMAIN h :
              a = Child(h, m, i) /\ b = Child(h, m, i - 1)
        BY <1>1, <1>2
    <2>2. lo[a] = hi[b] + 1 /\ h[m].values[i] = C[lo[a]]
        BY <1>6, <2>1 DEF InOrder
    <2>3. /\ lo2[a] = IF lo[a] > x THEN lo[a] + d ELSE lo[a]
          /\ hi2[b] = IF hi[b] >= x THEN hi[b] + d ELSE hi[b]
        BY <1>4
    <2>4. lo[a] \in Int /\ hi[b] \in Int
        BY <1>3
    <2>5. lo2[a] = hi2[b] + 1
        BY <2>2, <2>3, <2>4
    <2>6. (lo[a] <= x => C2[lo[a]] = C[lo[a]]) /\ (lo[a] > x => C2[lo[a] + d] = C[lo[a]])
        BY <2>1 DEF Follows
    <2>7. h[m].values[i] = C2[lo2[a]]
        <3>1. CASE lo[a] > x
            <4>1. lo2[a] = lo[a] + d
                BY <2>3, <3>1
            <4>2. C2[lo[a] + d] = C[lo[a]]
                BY <2>6, <3>1
            <4>3. QED
                BY <2>2, <4>1, <4>2
        <3>2. CASE ~(lo[a] > x)
            <4>1. lo2[a] = lo[a] /\ lo[a] <= x
                BY <2>3, <2>4, <3>2
            <4>2. QED
                BY <2>2, <2>6, <4>1
        <3>3. QED
            BY <3>1, <3>2
    <2>8. QED
        BY <2>1, <2>5, <2>7
<1>9. ~g[m].leaf /\ g[m].values = h[m].values
    BY DEF SameNode
<1>10. QED
    BY <1>1, <1>5, <1>7, <1>8, <1>9 DEF InOrder

\* C2 has what C has, d places further on if it is behind x.
FollowsOn(C, C2, x, d, lost) ==
    \A j \in 1..Len(C) :
       /\ j <= x => C2[j] = C[j]
       /\ j > x /\ j # lost => C2[j + d] = C[j]

\* A leaf that is not the one with the number x, in the shifted numbers.
LEMMA LeafShift ==
    ASSUME NEW h, NEW top, NEW lv, NEW S, Tree(h, top, lv, S),
           NEW lo, NEW hi, NEW C, Holds(h, top, lo, hi, C),
           NEW m \in DOMAIN h, h[m].leaf, NEW n \in DOMAIN h, h[n].leaf, m # n,
           NEW x \in Int, lo[n] <= x, x <= hi[n], NEW d \in Int, NEW lost,
           lost \in Int => lost <= x + 1,
           NEW lo2, NEW hi2, Shifted(h, lo, hi, x, d, lo2, hi2),
           NEW C2, FollowsOn(C, C2, x, d, lost), NEW g, SameNode(h, g, m)
    PROVE  InOrder(g, m, lo2, hi2, C2)
<1>1. Count(g, m) = Count(h, m) /\ Count(h, m) \in Nat
    BY CountIs DEF Tree, SameNode, Count
<1>2. /\ lo[m] \in Int /\ hi[m] \in Int /\ hi[m] = lo[m] + Count(h, m)
      /\ \A i \in 1..Count(h, m) : h[m].values[i] = C[lo[m] + i]
    BY DEF Holds, InOrder
<1>3. 0 <= lo[m] /\ hi[m] <= Len(C) /\ Len(C) \in Nat
    BY RangesInside DEF Holds
<1>4. hi[m] < x \/ lo[m] > x
    <2>1. lv[m] = lv[n]
        BY DEF Tree, Sized
    <2>2. ~(lo[m] <= x /\ x <= hi[m])
        BY <2>1, LevelDisjoint
    <2>3. QED
        BY <1>2, <2>2
<1>5. /\ lo2[m] = IF lo[m] > x THEN lo[m] + d ELSE lo[m]
      /\ hi2[m] = IF hi[m] >= x THEN hi[m] + d ELSE hi[m]
    BY DEF Shifted
<1>6. lo2[m] \in Int /\ hi2[m] \in Int /\ hi2[m] = lo2[m] + Count(h, m)
    BY <1>1, <1>2, <1>4, <1>5
<1>7. ASSUME NEW i \in 1..Count(h, m) PROVE h[m].values[i] = C2[lo2[m] + i]
    <2>1. PICK j \in 1..Len(C) : j = lo[m] + i
        BY <1>1, <1>2, <1>3
    <2>2. h[m].values[i] = C[j]
        BY <1>2, <2>1
    <2>3. CASE hi[m] < x
        <3>1. lo2[m] = lo[m] /\ j <= x
            BY <1>1, <1>2, <1>5, <2>1, <2>3
        <3>2. C2[j] = C[j]
            BY <3>1 DEF FollowsOn
        <3>3. QED
            BY <2>1, <2>2, <3>1, <3>2
    <2>4. CASE lo[m] > x
        <3>1. lo2[m] + i = j + d /\ j > x
            <4>1. lo2[m] = lo[m] + d
                BY <1>5, <2>4
            <4>2. i \in Int /\ i >= 1 /\ lo[m] \in Int /\ j = lo[m] + i
                BY <1>1, <1>2, <2>1
            <4>3. QED
                BY <2>4, <4>1, <4>2
        <3>2. j # lost
            BY <1>1, <1>2, <2>1, <2>4
        <3>3. C2[j + d] = C[j]
            BY <3>1, <3>2 DEF FollowsOn
        <3>4. QED
            BY <2>2, <3>1, <3>3
    <2>5. QED
        BY <1>4, <2>3, <2>4
<1>8. g[m].leaf /\ g[m].values = h[m].values
    BY DEF SameNode
<1>9. QED
    BY <1>1, <1>6, <1>7, <1>8 DEF InOrder


\* The number of a place is one of the contents.
LEMMA NumberIn ==
    ASSUME NEW h, NEW top, NEW lv, NEW S, Tree(h, top, lv, S),
           NEW lo, NEW hi, NEW C, Holds(h, top, lo, hi, C), NEW s \in Places(h)
    PROVE  /\ C \in Seq(Values) /\ Len(C) \in Nat
           /\ Number(h, lo, hi, s) \in 0..(Len(C) - 1)
<1>1. PICK slots : slots = Slots(h, top)
    OBVIOUS
<1>2. Number(h, lo, hi, s) \in 0..(Len(C) - 1)
    BY <1>1, PlacesInOrder
<1>3. QED
    BY <1>2 DEF Holds

\* The node n has other values, the tree is the same.
OnlyValues(h, g, n, values) ==
    /\ DOMAIN g = DOMAIN h
    /\ \A m \in DOMAIN h : m # n => SameNode(h, g, m)
    /\ g[n].leaf = h[n].leaf /\ g[n].children = h[n].children
    /\ g[n].values = values

\* A value is inserted into a leaf.
LEMMA InsertHolds ==
    ASSUME NEW h, NEW top, NEW lv, NEW S, Tree(h, top, lv, S),
           NEW lo, NEW hi, NEW C, Holds(h, top, lo, hi, C),
           NEW n \in DOMAIN h, h[n].leaf, NEW i \in 0..Count(h, n),
           NEW v \in Values, NEW x, x = lo[n] + i,
           NEW g, OnlyValues(h, g, n, InsertAt(h[n].values, i + 1, v)),
           NEW lo2, NEW hi2, Shifted(h, lo, hi, x, 1, lo2, hi2)
    PROVE  /\ x \in 0..Len(C) /\ lo2[n] = lo[n]
           /\ Holds(g, top, lo2, hi2, InsertAt(C, x + 1, v))
<1> DEFINE C2 == InsertAt(C, x + 1, v)
           w == InsertAt(h[n].values, i + 1, v)
<1>1. /\ Count(h, n) \in Nat /\ Len(h[n].values) = Count(h, n)
      /\ h[n].values \in Seq(Values)
    BY NodeRowIs
<1>2. /\ lo[n] \in Int /\ hi[n] \in Int /\ hi[n] = lo[n] + Count(h, n)
      /\ \A j \in 1..Count(h, n) : h[n].values[j] = C[lo[n] + j]
    BY DEF Holds, InOrder
<1>3. 0 <= lo[n] /\ hi[n] <= Len(C) /\ Len(C) \in Nat /\ C \in Seq(Values)
    BY RangesInside DEF Holds
<1>4. x \in 0..Len(C) /\ x \in Int /\ lo[n] <= x /\ x <= hi[n]
    BY <1>1, <1>2, <1>3
<1>5. /\ C2 \in Seq(Values) /\ Len(C2) = Len(C) + 1
      /\ \A j \in 1..(Len(C) + 1) :
            C2[j] = IF j < x + 1 THEN C[j] ELSE IF j = x + 1 THEN v ELSE C[j - 1]
    <2>1. PICK y \in 1..(Len(C) + 1) : y = x + 1
        BY <1>3, <1>4
    <2>2. /\ InsertAt(C, y, v) \in Seq(Values)
          /\ Len(InsertAt(C, y, v)) = Len(C) + 1
          /\ \A j \in 1..(Len(C) + 1) : InsertAt(C, y, v)[j] =
                IF j < y THEN C[j] ELSE IF j = y THEN v ELSE C[j - 1]
        BY <1>3, InsertAtIs
    <2>3. QED
        BY <2>1, <2>2
<1>6. /\ w \in Seq(Values) /\ Len(w) = Count(h, n) + 1
      /\ \A j \in 1..(Count(h, n) + 1) :
            w[j] = IF j < i + 1 THEN h[n].values[j]
                   ELSE IF j = i + 1 THEN v ELSE h[n].values[j - 1]
    <2>1. PICK q : q = h[n].values
        OBVIOUS
    <2>2. q \in Seq(Values) /\ Len(q) = Count(h, n) /\ v \in Values
        BY <1>1, <2>1
    <2>3. PICK y \in 1..(Len(q) + 1) : y = i + 1
        BY <1>1, <2>2
    <2>4. /\ InsertAt(q, y, v) \in Seq(Values)
          /\ Len(InsertAt(q, y, v)) = Len(q) + 1
          /\ \A j \in 1..(Len(q) + 1) : InsertAt(q, y, v)[j] =
                IF j < y THEN q[j] ELSE IF j = y THEN v ELSE q[j - 1]
        <3>1. q \in Seq(Values) /\ v \in Values /\ y \in 1..(Len(q) + 1)
            BY <2>2, <2>3
        <3>2. QED
            BY ONLY <3>1, InsertAtIs
    <2>5. w = InsertAt(q, y, v)
        BY <2>1, <2>3
    <2> HIDE DEF w
    <2>6. QED
        BY <2>1, <2>2, <2>3, <2>4, <2>5
<1>7. g[n].values = w
    BY DEF OnlyValues
<1> HIDE DEF C2, w
<1>8. ASSUME NEW j \in 1..Len(C)
      PROVE  (j <= x => C2[j] = C[j]) /\ (j > x => C2[j + 1] = C[j])
    <2>1. j \in 1..(Len(C) + 1) /\ j + 1 \in 1..(Len(C) + 1) /\ (j + 1) - 1 = j
        BY <1>3
    <2>2. CASE j <= x
        <3>1. j < x + 1
            BY <1>4, <2>2
        <3>2. QED
            BY <1>4, <1>5, <2>1, <2>2, <3>1
    <2>3. CASE j > x
        <3>1. ~(j + 1 < x + 1) /\ j + 1 # x + 1
            BY <1>4, <2>3
        <3>2. C2[j + 1] = C[(j + 1) - 1]
            BY <1>5, <2>1, <3>1
        <3>3. QED
            BY <1>4, <2>1, <2>3, <3>2
    <2>4. QED
        BY <1>4, <2>2, <2>3
<1>9. /\ lo2[n] = lo[n] /\ hi2[n] = hi[n] + 1
    BY <1>2, <1>4 DEF Shifted
<1>10. InOrder(g, n, lo2, hi2, C2)
    <2>1. Count(g, n) = Count(h, n) + 1
        BY <1>6, <1>7 DEF Count
    <2>2. ASSUME NEW j \in 1..(Count(h, n) + 1) PROVE w[j] = C2[lo[n] + j]
        <3>1. PICK y \in 1..(Len(C) + 1) : y = lo[n] + j
            BY <1>1, <1>2, <1>3
        <3>2. C2[y] = IF y < x + 1 THEN C[y] ELSE IF y = x + 1 THEN v ELSE C[y - 1]
            BY <1>5
        <3>3. w[j] = IF j < i + 1 THEN h[n].values[j]
                     ELSE IF j = i + 1 THEN v ELSE h[n].values[j - 1]
            BY <1>6
        <3>4. j \in Int /\ i \in Int /\ lo[n] \in Int /\ Count(h, n) \in Nat
              /\ 1 <= j /\ j <= Count(h, n) + 1 /\ 0 <= i /\ i <= Count(h, n)
            BY <1>1, <1>2
        <3>5. CASE j < i + 1
            <4>1. y < x + 1 /\ j \in 1..Count(h, n)
                BY <3>1, <3>4, <3>5, SMTT(30)
            <4>2. h[n].values[j] = C[lo[n] + j]
                BY <1>2, <4>1
            <4>3. QED
                BY <3>1, <3>2, <3>3, <3>5, <4>1, <4>2
        <3>6. CASE j = i + 1
            <4>1. y = x + 1 /\ ~(y < x + 1) /\ ~(j < i + 1)
                BY <3>1, <3>4, <3>6
            <4>2. QED
                BY <3>1, <3>2, <3>3, <3>6, <4>1
        <3>7. CASE j > i + 1
            <4>1. ~(y < x + 1) /\ y # x + 1 /\ ~(j < i + 1) /\ j # i + 1
                BY <1>4, <3>1, <3>4, <3>7, SMTT(30)
            <4>2. PICK e \in 1..Count(h, n) : e = j - 1
                BY <3>4, <3>7
            <4>3. h[n].values[e] = C[lo[n] + e]
                BY <1>2
            <4>4. lo[n] + e = y - 1
                BY ONLY <3>1, <3>4, <4>2, SMTT(30)
            <4>5. C2[lo[n] + j] = C[y - 1]
                BY <3>1, <3>2, <4>1
            <4>6. w[j] = h[n].values[e]
                BY <3>3, <4>1, <4>2
            <4>7. QED
                BY <4>3, <4>4, <4>5, <4>6
        <3>8. QED
            BY <3>4, <3>5, <3>6, <3>7
    <2>3. hi2[n] = lo2[n] + (Count(h, n) + 1) /\ lo2[n] \in Int /\ hi2[n] \in Int
        BY <1>1, <1>2, <1>9
    <2>4. g[n].leaf
        BY DEF OnlyValues
    <2>5. \A j \in 1..Count(g, n) : g[n].values[j] = C2[lo2[n] + j]
        BY <1>7, <1>9, <2>1, <2>2
    <2>6. QED
        BY <2>1, <2>3, <2>4, <2>5 DEF InOrder
<1>11. ASSUME NEW m \in DOMAIN h, m # n PROVE InOrder(g, m, lo2, hi2, C2)
    <2>1. SameNode(h, g, m)
        BY <1>11 DEF OnlyValues
    <2>2. CASE h[m].leaf
        <3>1. FollowsOn(C, C2, x, 1, 0)
            BY <1>8 DEF FollowsOn
        <3>2. 0 \in Int => 0 <= x + 1
            BY <1>3, <1>4
        <3>3. 1 \in Int /\ x \in Int /\ lo[n] <= x /\ x <= hi[n]
            BY <1>4
        <3>4. QED
            BY <1>11, <2>1, <2>2, <3>1, <3>2, <3>3, LeafShift, SMTT(60)
    <2>3. CASE ~h[m].leaf
        <3>1. \A e \in 1..Count(h, m) : lo[Child(h, m, e)] \in 1..Len(C)
            BY <2>3, KidStarts
        <3>2. Follows(h, m, lo, x, 1, C, C2)
            BY <1>8, <3>1 DEF Follows
        <3>3. QED
            BY <1>4, <2>1, <2>3, <3>2, InternalShift
    <2>4. QED
        BY <2>2, <2>3
<1>12. lo2[top] = 0 /\ hi2[top] = Len(C2)
    <2>1. lo[top] = 0 /\ hi[top] = Len(C) /\ top \in DOMAIN h
        BY DEF Holds, Tree
    <2>2. QED
        BY <1>3, <1>4, <1>5, <2>1 DEF Shifted
<1>13. DOMAIN g = DOMAIN h
    BY DEF OnlyValues
<1>14. Holds(g, top, lo2, hi2, C2)
    BY <1>5, <1>10, <1>11, <1>12, <1>13 DEF Holds
<1>15. QED
    BY <1>4, <1>9, <1>14 DEF C2

\* The numbers behind x are one less.
Lessened(h, lo, hi, x, lo2, hi2) == Shifted(h, lo, hi, x, -1, lo2, hi2)

\* A value is removed from a leaf.
LEMMA RemoveHolds ==
    ASSUME NEW h, NEW top, NEW lv, NEW S, Tree(h, top, lv, S),
           NEW lo, NEW hi, NEW C, Holds(h, top, lo, hi, C),
           NEW n \in DOMAIN h, h[n].leaf, NEW i \in Nat, i < Count(h, n),
           NEW x, x = lo[n] + i, NEW C2, C2 = RemoveAt(C, x + 1),
           NEW w, w = RemoveAt(h[n].values, i + 1),
           NEW g, OnlyValues(h, g, n, w),
           NEW lo2, NEW hi2, Lessened(h, lo, hi, x, lo2, hi2)
    PROVE  /\ x \in 0..(Len(C) - 1) /\ lo2[n] = lo[n]
           /\ Holds(g, top, lo2, hi2, C2)
<1>1. Shifted(h, lo, hi, x, -1, lo2, hi2)
    BY DEF Lessened
<1>2. /\ Count(h, n) \in Nat /\ Len(h[n].values) = Count(h, n)
      /\ h[n].values \in Seq(Values)
    BY NodeRowIs
<1>3. /\ lo[n] \in Int /\ hi[n] \in Int /\ hi[n] = lo[n] + Count(h, n)
      /\ \A j \in 1..Count(h, n) : h[n].values[j] = C[lo[n] + j]
    BY DEF Holds, InOrder
<1>4. 0 <= lo[n] /\ hi[n] <= Len(C) /\ Len(C) \in Nat /\ C \in Seq(Values)
    BY RangesInside DEF Holds
<1>5. x \in 0..(Len(C) - 1) /\ x \in Int /\ lo[n] <= x /\ x < hi[n]
    BY <1>2, <1>3, <1>4
<1>6. /\ C2 \in Seq(Values) /\ Len(C2) = Len(C) - 1
      /\ \A j \in 1..(Len(C) - 1) : C2[j] = IF j < x + 1 THEN C[j] ELSE C[j + 1]
    <2>1. PICK y \in 1..Len(C) : y = x + 1
        BY <1>4, <1>5
    <2>2. /\ RemoveAt(C, y) \in Seq(Values) /\ Len(RemoveAt(C, y)) = Len(C) - 1
          /\ \A j \in 1..(Len(C) - 1) :
                RemoveAt(C, y)[j] = IF j < y THEN C[j] ELSE C[j + 1]
        BY <1>4, RemoveAtIs, SMTT(30)
    <2>3. QED
        BY <2>1, <2>2
<1>7. /\ w \in Seq(Values) /\ Len(w) = Count(h, n) - 1
      /\ \A j \in 1..(Count(h, n) - 1) :
            w[j] = IF j < i + 1 THEN h[n].values[j] ELSE h[n].values[j + 1]
    <2>1. PICK q : q = h[n].values
        OBVIOUS
    <2>2. q \in Seq(Values) /\ Len(q) = Count(h, n)
        BY <1>2, <2>1
    <2>3. PICK y \in 1..Len(q) : y = i + 1
        BY <1>2, <2>2
    <2>4. /\ RemoveAt(q, y) \in Seq(Values) /\ Len(RemoveAt(q, y)) = Len(q) - 1
          /\ \A j \in 1..(Len(q) - 1) :
                RemoveAt(q, y)[j] = IF j < y THEN q[j] ELSE q[j + 1]
        BY <2>2, RemoveAtIs, SMTT(30)
    <2>5. w = RemoveAt(q, y)
        BY <2>1, <2>3
    <2>6. QED
        BY <2>1, <2>2, <2>3, <2>4, <2>5
<1>8. g[n].values = w
    BY DEF OnlyValues
<1>9. ASSUME NEW j \in 1..Len(C)
      PROVE  (j <= x => C2[j] = C[j]) /\ (j > x /\ j # x + 1 => C2[j + -1] = C[j])
    <2>1. CASE j <= x
        <3>1. j < x + 1 /\ j \in 1..(Len(C) - 1)
            BY <1>4, <1>5, <2>1
        <3>2. QED
            BY <1>5, <1>6, <2>1, <3>1
    <2>2. CASE j > x + 1
        <3>1. PICK e \in 1..(Len(C) - 1) : e = j - 1 /\ e + 1 = j /\ j + -1 = e
            BY <1>4, <1>5, <2>2
        <3>2. ~(e < x + 1)
            BY <1>5, <2>2, <3>1
        <3>3. C2[e] = C[e + 1]
            BY <1>6, <3>2
        <3>4. QED
            BY <1>5, <2>2, <3>1, <3>3
    <2>3. QED
        BY <1>5, <2>1, <2>2
<1>10. /\ lo2[n] = lo[n] /\ hi2[n] = hi[n] - 1
    BY <1>1, <1>3, <1>5 DEF Shifted
<1>11. InOrder(g, n, lo2, hi2, C2)
    <2>1. Count(g, n) = Count(h, n) - 1
        BY <1>7, <1>8 DEF Count
    <2>2. ASSUME NEW j \in 1..(Count(h, n) - 1) PROVE w[j] = C2[lo[n] + j]
        <3>1. PICK y \in 1..(Len(C) - 1) : y = lo[n] + j
            <4>1. j \in Int /\ 1 <= j /\ j <= Count(h, n) - 1
                BY <1>2
            <4>2. /\ lo[n] \in Int /\ hi[n] = lo[n] + Count(h, n) /\ Count(h, n) \in Nat
                  /\ 0 <= lo[n] /\ hi[n] <= Len(C) /\ Len(C) \in Nat
                BY <1>2, <1>3, <1>4
            <4>3. lo[n] + j \in 1..(Len(C) - 1)
                BY ONLY <4>1, <4>2
            <4>4. QED
                BY <4>3
        <3>2. C2[y] = IF y < x + 1 THEN C[y] ELSE C[y + 1]
            BY <1>6
        <3>3. w[j] = IF j < i + 1 THEN h[n].values[j] ELSE h[n].values[j + 1]
            BY <1>7
        <3>4. j \in Int /\ i \in Int /\ lo[n] \in Int /\ Count(h, n) \in Nat
              /\ 1 <= j /\ j <= Count(h, n) - 1 /\ 0 <= i
            BY <1>2, <1>3
        <3>5. CASE j < i + 1
            <4>1. y < x + 1 /\ j \in 1..Count(h, n)
                BY <3>1, <3>4, <3>5, SMTT(30)
            <4>2. h[n].values[j] = C[lo[n] + j]
                BY <1>3, <4>1
            <4>3. QED
                BY <3>1, <3>2, <3>3, <3>5, <4>1, <4>2
        <3>6. CASE ~(j < i + 1)
            <4>1. ~(y < x + 1)
                BY <3>1, <3>4, <3>6
            <4>2. PICK e \in 1..Count(h, n) : e = j + 1
                BY <3>4
            <4>3. h[n].values[e] = C[lo[n] + e]
                BY <1>3
            <4>4. lo[n] + e = y + 1
                BY ONLY <3>1, <3>4, <4>2, SMTT(30)
            <4>5. C2[lo[n] + j] = C[y + 1]
                BY <3>1, <3>2, <4>1
            <4>6. w[j] = h[n].values[e]
                BY <3>3, <3>6, <4>2
            <4>7. QED
                BY <4>3, <4>4, <4>5, <4>6
        <3>7. QED
            BY <3>5, <3>6
    <2>3. hi2[n] = lo2[n] + (Count(h, n) - 1) /\ lo2[n] \in Int /\ hi2[n] \in Int
        BY <1>2, <1>3, <1>10
    <2>4. g[n].leaf
        BY DEF OnlyValues
    <2>5. \A j \in 1..Count(g, n) : g[n].values[j] = C2[lo2[n] + j]
        BY <1>8, <1>10, <2>1, <2>2
    <2>6. QED
        BY <2>1, <2>3, <2>4, <2>5 DEF InOrder
<1>12. ASSUME NEW m \in DOMAIN h, m # n PROVE InOrder(g, m, lo2, hi2, C2)
    <2>1. SameNode(h, g, m)
        BY <1>12 DEF OnlyValues
    <2>2. CASE h[m].leaf
        <3>1. FollowsOn(C, C2, x, -1, x + 1)
            BY <1>9 DEF FollowsOn
        <3>2. x + 1 \in Int => x + 1 <= x + 1
            BY <1>5
        <3>3. -1 \in Int /\ x \in Int /\ lo[n] <= x /\ x <= hi[n]
            BY <1>3, <1>5
        <3>4. QED
            BY <1>1, <1>12, <2>1, <2>2, <3>1, <3>2, <3>3, LeafShift, SMTT(120)
    <2>3. CASE ~h[m].leaf
        <3>1. ASSUME NEW e \in 1..Count(h, m)
              PROVE  lo[Child(h, m, e)] \in 1..Len(C)
                     /\ lo[Child(h, m, e)] # x + 1
            <4>1. /\ lo[Child(h, m, e)] \in 1..Len(C)
                  /\ Slot(m, e - 1) \in Places(h)
                  /\ Number(h, lo, hi, Slot(m, e - 1)) = lo[Child(h, m, e)] - 1
                BY <2>3, KidStarts
            <4>2. Slot(n, i) \in Places(h)
                BY PlacesAre
            <4>3. Number(h, lo, hi, Slot(n, i)) = x
                BY SlotIs DEF Number
            <4>4. Slot(m, e - 1) # Slot(n, i)
                BY <1>12, SlotIs
            <4>5. Number(h, lo, hi, Slot(m, e - 1)) # x
                BY <4>1, <4>2, <4>3, <4>4, NumberNames
            <4>6. QED
                BY <1>5, <4>1, <4>5
        <3>2. Follows(h, m, lo, x, -1, C, C2)
            BY <1>9, <3>1 DEF Follows
        <3>3. -1 \in Int /\ x \in Int
            BY <1>5
        <3>4. QED
            BY <1>1, <2>1, <2>3, <3>2, <3>3, InternalShift, SMTT(30)
    <2>4. QED
        BY <2>2, <2>3
<1>13. lo2[top] = 0 /\ hi2[top] = Len(C2)
    <2>1. lo[top] = 0 /\ hi[top] = Len(C) /\ top \in DOMAIN h
        BY DEF Holds, Tree
    <2>2. QED
        BY <1>1, <1>4, <1>5, <1>6, <2>1 DEF Shifted
<1>14. DOMAIN g = DOMAIN h
    BY DEF OnlyValues
<1>15. Holds(g, top, lo2, hi2, C2)
    BY <1>6, <1>11, <1>12, <1>13, <1>14 DEF Holds
<1>16. QED
    BY <1>5, <1>10, <1>15

\* Another value at a place of an internal node.
LEMMA ReplaceHolds ==
    ASSUME NEW h, NEW top, NEW lv, NEW S, Tree(h, top, lv, S),
           NEW lo, NEW hi, NEW C, Holds(h, top, lo, hi, C),
           NEW n \in DOMAIN h, ~h[n].leaf, NEW i \in Nat, i < Count(h, n),
           NEW v \in Values, NEW x, x = Number(h, lo, hi, Slot(n, i)),
           NEW g, OnlyValues(h, g, n, [h[n].values EXCEPT ![i + 1] = v])
    PROVE  /\ x \in 0..(Len(C) - 1)
           /\ Holds(g, top, lo, hi, [C EXCEPT ![x + 1] = v])
<1> DEFINE C2 == [C EXCEPT ![x + 1] = v]
           w == [h[n].values EXCEPT ![i + 1] = v]
<1>1. /\ Count(h, n) \in Nat /\ Len(h[n].values) = Count(h, n)
      /\ h[n].values \in Seq(Values)
    BY NodeRowIs
<1>2. Slot(n, i) \in Places(h)
    BY PlacesAre
<1>3. x \in 0..(Len(C) - 1) /\ C \in Seq(Values) /\ Len(C) \in Nat
    BY <1>2, NumberIn
<1>4. /\ C2 \in Seq(Values) /\ Len(C2) = Len(C)
      /\ \A j \in 1..Len(C) : C2[j] = IF j = x + 1 THEN v ELSE C[j]
    BY <1>3
<1>5. /\ Len(w) = Count(h, n)
      /\ \A j \in 1..Count(h, n) : w[j] = IF j = i + 1 THEN v ELSE h[n].values[j]
    BY <1>1
<1>6. g[n].values = w
    BY DEF OnlyValues
<1> HIDE DEF C2, w
<1>7. ASSUME NEW m \in DOMAIN h, h[m].leaf PROVE InOrder(g, m, lo, hi, C2)
    <2>1. m # n /\ SameNode(h, g, m)
        BY <1>7 DEF OnlyValues
    <2>2. /\ lo[m] \in Int /\ hi[m] \in Int /\ hi[m] = lo[m] + Count(h, m)
          /\ \A j \in 1..Count(h, m) : h[m].values[j] = C[lo[m] + j]
          /\ Count(h, m) \in Nat
        BY <1>7, CountIs DEF Holds, InOrder, Tree
    <2>3. ASSUME NEW j \in 1..Count(h, m) PROVE h[m].values[j] = C2[lo[m] + j]
        <3>1. PICK e \in Nat : e = j - 1 /\ e < Count(h, m)
            BY <2>2
        <3>2. Slot(m, e) \in Places(h)
            BY <3>1, PlacesAre
        <3>3. Number(h, lo, hi, Slot(m, e)) = lo[m] + e
            BY <1>7, SlotIs DEF Number
        <3>4. lo[m] + e \in 0..(Len(C) - 1) /\ lo[m] + e # x
            <4>1. lo[m] + e \in 0..(Len(C) - 1)
                BY <3>2, <3>3, NumberIn
            <4>2. Slot(m, e) # Slot(n, i)
                BY <2>1, SlotIs
            <4>3. QED
                BY <1>2, <3>2, <3>3, <4>1, <4>2, NumberNames
        <3>5. lo[m] + j = lo[m] + e + 1
            BY <2>2, <3>1
        <3>6. lo[m] + j \in 1..Len(C) /\ lo[m] + j # x + 1
            BY <1>3, <2>2, <3>1, <3>4, SMTT(30)
        <3>7. QED
            BY <1>4, <2>2, <3>6
    <2>4. g[m].leaf /\ g[m].values = h[m].values /\ Count(g, m) = Count(h, m)
        BY <1>7, <2>1 DEF SameNode, Count
    <2>5. QED
        BY <2>2, <2>3, <2>4 DEF InOrder
<1>8. ASSUME NEW m \in DOMAIN h, ~h[m].leaf PROVE InOrder(g, m, lo, hi, C2)
    <2>1. /\ ~g[m].leaf /\ g[m].children = h[m].children
          /\ m # n => g[m].values = h[m].values
        BY <1>8 DEF OnlyValues, SameNode
    <2>2. Count(g, m) = Count(h, m)
        BY <1>1, <1>5, <1>6, <2>1 DEF Count
    <2>3. \A j \in 0..Count(h, m) : Child(g, m, j) = Child(h, m, j)
        BY <2>1 DEF Child
    <2>4. /\ lo[m] \in Int /\ hi[m] \in Int
          /\ lo[Child(h, m, 0)] = lo[m]
          /\ hi[Child(h, m, Count(h, m))] = hi[m]
          /\ \A j \in 1..Count(h, m) :
                /\ lo[Child(h, m, j)] = hi[Child(h, m, j - 1)] + 1
                /\ h[m].values[j] = C[lo[Child(h, m, j)]]
        BY <1>8 DEF Holds, InOrder
    <2>5. ASSUME NEW j \in 1..Count(h, m)
          PROVE  g[m].values[j] = C2[lo[Child(h, m, j)]]
        <3>1. /\ lo[Child(h, m, j)] \in 1..Len(C)
              /\ Slot(m, j - 1) \in Places(h)
              /\ Number(h, lo, hi, Slot(m, j - 1)) = lo[Child(h, m, j)] - 1
            BY <1>8, KidStarts
        <3>2. CASE m = n /\ j = i + 1
            <4>1. j - 1 = i
                BY <3>2
            <4>2. lo[Child(h, m, j)] = x + 1
                BY <1>3, <3>1, <3>2, <4>1
            <4>3. C2[lo[Child(h, m, j)]] = v
                BY <1>4, <3>1, <4>2
            <4>4. g[m].values[j] = v
                BY <1>5, <1>6, <3>2
            <4>5. QED
                BY <4>3, <4>4
        <3>3. CASE ~(m = n /\ j = i + 1)
            <4>1. Slot(m, j - 1) # Slot(n, i)
                <5>1. CASE m # n
                    BY <5>1, SlotIs
                <5>2. CASE j # i + 1
                    <6>1. j - 1 # i
                        BY <5>2
                    <6>2. QED
                        BY <6>1, SlotIs
                <5>3. QED
                    BY <3>3, <5>1, <5>2
            <4>2. Number(h, lo, hi, Slot(m, j - 1)) # x
                BY <1>2, <3>1, <4>1, NumberNames
            <4>3. lo[Child(h, m, j)] # x + 1
                BY <1>3, <3>1, <4>2
            <4>4. C2[lo[Child(h, m, j)]] = C[lo[Child(h, m, j)]]
                BY <1>4, <3>1, <4>3
            <4>5. g[m].values[j] = h[m].values[j]
                BY <1>5, <1>6, <2>1, <3>3
            <4>6. QED
                BY <2>4, <4>4, <4>5
        <3>4. QED
            BY <3>2, <3>3
    <2>6. Count(h, m) \in Nat
        BY CountIs DEF Tree
    <2>7. QED
        <3>1. \A j \in 1..Count(h, m) : j - 1 \in 0..Count(h, m)
            BY <2>6
        <3>2. 0 \in 0..Count(h, m) /\ Count(h, m) \in 0..Count(h, m)
            BY <2>6
        <3>3. \A j \in 1..Count(h, m) : j \in 0..Count(h, m)
            BY <2>6
        <3>4. QED
            BY <2>1, <2>2, <2>3, <2>4, <2>5, <3>1, <3>2, <3>3 DEF InOrder
<1>9. DOMAIN g = DOMAIN h /\ lo[top] = 0 /\ hi[top] = Len(C2)
    BY <1>4 DEF OnlyValues, Holds
<1>10. Holds(g, top, lo, hi, C2)
    BY <1>4, <1>7, <1>8, <1>9 DEF Holds
<1>11. QED
    BY <1>3, <1>10 DEF C2

(***************************************************************************)
(* Another root                                                            *)
(***************************************************************************)

\* A tree of one leaf holds the values of the leaf.
LEMMA LeafHolds ==
    ASSUME NEW g, NEW n, NEW max, NEW held, Lone(g, n, max, held), NEW C,
           C = g[n].values
    PROVE  \E lo, hi : Holds(g, n, lo, hi, C) /\ lo[n] = 0
<1>1. PICK lv : Tree(g, n, lv, {n})
    BY DEF Lone
<1>2. n \in DOMAIN g /\ C \in Seq(Values) /\ Len(C) = Count(g, n)
    BY <1>1, NodeRowIs DEF Tree
<1>3. PICK lo : lo = [m \in {n} |-> 0]
    OBVIOUS
<1>4. PICK hi : hi = [m \in {n} |-> Len(C)]
    OBVIOUS
<1>5. lo[n] = 0 /\ hi[n] = Len(C)
    BY <1>3, <1>4
<1>6. \A i \in 1..Count(g, n) : g[n].values[i] = C[0 + i]
    OBVIOUS
<1>7. InOrder(g, n, lo, hi, C)
    BY <1>2, <1>5, <1>6 DEF InOrder, Lone
<1>8. \A m \in DOMAIN g : m = n
    BY DEF Lone
<1>9. Holds(g, n, lo, hi, C)
    BY <1>2, <1>5, <1>7, <1>8 DEF Holds
<1>10. QED
    BY <1>5, <1>9

\* A root that is a leaf has the contents.
LEMMA LeafHas ==
    ASSUME NEW h, NEW top, NEW lv, NEW S, Tree(h, top, lv, S), h[top].leaf,
           NEW lo, NEW hi, NEW C, Holds(h, top, lo, hi, C)
    PROVE  h[top].values = C /\ lo[top] = 0
<1>1. /\ top \in DOMAIN h /\ h[top].values \in Seq(Values)
      /\ Len(h[top].values) = Count(h, top)
    <2>1. top \in DOMAIN h
        BY DEF Tree
    <2>2. QED
        BY <2>1, NodeRowIs
<1>2. /\ C \in Seq(Values) /\ lo[top] = 0 /\ hi[top] = Len(C)
      /\ hi[top] = lo[top] + Count(h, top)
      /\ \A i \in 1..Count(h, top) : h[top].values[i] = C[lo[top] + i]
    BY <1>1 DEF Holds, InOrder
<1>3. PICK v : v = h[top].values
    OBVIOUS
<1>4. v \in Seq(Values) /\ Len(v) = Len(C) /\ \A i \in 1..Len(v) : v[i] = C[i]
    BY <1>1, <1>2, <1>3
<1>5. v = C
    <2>1. C \in Seq(Values)
        BY <1>2
    <2>2. QED
        BY ONLY <2>1, <1>4
<1>6. QED
    BY <1>2, <1>3, <1>5

\* The leaf below a root without values has the contents.
LEMMA OnlyLeafHas ==
    ASSUME NEW h, NEW top, NEW lv, NEW S, Tree(h, top, lv, S), ~h[top].leaf,
           NEW lo, NEW hi, NEW C, Holds(h, top, lo, hi, C),
           NEW c, OnlyKid(h, top, c), h[c].leaf
    PROVE  h[c].values = C /\ lo[c] = 0
<1>1. /\ c \in DOMAIN h /\ h[c].values \in Seq(Values)
      /\ Len(h[c].values) = Count(h, c) /\ top \in DOMAIN h
    <2>1. top \in DOMAIN h /\ c \in DOMAIN h
        BY OnlyChild DEF Tree
    <2>2. QED
        BY <2>1, NodeRowIs
<1>2. C \in Seq(Values) /\ lo[c] = 0 /\ hi[c] = Len(C)
    BY <1>1 DEF Holds, InOrder, OnlyKid
<1>3. /\ hi[c] = lo[c] + Count(h, c)
      /\ \A i \in 1..Count(h, c) : h[c].values[i] = C[lo[c] + i]
    BY <1>1 DEF Holds, InOrder
<1>4. PICK v : v = h[c].values
    OBVIOUS
<1>5. v \in Seq(Values) /\ Len(v) = Len(C) /\ \A i \in 1..Len(v) : v[i] = C[i]
    BY <1>1, <1>2, <1>3, <1>4
<1>6. v = C
    BY <1>2, <1>5
<1>7. QED
    BY <1>2, <1>4, <1>6

\* A root above the leaf that was the root.
LEMMA RaisedHolds ==
    ASSUME NEW h, NEW top, NEW lv, NEW S, Tree(h, top, lv, S), h[top].leaf,
           NEW lo, NEW hi, NEW C, Holds(h, top, lo, hi, C),
           NEW g, NEW new, Raised(h, g, top, new)
    PROVE  \E lo2, hi2 : /\ Holds(g, new, lo2, hi2, C)
                         /\ lo2[top] = lo[top] /\ hi2[top] = Len(C)
<1>1. /\ DOMAIN g = {top, new} /\ new # top /\ ~g[new].leaf /\ g[top].leaf
      /\ Count(g, new) = 0 /\ g[top].values = h[top].values
      /\ Child(g, new, 0) = top /\ Count(g, top) = Count(h, top)
    BY DEF Raised
<1>2. PICK lo2 : lo2 = [m \in {top, new} |-> 0]
    OBVIOUS
<1>3. PICK hi2 : hi2 = [m \in {top, new} |-> Len(C)]
    OBVIOUS
<1>4. /\ lo2[top] = 0 /\ lo2[new] = 0 /\ hi2[top] = Len(C) /\ hi2[new] = Len(C)
    BY <1>2, <1>3
<1>5. top \in DOMAIN h /\ lo[top] = 0 /\ hi[top] = Len(C) /\ C \in Seq(Values)
    BY DEF Tree, Holds
<1>6. InOrder(h, top, lo, hi, C)
    BY <1>5 DEF Holds
<1>7. InOrder(g, top, lo2, hi2, C)
    BY <1>1, <1>4, <1>5, <1>6 DEF InOrder
<1>8. InOrder(g, new, lo2, hi2, C)
    BY <1>1, <1>4, <1>5 DEF InOrder
<1>9. Holds(g, new, lo2, hi2, C)
    BY <1>1, <1>4, <1>5, <1>7, <1>8 DEF Holds
<1>10. QED
    BY <1>4, <1>5, <1>9

\* A node below the root with what the root had.
LEMMA LoweredHolds ==
    ASSUME NEW h, NEW top, NEW lv, NEW S, Tree(h, top, lv, S), ~h[top].leaf,
           NEW lo, NEW hi, NEW C, Holds(h, top, lo, hi, C),
           NEW g, NEW new, new \notin DOMAIN h, Lowered(h, g, top, new)
    PROVE  \E lo2, hi2 :
              /\ Holds(g, top, lo2, hi2, C)
              /\ \A m \in DOMAIN h : lo2[m] = lo[m] /\ hi2[m] = hi[m]
<1>1. /\ DOMAIN g = DOMAIN h \cup {new} /\ top \in DOMAIN h /\ new # top
      /\ ~g[new].leaf /\ ~g[top].leaf
      /\ Count(g, top) = 0 /\ Count(g, new) = Count(h, top)
      /\ Child(g, top, 0) = new
      /\ g[new].values = h[top].values /\ g[new].children = h[top].children
    BY DEF Lowered, Tree
<1>2. PICK lo2 : lo2 = [m \in DOMAIN h \cup {new} |-> IF m = new THEN 0 ELSE lo[m]]
    OBVIOUS
<1>3. PICK hi2 : hi2 = [m \in DOMAIN h \cup {new} |->
                           IF m = new THEN Len(C) ELSE hi[m]]
    OBVIOUS
<1>4. lo2[new] = 0 /\ hi2[new] = Len(C)
    BY <1>2, <1>3
<1>5. ASSUME NEW m \in DOMAIN h PROVE lo2[m] = lo[m] /\ hi2[m] = hi[m]
    BY <1>2, <1>3, <1>5
<1>6. lo[top] = 0 /\ hi[top] = Len(C) /\ C \in Seq(Values) /\ Len(C) \in Int
    BY DEF Holds
<1>7. InOrder(g, top, lo2, hi2, C)
    BY <1>1, <1>4, <1>5, <1>6 DEF InOrder
<1>8. ASSUME NEW x \in DOMAIN h, NEW m, ~h[x].leaf, g[m].values = h[x].values,
             g[m].children = h[x].children, ~g[m].leaf, Count(g, m) = Count(h, x),
             lo2[m] = lo[x], hi2[m] = hi[x]
      PROVE  InOrder(g, m, lo2, hi2, C)
    <2>1. InOrder(h, x, lo, hi, C) /\ Count(h, x) \in Nat
        BY CountIs DEF Holds, Tree
    <2>2. \A i \in 0..Count(h, x) : /\ Child(g, m, i) = Child(h, x, i)
                                    /\ Child(h, x, i) \in DOMAIN h
        BY <1>8, ChildIs DEF Child
    <2>3. \A i \in 0..Count(h, x) : /\ lo2[Child(g, m, i)] = lo[Child(h, x, i)]
                                    /\ hi2[Child(g, m, i)] = hi[Child(h, x, i)]
        BY <1>5, <2>2
    <2>4. 0 \in 0..Count(h, x) /\ Count(h, x) \in 0..Count(h, x)
        BY <2>1
    <2>5. \A i \in 1..Count(h, x) : i \in 0..Count(h, x) /\ i - 1 \in 0..Count(h, x)
        BY <2>1
    <2>6. lo2[m] \in Int /\ hi2[m] \in Int
        BY <1>8, <2>1 DEF InOrder
    <2>7. lo2[Child(g, m, 0)] = lo2[m] /\ hi2[Child(g, m, Count(g, m))] = hi2[m]
        BY <1>8, <2>1, <2>3, <2>4 DEF InOrder
    <2>8. ASSUME NEW i \in 1..Count(h, x)
          PROVE  /\ lo2[Child(g, m, i)] = hi2[Child(g, m, i - 1)] + 1
                 /\ g[m].values[i] = C[lo2[Child(g, m, i)]]
        BY <1>8, <2>1, <2>3, <2>5 DEF InOrder
    <2>9. QED
        BY <1>8, <2>6, <2>7, <2>8 DEF InOrder
<1>9. InOrder(g, new, lo2, hi2, C)
    BY <1>1, <1>4, <1>6, <1>8
<1>10. ASSUME NEW m \in DOMAIN h, m # top PROVE InOrder(g, m, lo2, hi2, C)
    <2>1. /\ g[m].leaf = h[m].leaf /\ g[m].values = h[m].values
          /\ g[m].children = h[m].children /\ Count(g, m) = Count(h, m)
        BY <1>10 DEF Lowered
    <2>2. CASE h[m].leaf
        BY <1>5, <2>1, <2>2 DEF Holds, InOrder
    <2>3. CASE ~h[m].leaf
        BY <1>5, <1>8, <2>1, <2>3
    <2>4. QED
        BY <2>2, <2>3
<1>11. lo2[top] = 0 /\ hi2[top] = Len(C)
    BY <1>1, <1>5, <1>6
<1>12. Holds(g, top, lo2, hi2, C)
    BY <1>1, <1>6, <1>7, <1>9, <1>10, <1>11 DEF Holds
<1>13. QED
    BY <1>5, <1>12

\* The root with what its only child had.
LEMMA SunkHolds ==
    ASSUME NEW h, NEW top, NEW lv, NEW S, Tree(h, top, lv, S), ~h[top].leaf,
           NEW lo, NEW hi, NEW C, Holds(h, top, lo, hi, C),
           NEW c, OnlyKid(h, top, c), ~h[c].leaf, NEW g, Sunk(h, g, top, c)
    PROVE  Holds(g, top, lo, hi, C)
<1>1. c \in DOMAIN h /\ c # top /\ h[c].parent = top /\ top \in DOMAIN h
    BY OnlyChild DEF Tree
<1>2. /\ lo[top] = 0 /\ hi[top] = Len(C) /\ C \in Seq(Values)
      /\ lo[c] = lo[top] /\ hi[c] = hi[top] /\ lo[top] \in Int /\ hi[top] \in Int
    BY <1>1 DEF Holds, InOrder, OnlyKid
<1>3. /\ DOMAIN g = DOMAIN h \ {c} /\ ~g[top].leaf
      /\ g[top].values = h[c].values /\ g[top].children = h[c].children
      /\ Count(g, top) = Count(h, c)
    BY <1>1 DEF Sunk
<1>4. ASSUME NEW x \in DOMAIN h, NEW m, h[x].leaf <=> g[m].leaf,
             g[m].values = h[x].values,
             g[m].children = h[x].children, Count(g, m) = Count(h, x),
             lo[m] = lo[x], hi[m] = hi[x]
      PROVE  InOrder(g, m, lo, hi, C)
    <2>1. \A i : Child(g, m, i) = Child(h, x, i)
        BY <1>4 DEF Child
    <2>2. InOrder(h, x, lo, hi, C)
        BY DEF Holds
    <2>3. QED
        BY <1>4, <2>1, <2>2 DEF InOrder
<1>5. InOrder(g, top, lo, hi, C)
    BY <1>1, <1>2, <1>3, <1>4
<1>6. ASSUME NEW m \in DOMAIN g, m # top PROVE InOrder(g, m, lo, hi, C)
    <2>1. /\ g[m].leaf = h[m].leaf /\ g[m].values = h[m].values
          /\ g[m].children = h[m].children /\ Count(g, m) = Count(h, m)
          /\ m \in DOMAIN h
        BY <1>3, <1>6 DEF Sunk
    <2>2. QED
        BY <1>4, <2>1
<1>7. QED
    BY <1>2, <1>5, <1>6 DEF Holds

(***************************************************************************)
(* The walks, step by step                                                 *)
(***************************************************************************)

\* A walk to nodes of lower rank is one.
LEMMA WalkSteps ==
    ASSUME NEW D, NEW rank, NEW N \in Nat, Ranked(rank, D, N), NEW stop,
           NEW base, NEW next,
           \A m \in D : m \notin stop
               => next[m] \in D /\ rank[next[m]] < rank[m],
           NEW f, f = TheWalk(D, stop, base, next)
    PROVE  \A m \in D : f[m] = IF m \in stop THEN base[m] ELSE f[next[m]]
<1> DEFINE Walk(e) == IsWalk(e, D, stop, base, next)
           W == CHOOSE e : Walk(e)
           V == {base[m] : m \in D} \cup {0}
           G == [m \in D |-> [e \in Maps(D, V) |->
                       IF m \in stop THEN base[m] ELSE e[next[m]]]]
<1>1. \A m \in D, e \in Maps(D, V) :
         G[m][e] = IF m \in stop THEN base[m] ELSE e[next[m]]
    OBVIOUS
<1>2. V # {} /\ \A m \in D : base[m] \in V
    OBVIOUS
<1> HIDE DEF G, V
<1>3. ASSUME NEW m \in D, NEW e \in Maps(D, V) PROVE G[m][e] \in V
    <2>1. e \in [D -> V]
        BY DEF Maps
    <2>2. QED
        BY <1>1, <1>2, <2>1
<1>4. Rules(G, D, V, rank)
    BY <1>1, <1>3 DEF Rules
<1>5. PICK e \in Maps(D, V) : \A m \in D : e[m] = G[m][e]
    BY <1>2, <1>4, Recursion
<1>6. e = [m \in D |-> e[m]]
    BY <1>5 DEF Maps
<1>7. \A m \in D : e[m] = IF m \in stop THEN base[m] ELSE e[next[m]]
    BY <1>1, <1>5
<1>8. Walk(e)
    BY <1>6, <1>7 DEF IsWalk
<1> HIDE DEF Walk
<1>9. Walk(W)
    BY <1>8
<1> HIDE DEF W
<1>10. IsWalk(W, D, stop, base, next)
    BY <1>9 DEF Walk
<1>11. f = W
    BY DEF W, Walk, TheWalk
<1>12. QED
    BY <1>10, <1>11 DEF IsWalk

\* A node below n is one rank lower, the node above it one rank lower from
\* the root.
LEMMA RanksStep ==
    ASSUME NEW h, NEW top, NEW lv, NEW S, Tree(h, top, lv, S), NEW n \in DOMAIN h
    PROVE  /\ ~h[n].leaf => \A i \in 0..Count(h, n) :
                 /\ Child(h, n, i) \in DOMAIN h
                 /\ UpRank(h, lv)[Child(h, n, i)] < UpRank(h, lv)[n]
           /\ n # top =>
                 /\ h[n].parent \in DOMAIN h
                 /\ DownRank(h, top, lv)[h[n].parent] < DownRank(h, top, lv)[n]
           /\ Count(h, n) \in Nat /\ 0 \in 0..Count(h, n)
           /\ Count(h, n) \in 0..Count(h, n)
<1>1. \A m \in DOMAIN h : lv[m] \in Nat
    BY DEF Tree, Sized
<1>2. ASSUME ~h[n].leaf, NEW i \in 0..Count(h, n)
      PROVE  /\ Child(h, n, i) \in DOMAIN h
             /\ UpRank(h, lv)[Child(h, n, i)] < UpRank(h, lv)[n]
    <2>1. PICK c \in DOMAIN h : c = Child(h, n, i) /\ lv[c] + 1 = lv[n]
        BY <1>2, ChildIs
    <2>2. lv[c] < lv[n]
        BY <1>1, <2>1
    <2>3. QED
        BY <2>1, <2>2 DEF UpRank
<1>3. ASSUME n # top
      PROVE  /\ h[n].parent \in DOMAIN h
             /\ DownRank(h, top, lv)[h[n].parent] < DownRank(h, top, lv)[n]
    <2>1. PICK p \in DOMAIN h : p = h[n].parent /\ lv[p] = lv[n] + 1
        BY <1>3, ParentIs
    <2>2. top \in DOMAIN h
        BY DEF Tree
    <2>3. lv[top] - lv[p] < lv[top] - lv[n]
        BY <1>1, <2>1, <2>2
    <2>4. QED
        BY <2>1, <2>3 DEF DownRank
<1>4. Count(h, n) \in Nat
    BY CountIs DEF Tree
<1>5. QED
    BY <1>2, <1>3, <1>4

\* The first leaf below a node is the first one below its first child.
LEMMA FirstLeafSteps ==
    ASSUME NEW h, NEW top, NEW lv, NEW S, Tree(h, top, lv, S)
    PROVE  \A n \in DOMAIN h : FirstLeaf(h, n) =
              IF h[n].leaf THEN n ELSE FirstLeaf(h, Child(h, n, 0))
<1> DEFINE D == DOMAIN h
           stop == {m \in D : h[m].leaf}
           base == [m \in D |-> m]
           next == [m \in D |-> Child(h, m, 0)]
           rank == UpRank(h, lv)
           IsDown(f) ==
               f = [m \in D |-> IF h[m].leaf THEN m ELSE f[Child(h, m, 0)]]
           Walk(f) == IsWalk(f, D, stop, base, next)
<1>1. PICK w : w = TheWalk(D, stop, base, next)
    OBVIOUS
<1>2. ASSUME NEW n PROVE FirstLeaf(h, n) = w[n]
    <2>1. FirstLeaf(h, n) = (CHOOSE f : IsDown(f))[n]
        BY DEF FirstLeaf
    <2>2. ASSUME NEW f PROVE IsDown(f) <=> Walk(f)
        BY DEF IsWalk
    <2>3. (CHOOSE f : Walk(f)) = w
        BY <1>1 DEF TheWalk
    <2> HIDE DEF IsDown, Walk
    <2>4. (CHOOSE f : IsDown(f)) = (CHOOSE f : Walk(f))
        BY <2>2
    <2>5. QED
        BY <2>1, <2>3, <2>4
<1>3. ASSUME NEW m \in D, m \notin stop
      PROVE  next[m] \in D /\ rank[next[m]] < rank[m]
    BY <1>3, RanksStep
<1>4. \A m \in D : m \in stop <=> h[m].leaf
    OBVIOUS
<1>5. \A m \in D : base[m] = m /\ next[m] = Child(h, m, 0)
    OBVIOUS
<1>6. lv[top] + 1 \in Nat /\ Ranked(rank, D, lv[top] + 1)
    BY LevelsRank
<1> HIDE DEF stop, base, next, rank
<1>7. \A m \in D : w[m] = IF m \in stop THEN base[m] ELSE w[next[m]]
    BY <1>1, <1>3, <1>6, WalkSteps
<1>8. ASSUME NEW n \in D
      PROVE  FirstLeaf(h, n) =
                IF h[n].leaf THEN n ELSE FirstLeaf(h, Child(h, n, 0))
    <2>1. FirstLeaf(h, n) = w[n] /\ FirstLeaf(h, Child(h, n, 0)) = w[Child(h, n, 0)]
        BY <1>2
    <2>2. QED
        BY <1>4, <1>5, <1>7, <2>1
<1>9. QED
    BY <1>8

\* The last leaf below a node is the last one below its last child.
LEMMA LastLeafSteps ==
    ASSUME NEW h, NEW top, NEW lv, NEW S, Tree(h, top, lv, S)
    PROVE  \A n \in DOMAIN h : LastLeaf(h, n) =
              IF h[n].leaf THEN n ELSE LastLeaf(h, Child(h, n, Count(h, n)))
<1> DEFINE D == DOMAIN h
           stop == {m \in D : h[m].leaf}
           base == [m \in D |-> m]
           next == [m \in D |-> Child(h, m, Count(h, m))]
           rank == UpRank(h, lv)
           IsDown(f) ==
               f = [m \in D |-> IF h[m].leaf THEN m
                                ELSE f[Child(h, m, Count(h, m))]]
           Walk(f) == IsWalk(f, D, stop, base, next)
<1>1. PICK w : w = TheWalk(D, stop, base, next)
    OBVIOUS
<1>2. ASSUME NEW n PROVE LastLeaf(h, n) = w[n]
    <2>1. LastLeaf(h, n) = (CHOOSE f : IsDown(f))[n]
        BY DEF LastLeaf
    <2>2. ASSUME NEW f PROVE IsDown(f) <=> Walk(f)
        BY DEF IsWalk
    <2>3. (CHOOSE f : Walk(f)) = w
        BY <1>1 DEF TheWalk
    <2> HIDE DEF IsDown, Walk
    <2>4. (CHOOSE f : IsDown(f)) = (CHOOSE f : Walk(f))
        BY <2>2
    <2>5. QED
        BY <2>1, <2>3, <2>4
<1>3. ASSUME NEW m \in D, m \notin stop
      PROVE  next[m] \in D /\ rank[next[m]] < rank[m]
    BY <1>3, RanksStep
<1>4. \A m \in D : m \in stop <=> h[m].leaf
    OBVIOUS
<1>5. \A m \in D : base[m] = m /\ next[m] = Child(h, m, Count(h, m))
    OBVIOUS
<1>6. lv[top] + 1 \in Nat /\ Ranked(rank, D, lv[top] + 1)
    BY LevelsRank
<1> HIDE DEF stop, base, next, rank
<1>7. \A m \in D : w[m] = IF m \in stop THEN base[m] ELSE w[next[m]]
    BY <1>1, <1>3, <1>6, WalkSteps
<1>8. ASSUME NEW n \in D
      PROVE  LastLeaf(h, n) =
                IF h[n].leaf THEN n ELSE LastLeaf(h, Child(h, n, Count(h, n)))
    <2>1. /\ LastLeaf(h, n) = w[n]
          /\ LastLeaf(h, Child(h, n, Count(h, n))) = w[Child(h, n, Count(h, n))]
        BY <1>2
    <2>2. QED
        BY <1>4, <1>5, <1>7, <2>1
<1>9. QED
    BY <1>8

\* What comes after a node that is a last child comes after its parent.
LEMMA AfterSteps ==
    ASSUME NEW h, NEW top, NEW lv, NEW S, Tree(h, top, lv, S)
    PROVE  \A n \in DOMAIN h : After(h, n) =
              IF n = top THEN NoSlot
              ELSE IF HasRight(h, n) THEN Slot(h[n].parent, h[n].position)
              ELSE After(h, h[n].parent)
<1> DEFINE D == DOMAIN h
           stop == {m \in D : IsRoot(h, m) \/ HasRight(h, m)}
           base == [m \in D |-> IF IsRoot(h, m) THEN NoSlot
                                ELSE Slot(h[m].parent, h[m].position)]
           next == [m \in D |-> h[m].parent]
           rank == DownRank(h, top, lv)
           IsUp(f) == f = [m \in D |->
                         IF IsRoot(h, m) THEN NoSlot
                         ELSE IF HasRight(h, m) THEN Slot(h[m].parent,
                             h[m].position)
                         ELSE f[h[m].parent]]
           Walk(f) == IsWalk(f, D, stop, base, next)
<1>1. PICK w : w = TheWalk(D, stop, base, next)
    OBVIOUS
<1>2. ASSUME NEW n PROVE After(h, n) = w[n]
    <2>1. After(h, n) = (CHOOSE f : IsUp(f))[n]
        BY DEF After
    <2>2. ASSUME NEW f PROVE IsUp(f) <=> Walk(f)
        <3>1. ASSUME NEW m \in D
              PROVE  (IF IsRoot(h, m) THEN NoSlot
                      ELSE IF HasRight(h, m) THEN Slot(h[m].parent, h[m].position)
                      ELSE f[h[m].parent])
                        = IF m \in stop THEN base[m] ELSE f[next[m]]
            OBVIOUS
        <3>2. QED
            BY <3>1 DEF IsWalk
    <2>3. (CHOOSE f : Walk(f)) = w
        BY <1>1 DEF TheWalk
    <2> HIDE DEF IsUp, Walk
    <2>4. (CHOOSE f : IsUp(f)) = (CHOOSE f : Walk(f))
        BY <2>2
    <2>5. QED
        BY <2>1, <2>3, <2>4
<1>3. ASSUME NEW m \in D, m \notin stop
      PROVE  next[m] \in D /\ rank[next[m]] < rank[m]
    BY <1>3, RanksStep, RootIs
<1>4. \A m \in D : m \in stop <=> (m = top \/ HasRight(h, m))
    BY RootIs
<1>5. \A m \in D : /\ base[m] = IF m = top THEN NoSlot
                               ELSE Slot(h[m].parent, h[m].position)
                   /\ next[m] = h[m].parent
    BY RootIs
<1>6. lv[top] + 1 \in Nat /\ Ranked(rank, D, lv[top] + 1)
    BY LevelsRank
<1> HIDE DEF stop, base, next, rank
<1>7. \A m \in D : w[m] = IF m \in stop THEN base[m] ELSE w[next[m]]
    BY <1>1, <1>3, <1>6, WalkSteps
<1>8. ASSUME NEW n \in D
      PROVE  After(h, n) =
              IF n = top THEN NoSlot
              ELSE IF HasRight(h, n) THEN Slot(h[n].parent, h[n].position)
              ELSE After(h, h[n].parent)
    <2>1. After(h, n) = w[n] /\ After(h, h[n].parent) = w[h[n].parent]
        BY <1>2
    <2>2. QED
        BY <1>4, <1>5, <1>7, <2>1
<1>9. QED
    BY <1>8

\* What comes before a node that is a first child comes before its parent.
LEMMA BeforeSteps ==
    ASSUME NEW h, NEW top, NEW lv, NEW S, Tree(h, top, lv, S)
    PROVE  \A n \in DOMAIN h : Before(h, n) =
              IF n = top THEN NoSlot
              ELSE IF HasLeft(h, n) THEN Slot(h[n].parent, h[n].position - 1)
              ELSE Before(h, h[n].parent)
<1> DEFINE D == DOMAIN h
           stop == {m \in D : IsRoot(h, m) \/ HasLeft(h, m)}
           base == [m \in D |-> IF IsRoot(h, m) THEN NoSlot
                                ELSE Slot(h[m].parent, h[m].position - 1)]
           next == [m \in D |-> h[m].parent]
           rank == DownRank(h, top, lv)
           IsUp(f) == f = [m \in D |->
                         IF IsRoot(h, m) THEN NoSlot
                         ELSE IF HasLeft(h, m) THEN Slot(h[m].parent, h[m].position - 1)
                         ELSE f[h[m].parent]]
           Walk(f) == IsWalk(f, D, stop, base, next)
<1>1. PICK w : w = TheWalk(D, stop, base, next)
    OBVIOUS
<1>2. ASSUME NEW n PROVE Before(h, n) = w[n]
    <2>1. Before(h, n) = (CHOOSE f : IsUp(f))[n]
        BY DEF Before
    <2>2. ASSUME NEW f PROVE IsUp(f) <=> Walk(f)
        <3>1. ASSUME NEW m \in D
              PROVE  (IF IsRoot(h, m) THEN NoSlot
                      ELSE IF HasLeft(h, m) THEN Slot(h[m].parent, h[m].position - 1)
                      ELSE f[h[m].parent])
                        = IF m \in stop THEN base[m] ELSE f[next[m]]
            OBVIOUS
        <3>2. QED
            BY <3>1 DEF IsWalk
    <2>3. (CHOOSE f : Walk(f)) = w
        BY <1>1 DEF TheWalk
    <2> HIDE DEF IsUp, Walk
    <2>4. (CHOOSE f : IsUp(f)) = (CHOOSE f : Walk(f))
        BY <2>2
    <2>5. QED
        BY <2>1, <2>3, <2>4
<1>3. ASSUME NEW m \in D, m \notin stop
      PROVE  next[m] \in D /\ rank[next[m]] < rank[m]
    BY <1>3, RanksStep, RootIs
<1>4. \A m \in D : m \in stop <=> (m = top \/ HasLeft(h, m))
    BY RootIs
<1>5. \A m \in D : /\ base[m] = IF m = top THEN NoSlot
                               ELSE Slot(h[m].parent, h[m].position - 1)
                   /\ next[m] = h[m].parent
    BY RootIs
<1>6. lv[top] + 1 \in Nat /\ Ranked(rank, D, lv[top] + 1)
    BY LevelsRank
<1> HIDE DEF stop, base, next, rank
<1>7. \A m \in D : w[m] = IF m \in stop THEN base[m] ELSE w[next[m]]
    BY <1>1, <1>3, <1>6, WalkSteps
<1>8. ASSUME NEW n \in D
      PROVE  Before(h, n) =
              IF n = top THEN NoSlot
              ELSE IF HasLeft(h, n) THEN Slot(h[n].parent, h[n].position - 1)
              ELSE Before(h, h[n].parent)
    <2>1. Before(h, n) = w[n] /\ Before(h, h[n].parent) = w[h[n].parent]
        BY <1>2
    <2>2. QED
        BY <1>4, <1>5, <1>7, <2>1
<1>9. QED
    BY <1>8

\* The node whose values a search passes goes on in the child after them.
PassedOn(h, n, passed) ==
    Cardinality({i \in DOMAIN h[n].values : h[n].values[i] \in passed})

\* A search goes down to the child behind the values it passes.
LEMMA DescendSteps ==
    ASSUME NEW h, NEW top, NEW lv, NEW S, Tree(h, top, lv, S), NEW passed,
           \A n \in DOMAIN h : PassedOn(h, n, passed) \in 0..Count(h, n)
    PROVE  \A n \in DOMAIN h : Descend(h, n, passed) =
              IF h[n].leaf THEN Slot(n, PassedOn(h, n, passed))
              ELSE Descend(h, Child(h, n, PassedOn(h, n, passed)), passed)
<1> DEFINE D == DOMAIN h
           Passed(m) == Cardinality({i \in DOMAIN h[m].values :
                                        h[m].values[i] \in passed})
           stop == {m \in D : h[m].leaf}
           base == [m \in D |-> Slot(m, Passed(m))]
           next == [m \in D |-> Child(h, m, Passed(m))]
           rank == UpRank(h, lv)
           IsDown(f) == f = [m \in D |-> IF h[m].leaf THEN Slot(m, Passed(m))
                                        ELSE f[Child(h, m, Passed(m))]]
           Walk(f) == IsWalk(f, D, stop, base, next)
<1>1. PICK w : w = TheWalk(D, stop, base, next)
    OBVIOUS
<1>2. ASSUME NEW n \in D PROVE Descend(h, n, passed) = w[n]
    <2>1. n # NoNode
        BY NodeIs DEF Tree
    <2>2. Descend(h, n, passed) = (CHOOSE f : IsDown(f))[n]
        BY <2>1 DEF Descend
    <2> HIDE DEF Passed
    <2>3. ASSUME NEW f PROVE IsDown(f) <=> Walk(f)
        BY DEF IsWalk
    <2>4. (CHOOSE f : Walk(f)) = w
        BY <1>1 DEF TheWalk
    <2> HIDE DEF IsDown, Walk
    <2>5. (CHOOSE f : IsDown(f)) = (CHOOSE f : Walk(f))
        BY <2>3
    <2>6. QED
        BY <2>2, <2>4, <2>5
<1>3. \A m : Passed(m) = PassedOn(h, m, passed)
    BY DEF PassedOn
<1> HIDE DEF Passed
<1>4. ASSUME NEW m \in D, m \notin stop
      PROVE  next[m] \in D /\ rank[next[m]] < rank[m]
    BY <1>3, <1>4, RanksStep
<1>5. \A m \in D : m \in stop <=> h[m].leaf
    OBVIOUS
<1>6. \A m \in D : /\ base[m] = Slot(m, PassedOn(h, m, passed))
                   /\ next[m] = Child(h, m, PassedOn(h, m, passed))
    BY <1>3
<1>7. lv[top] + 1 \in Nat /\ Ranked(rank, D, lv[top] + 1)
    BY LevelsRank
<1> HIDE DEF stop, base, next, rank
<1>8. \A m \in D : w[m] = IF m \in stop THEN base[m] ELSE w[next[m]]
    BY <1>1, <1>4, <1>7, WalkSteps
<1>9. ASSUME NEW n \in D
      PROVE  Descend(h, n, passed) =
              IF h[n].leaf THEN Slot(n, PassedOn(h, n, passed))
              ELSE Descend(h, Child(h, n, PassedOn(h, n, passed)), passed)
    <2>1. CASE h[n].leaf
        BY <1>2, <1>5, <1>6, <1>8, <2>1
    <2>2. CASE ~h[n].leaf
        <3>1. Child(h, n, PassedOn(h, n, passed)) \in D
            BY <2>2, RanksStep
        <3>2. Descend(h, Child(h, n, PassedOn(h, n, passed)), passed)
                 = w[Child(h, n, PassedOn(h, n, passed))]
            BY <1>2, <3>1
        <3>3. Descend(h, n, passed) = w[n]
            BY <1>2
        <3>4. QED
            BY <1>5, <1>6, <1>8, <2>2, <3>2, <3>3
    <2>3. QED
        BY <2>1, <2>2
<1>10. QED
    BY <1>9

(***************************************************************************)
(* The walks and the numbers                                               *)
(***************************************************************************)

\* The first leaf below a node starts where the node does, the last one ends
\* where it does.
LEMMA LeafRanges ==
    ASSUME NEW h, NEW top, NEW lv, NEW S, Tree(h, top, lv, S),
           NEW lo, NEW hi, NEW C, Holds(h, top, lo, hi, C)
    PROVE  \A n \in DOMAIN h :
              /\ LeafOf(h, FirstLeaf(h, n)) /\ lo[FirstLeaf(h, n)] = lo[n]
              /\ LeafOf(h, LastLeaf(h, n)) /\ hi[LastLeaf(h, n)] = hi[n]
<1> DEFINE D == DOMAIN h
           rank == UpRank(h, lv)
           P == {m \in D : lo[FirstLeaf(h, m)] = lo[m] /\ hi[LastLeaf(h, m)] = hi[m]}
<1>1. ASSUME NEW m \in D, \A e \in D : rank[e] < rank[m] => e \in P
      PROVE  m \in P
    <2>1. /\ FirstLeaf(h, m) =
                IF h[m].leaf THEN m ELSE FirstLeaf(h, Child(h, m, 0))
          /\ LastLeaf(h, m) =
                IF h[m].leaf THEN m ELSE LastLeaf(h, Child(h, m, Count(h, m)))
        BY FirstLeafSteps, LastLeafSteps
    <2>2. CASE h[m].leaf
        BY <2>1, <2>2
    <2>3. CASE ~h[m].leaf
        <3>1. /\ lo[Child(h, m, 0)] = lo[m]
              /\ hi[Child(h, m, Count(h, m))] = hi[m]
            BY <2>3 DEF Holds, InOrder
        <3>2. Child(h, m, 0) \in P /\ Child(h, m, Count(h, m)) \in P
            <4>1. /\ Child(h, m, 0) \in D /\ Child(h, m, Count(h, m)) \in D
                  /\ rank[Child(h, m, 0)] < rank[m]
                  /\ rank[Child(h, m, Count(h, m))] < rank[m]
                BY <2>3, RanksStep
            <4>2. QED
                BY <1>1, <4>1
        <3>3. QED
            BY <2>1, <2>3, <3>1, <3>2
    <2>4. QED
        BY <2>2, <2>3
<1>2. lv[top] + 1 \in Nat /\ Ranked(rank, D, lv[top] + 1)
    BY LevelsRank
<1> HIDE DEF P, rank
<1>3. D \subseteq P
    BY <1>1, <1>2, RankInduction
<1>4. QED
    BY <1>3, FirstLeafIs, LastLeafIs DEF P

\* The place s has the number x.
HasNumber(h, lo, hi, s, x) == s \in Places(h) /\ Number(h, lo, hi, s) = x

\* What comes after a node has the number where it ends.
LEMMA AfterNumber ==
    ASSUME NEW h, NEW top, NEW lv, NEW S, Tree(h, top, lv, S),
           NEW lo, NEW hi, NEW C, Holds(h, top, lo, hi, C)
    PROVE  \A n \in DOMAIN h :
              IF hi[n] = Len(C) THEN After(h, n) = NoSlot
              ELSE HasNumber(h, lo, hi, After(h, n), hi[n])
<1> DEFINE D == DOMAIN h
           rank == DownRank(h, top, lv)
           Good(m) == IF hi[m] = Len(C) THEN After(h, m) = NoSlot
                      ELSE HasNumber(h, lo, hi, After(h, m), hi[m])
           P == {m \in D : Good(m)}
<1>1. ASSUME NEW m \in D, \A e \in D : rank[e] < rank[m] => e \in P
      PROVE  m \in P
    <2>1. After(h, m) = IF m = top THEN NoSlot
                        ELSE IF HasRight(h, m) THEN Slot(h[m].parent, h[m].position)
                        ELSE After(h, h[m].parent)
        BY AfterSteps
    <2>2. CASE m = top
        <3>1. hi[m] = Len(C)
            BY <2>2 DEF Holds
        <3>2. QED
            BY <2>1, <2>2, <3>1
    <2>3. CASE m # top
        <3>1. PICK p \in D : p = h[m].parent /\ ~h[p].leaf
                  /\ h[m].position \in 0..Count(h, p)
                  /\ Child(h, p, h[m].position) = m
                  /\ rank[p] < rank[m] /\ Count(h, p) \in Nat
            BY <2>3, ParentIs, RanksStep
        <3>2. PICK i \in 0..Count(h, p) : i = h[m].position
            BY <3>1
        <3>3. CASE HasRight(h, m)
            <4>1. i < Count(h, p) /\ i \in Nat
                BY <3>1, <3>2, <3>3 DEF HasRight
            <4>2. Slot(p, i) \in Places(h)
                BY <4>1, PlacesAre
            <4>3. Number(h, lo, hi, Slot(p, i)) = hi[m]
                BY <3>1, <3>2, SlotIs DEF Number
            <4>4. hi[m] # Len(C)
                BY <4>2, <4>3, NumberIn
            <4>5. After(h, m) = Slot(p, i)
                BY <2>1, <2>3, <3>1, <3>2, <3>3
            <4>6. QED
                BY <4>2, <4>3, <4>4, <4>5 DEF HasNumber
        <3>4. CASE ~HasRight(h, m)
            <4>1. i = Count(h, p)
                BY <3>1, <3>2, <3>4 DEF HasRight
            <4>2. hi[m] = hi[p]
                BY <3>1, <3>2, <4>1 DEF Holds, InOrder
            <4>3. After(h, m) = After(h, p)
                BY <2>1, <2>3, <3>1, <3>4
            <4>4. Good(p)
                BY <1>1, <3>1
            <4>5. QED
                BY <4>2, <4>3, <4>4
        <3>5. QED
            BY <3>3, <3>4
    <2>4. QED
        BY <2>2, <2>3
<1>2. lv[top] + 1 \in Nat /\ Ranked(rank, D, lv[top] + 1)
    BY LevelsRank
<1> HIDE DEF P, rank
<1>3. D \subseteq P
    BY <1>1, <1>2, RankInduction
<1>4. QED
    BY <1>3 DEF P

\* What comes before a node has the number before it starts.
LEMMA BeforeNumber ==
    ASSUME NEW h, NEW top, NEW lv, NEW S, Tree(h, top, lv, S),
           NEW lo, NEW hi, NEW C, Holds(h, top, lo, hi, C)
    PROVE  \A n \in DOMAIN h :
              IF lo[n] = 0 THEN Before(h, n) = NoSlot
              ELSE HasNumber(h, lo, hi, Before(h, n), lo[n] - 1)
<1> DEFINE D == DOMAIN h
           rank == DownRank(h, top, lv)
           Good(m) == IF lo[m] = 0 THEN Before(h, m) = NoSlot
                      ELSE HasNumber(h, lo, hi, Before(h, m), lo[m] - 1)
           P == {m \in D : Good(m)}
<1>1. ASSUME NEW m \in D, \A e \in D : rank[e] < rank[m] => e \in P
      PROVE  m \in P
    <2>1. Before(h, m) = IF m = top THEN NoSlot
                         ELSE IF HasLeft(h, m)
                         THEN Slot(h[m].parent, h[m].position - 1)
                         ELSE Before(h, h[m].parent)
        BY BeforeSteps
    <2>2. CASE m = top
        <3>1. lo[m] = 0
            BY <2>2 DEF Holds
        <3>2. QED
            BY <2>1, <2>2, <3>1
    <2>3. CASE m # top
        <3>1. PICK p \in D : p = h[m].parent /\ ~h[p].leaf
                  /\ h[m].position \in 0..Count(h, p)
                  /\ Child(h, p, h[m].position) = m
                  /\ rank[p] < rank[m] /\ Count(h, p) \in Nat
            BY <2>3, ParentIs, RanksStep
        <3>2. PICK i \in 0..Count(h, p) : i = h[m].position
            BY <3>1
        <3>3. CASE HasLeft(h, m)
            <4>1. i \in 1..Count(h, p)
                BY <3>1, <3>2, <3>3 DEF HasLeft
            <4>2. /\ lo[Child(h, p, i)] \in 1..Len(C)
                  /\ Slot(p, i - 1) \in Places(h)
                  /\ Number(h, lo, hi, Slot(p, i - 1)) = lo[Child(h, p, i)] - 1
                BY <3>1, <4>1, KidStarts
            <4>3. lo[m] # 0 /\ Number(h, lo, hi, Slot(p, i - 1)) = lo[m] - 1
                BY <3>1, <3>2, <4>2
            <4>4. Before(h, m) = Slot(p, i - 1)
                BY <2>1, <2>3, <3>1, <3>2, <3>3
            <4>5. QED
                BY <4>2, <4>3, <4>4 DEF HasNumber
        <3>4. CASE ~HasLeft(h, m)
            <4>1. i = 0
                BY <3>1, <3>2, <3>4 DEF HasLeft
            <4>2. lo[m] = lo[p]
                BY <3>1, <3>2, <4>1 DEF Holds, InOrder
            <4>3. Before(h, m) = Before(h, p)
                BY <2>1, <2>3, <3>1, <3>4
            <4>4. Good(p)
                BY <1>1, <3>1
            <4>5. QED
                BY <4>2, <4>3, <4>4
        <3>5. QED
            BY <3>3, <3>4
    <2>4. QED
        BY <2>2, <2>3
<1>2. lv[top] + 1 \in Nat /\ Ranked(rank, D, lv[top] + 1)
    BY LevelsRank
<1> HIDE DEF P, rank
<1>3. D \subseteq P
    BY <1>1, <1>2, RankInduction
<1>4. QED
    BY <1>3 DEF P

\* The end of the last leaf.
EndSlot(h, top) == Slot(LastLeaf(h, top), Count(h, LastLeaf(h, top)))

\* The leaf that ends where the contents end is the last one, and the one
\* that starts where they start is the first one.
LEMMA OuterLeaves ==
    ASSUME NEW h, NEW top, NEW lv, NEW S, Tree(h, top, lv, S),
           NEW lo, NEW hi, NEW C, Holds(h, top, lo, hi, C),
           NEW n \in DOMAIN h, h[n].leaf
    PROVE  /\ hi[n] = Len(C) <=> n = LastLeaf(h, top)
           /\ lo[n] = 0 <=> n = FirstLeaf(h, top)
<1>1. top \in DOMAIN h /\ lo[top] = 0 /\ hi[top] = Len(C) /\ Len(C) \in Nat
    BY DEF Holds, Tree
<1>2. /\ LeafOf(h, FirstLeaf(h, top)) /\ lo[FirstLeaf(h, top)] = 0
      /\ LeafOf(h, LastLeaf(h, top)) /\ hi[LastLeaf(h, top)] = Len(C)
    BY <1>1, LeafRanges
<1>3. PICK a \in DOMAIN h : a = FirstLeaf(h, top) /\ h[a].leaf
    BY <1>2 DEF LeafOf
<1>4. PICK b \in DOMAIN h : b = LastLeaf(h, top) /\ h[b].leaf
    BY <1>2 DEF LeafOf
<1>5. lv[n] = lv[a] /\ lv[n] = lv[b]
    BY <1>3, <1>4 DEF Tree, Sized
<1>6. \A m \in DOMAIN h : lo[m] \in Int /\ hi[m] \in Int /\ lo[m] <= hi[m]
    BY RangesAre
<1>7. ASSUME hi[n] = Len(C) PROVE n = b
    <2>1. hi[b] = hi[n] /\ lo[n] <= hi[n] /\ lo[b] <= hi[n] /\ hi[n] \in Int
          /\ hi[n] <= hi[n] /\ hi[n] <= hi[b]
        BY <1>2, <1>4, <1>6, <1>7
    <2>2. QED
        BY <1>5, <2>1, LevelDisjoint
<1>8. ASSUME lo[n] = 0 PROVE n = a
    <2>1. PICK x \in Int : x = lo[n]
        BY <1>6
    <2>2. lo[n] <= x /\ x <= hi[n] /\ lo[a] <= x /\ x <= hi[a]
        BY <1>2, <1>3, <1>6, <1>8, <2>1
    <2>3. \A m, e \in DOMAIN h, y \in Int :
             /\ lv[m] = lv[e] /\ lo[m] <= y /\ y <= hi[m]
             /\ lo[e] <= y /\ y <= hi[e]
             => m = e
        BY LevelDisjoint
    <2>4. QED
        BY <1>5, <2>2, <2>3
<1>9. QED
    BY <1>2, <1>3, <1>4, <1>7, <1>8

(***************************************************************************)
(* Iterators by their numbers                                              *)
(***************************************************************************)

\* s is the place with the number x, or the end if there are only x values.
Names(h, top, lo, hi, C, s, x) ==
    IF x = Len(C) THEN s = EndSlot(h, top) ELSE HasNumber(h, lo, hi, s, x)

\* The first place of a leaf has the number where the leaf starts, and the
\* last one that before where it ends.
LEMMA LeafEnds ==
    ASSUME NEW h, NEW top, NEW lv, NEW S, Tree(h, top, lv, S),
           NEW lo, NEW hi, NEW C, Holds(h, top, lo, hi, C),
           NEW n, LeafOf(h, n), Count(h, n) # 0
    PROVE  /\ HasNumber(h, lo, hi, Slot(n, 0), lo[n])
           /\ HasNumber(h, lo, hi, Slot(n, Count(h, n) - 1), hi[n] - 1)
           /\ lo[n] \in 0..(Len(C) - 1) /\ hi[n] \in 1..Len(C)
<1>1. n \in DOMAIN h /\ h[n].leaf /\ Count(h, n) \in Nat
    BY CountIs DEF LeafOf, Tree
<1>2. /\ lo[n] \in Int /\ hi[n] = lo[n] + Count(h, n)
    BY <1>1 DEF Holds, InOrder
<1>3. PICK j \in Nat : j = Count(h, n) - 1
    BY <1>1
<1>4. Slot(n, 0) \in Places(h) /\ Slot(n, j) \in Places(h)
    BY <1>1, <1>3, PlacesAre
<1>5. /\ Number(h, lo, hi, Slot(n, 0)) = lo[n]
      /\ Number(h, lo, hi, Slot(n, j)) = hi[n] - 1
    BY <1>1, <1>2, <1>3, SlotIs DEF Number
<1>6. 0 <= lo[n] /\ hi[n] <= Len(C) /\ Len(C) \in Nat
    BY <1>1, RangesInside DEF Holds
<1>7. QED
    BY <1>1, <1>2, <1>3, <1>4, <1>5, <1>6 DEF HasNumber

\* ++ leads from a place to the one with the next number, or to the end.
LEMMA IncrementNumber ==
    ASSUME NEW h, NEW top, NEW lv, NEW S, Tree(h, top, lv, S),
           NEW lo, NEW hi, NEW C, Holds(h, top, lo, hi, C),
           \A n \in DOMAIN h : Count(h, n) # 0,
           NEW s, NEW x \in Int, HasNumber(h, lo, hi, s, x)
    PROVE  Names(h, top, lo, hi, C, Increment(h, s), x + 1)
<1>1. s \in Places(h) /\ Number(h, lo, hi, s) = x
    BY DEF HasNumber
<1>2. PICK n \in DOMAIN h, i \in Nat : s = Slot(n, i) /\ i < Count(h, n)
    BY <1>1, PlaceOnNode
<1>3. s.node = n /\ s.position = i
    BY <1>2, SlotIs
<1>4. Count(h, n) \in Nat /\ h[n].leaf \in BOOLEAN
    BY CountIs, NodeIs DEF Tree
<1>5. x \in 0..(Len(C) - 1) /\ Len(C) \in Nat
    BY <1>1, NumberIn
<1>6. CASE ~h[n].leaf
    <2>1. PICK j \in 1..Count(h, n) : j = i + 1
        BY <1>2, <1>4
    <2>2. PICK c : c = Child(h, n, j)
        OBVIOUS
    <2>3. lo[c] = hi[Child(h, n, j - 1)] + 1
        BY <1>6, <2>1, <2>2, KidStarts
    <2>4. Child(h, n, j - 1) = Child(h, n, i)
        BY <2>1
    <2>5. lo[c] = x + 1
        BY <1>1, <1>3, <1>6, <2>3, <2>4 DEF Number
    <2>6. c \in DOMAIN h
        BY <1>4, <1>6, <2>1, <2>2, RanksStep
    <2>7. PICK f : f = FirstLeaf(h, c)
        OBVIOUS
    <2>8. LeafOf(h, f) /\ lo[f] = x + 1
        BY <2>5, <2>6, <2>7, LeafRanges
    <2>9. Count(h, f) # 0
        BY <2>8 DEF LeafOf
    <2>10. HasNumber(h, lo, hi, Slot(f, 0), x + 1) /\ x + 1 # Len(C)
        BY <1>5, <2>8, <2>9, LeafEnds
    <2>11. Increment(h, s) = Slot(f, 0)
        BY <1>3, <1>6, <2>1, <2>2, <2>7 DEF Increment
    <2>12. QED
        BY <2>10, <2>11 DEF Names
<1>7. CASE h[n].leaf /\ i + 1 < Count(h, n)
    <2>1. Increment(h, s) = Slot(n, i + 1)
        BY <1>3, <1>7 DEF Increment
    <2>2. Slot(n, i + 1) \in Places(h)
        BY <1>2, <1>4, <1>7, PlacesAre
    <2>3. /\ Number(h, lo, hi, Slot(n, i + 1)) = lo[n] + (i + 1)
          /\ x = lo[n] + i /\ lo[n] \in Int
        BY <1>1, <1>3, <1>7, SlotIs DEF Number, Holds, InOrder
    <2>4. Number(h, lo, hi, Slot(n, i + 1)) = x + 1
        BY <2>3
    <2>5. x + 1 # Len(C)
        BY <2>2, <2>4, NumberIn
    <2>6. QED
        BY <2>1, <2>2, <2>4, <2>5 DEF Names, HasNumber
<1>8. CASE h[n].leaf /\ ~(i + 1 < Count(h, n))
    <2>1. i + 1 = Count(h, n)
        BY <1>2, <1>4, <1>8
    <2>2. Increment(h, s) = OrStay(After(h, n), Slot(n, Count(h, n)))
        BY <1>3, <1>8 DEF Increment
    <2>3. /\ hi[n] = lo[n] + Count(h, n) /\ x = lo[n] + i /\ lo[n] \in Int
        BY <1>1, <1>3, <1>8, SlotIs DEF Number, Holds, InOrder
    <2>4. hi[n] = x + 1
        BY <2>1, <2>3
    <2>5. IF x + 1 = Len(C) THEN After(h, n) = NoSlot
          ELSE HasNumber(h, lo, hi, After(h, n), x + 1)
        BY <2>4, AfterNumber
    <2>6. CASE x + 1 = Len(C)
        <3>1. n = LastLeaf(h, top)
            BY <1>8, <2>4, <2>6, OuterLeaves
        <3>2. Increment(h, s) = Slot(n, Count(h, n))
            BY <2>2, <2>5, <2>6 DEF OrStay
        <3>3. QED
            BY <2>6, <3>1, <3>2 DEF Names, EndSlot
    <2>7. CASE x + 1 # Len(C)
        <3>1. After(h, n) \in Places(h)
            BY <2>5, <2>7 DEF HasNumber
        <3>2. After(h, n).node \in DOMAIN h
            BY <3>1, PlaceOnNode
        <3>3. After(h, n) # NoSlot
            BY <3>2, NodeIs, SlotIs DEF NoSlot, Tree
        <3>4. Increment(h, s) = After(h, n)
            BY <2>2, <3>3 DEF OrStay
        <3>5. QED
            BY <2>5, <2>7, <3>4 DEF Names
    <2>8. QED
        BY <2>6, <2>7
<1>9. QED
    BY <1>6, <1>7, <1>8

\* The end is behind the last value, on the last leaf.
LEMMA EndNumber ==
    ASSUME NEW h, NEW top, NEW lv, NEW S, Tree(h, top, lv, S),
           NEW lo, NEW hi, NEW C, Holds(h, top, lo, hi, C)
    PROVE  \E n \in DOMAIN h : /\ EndSlot(h, top) = Slot(n, Count(h, n))
                               /\ h[n].leaf /\ Count(h, n) \in Nat
                               /\ lo[n] \in Int /\ hi[n] = Len(C)
                               /\ lo[n] + Count(h, n) = Len(C)
<1>1. top \in DOMAIN h /\ hi[top] = Len(C)
    BY DEF Tree, Holds
<1>2. LeafOf(h, LastLeaf(h, top)) /\ hi[LastLeaf(h, top)] = Len(C)
    BY <1>1, LeafRanges
<1>3. PICK n \in DOMAIN h : n = LastLeaf(h, top) /\ h[n].leaf
    BY <1>2 DEF LeafOf
<1>4. lo[n] \in Int /\ hi[n] = lo[n] + Count(h, n)
    BY <1>3 DEF Holds, InOrder
<1>5. Count(h, n) \in Nat
    BY CountIs DEF Tree
<1>6. QED
    BY <1>2, <1>3, <1>4, <1>5 DEF EndSlot

\* -- leads from a place or from the end to the place with the number before.
LEMMA DecrementNumber ==
    ASSUME NEW h, NEW top, NEW lv, NEW S, Tree(h, top, lv, S),
           NEW lo, NEW hi, NEW C, Holds(h, top, lo, hi, C),
           \A n \in DOMAIN h : Count(h, n) # 0,
           NEW s, NEW x \in Int, x > 0, Names(h, top, lo, hi, C, s, x)
    PROVE  HasNumber(h, lo, hi, Decrement(h, s), x - 1)
<1>1. CASE x = Len(C)
    <2>1. PICK n \in DOMAIN h : /\ EndSlot(h, top) = Slot(n, Count(h, n))
                               /\ h[n].leaf /\ Count(h, n) \in Nat
                               /\ lo[n] \in Int /\ hi[n] = Len(C)
        BY EndNumber
    <2>2. s = Slot(n, Count(h, n)) /\ s.node = n /\ s.position = Count(h, n)
        BY <1>1, <2>1, SlotIs DEF Names
    <2>3. Decrement(h, s) = Slot(n, Count(h, n) - 1)
        BY <2>1, <2>2 DEF Decrement
    <2>4. QED
        BY <1>1, <2>1, <2>3, LeafEnds DEF LeafOf
<1>2. CASE x # Len(C)
    <2>1. s \in Places(h) /\ Number(h, lo, hi, s) = x
        BY <1>2 DEF Names, HasNumber
    <2>2. PICK n \in DOMAIN h, i \in Nat : s = Slot(n, i) /\ i < Count(h, n)
        BY <2>1, PlaceOnNode
    <2>3. s.node = n /\ s.position = i
        BY <2>2, SlotIs
    <2>4. Count(h, n) \in Nat /\ h[n].leaf \in BOOLEAN
        BY CountIs, NodeIs DEF Tree
    <2>5. CASE ~h[n].leaf
        <3>1. PICK j \in 0..Count(h, n) : j = i
            BY <2>2, <2>4
        <3>2. PICK c : c = Child(h, n, i)
            OBVIOUS
        <3>3. c \in DOMAIN h /\ hi[c] = x
            BY <2>1, <2>3, <2>5, <3>1, <3>2, RanksStep DEF Number
        <3>4. PICK f : f = LastLeaf(h, c)
            OBVIOUS
        <3>5. LeafOf(h, f) /\ hi[f] = x
            BY <3>3, <3>4, LeafRanges
        <3>6. Count(h, f) # 0
            BY <3>5 DEF LeafOf
        <3>7. HasNumber(h, lo, hi, Slot(f, Count(h, f) - 1), x - 1)
            BY <3>5, <3>6, LeafEnds
        <3>8. Decrement(h, s) = Slot(f, Count(h, f) - 1)
            BY <2>3, <2>5, <3>2, <3>4 DEF Decrement
        <3>9. QED
            BY <3>7, <3>8
    <2>6. CASE h[n].leaf /\ i > 0
        <3>1. PICK j \in Nat : j = i - 1
            BY <2>6
        <3>2. Decrement(h, s) = Slot(n, j)
            BY <2>3, <2>6, <3>1 DEF Decrement
        <3>3. Slot(n, j) \in Places(h)
            BY <2>2, <2>4, <3>1, PlacesAre
        <3>4. /\ Number(h, lo, hi, Slot(n, j)) = lo[n] + j
              /\ x = lo[n] + i /\ lo[n] \in Int
            BY <2>1, <2>3, <2>6, SlotIs DEF Number, Holds, InOrder
        <3>5. Number(h, lo, hi, Slot(n, j)) = x - 1
            BY <3>1, <3>4
        <3>6. QED
            BY <3>2, <3>3, <3>5 DEF HasNumber
    <2>7. CASE h[n].leaf /\ ~(i > 0)
        <3>1. i = 0 /\ x = lo[n] + i /\ lo[n] \in Int
            BY <2>1, <2>3, <2>7, SlotIs DEF Number, Holds, InOrder
        <3>2. Decrement(h, s) = OrStay(Before(h, n), Slot(n, -1))
            BY <2>3, <2>7, <3>1 DEF Decrement
        <3>3. HasNumber(h, lo, hi, Before(h, n), x - 1)
            BY <3>1, BeforeNumber
        <3>4. Before(h, n) \in Places(h)
            BY <3>3 DEF HasNumber
        <3>5. Before(h, n).node \in DOMAIN h
            BY <3>4, PlaceOnNode
        <3>6. Before(h, n) # NoSlot
            BY <3>5, NodeIs, SlotIs DEF NoSlot, Tree
        <3>7. Decrement(h, s) = Before(h, n)
            BY <3>2, <3>6 DEF OrStay
        <3>8. QED
            BY <3>3, <3>7
    <2>8. QED
        BY <2>4, <2>5, <2>6, <2>7
<1>3. QED
    BY <1>1, <1>2

(***************************************************************************)
(* Searches by numbers                                                     *)
(***************************************************************************)

\* As many numbers as those up to p.
LEMMA FirstOnes ==
    ASSUME NEW p \in Nat, NEW T, \A i : i \in T <=> i \in 1..p
    PROVE  Cardinality(T) = p
<1>1. T = 1..p
    OBVIOUS
<1>2. Cardinality(1..p) = p
    BY FS_Interval
<1>3. QED
    BY <1>1, <1>2

\* Of the values of a node none or some of the first ones are passed.
PassesFirst(h, n, passed, p) ==
    /\ p \in 0..Count(h, n)
    /\ \A i \in 1..Count(h, n) : h[n].values[i] \in passed <=> i <= p

LEMMA PassedIs ==
    ASSUME NEW h, Heap(h), NEW n \in DOMAIN h, NEW passed, NEW p,
           PassesFirst(h, n, passed, p)
    PROVE  PassedOn(h, n, passed) = p
<1>1. Count(h, n) \in Nat /\ DOMAIN h[n].values = 1..Count(h, n)
    BY NodeIs, CountIs
<1> DEFINE T == {i \in DOMAIN h[n].values : h[n].values[i] \in passed}
<1>2. p \in Nat /\ p <= Count(h, n)
    BY <1>1 DEF PassesFirst
<1>3. ASSUME NEW i PROVE i \in T <=> i \in 1..p
    <2>1. CASE i \in 1..Count(h, n)
        BY <1>1, <1>2, <2>1 DEF PassesFirst
    <2>2. CASE i \notin 1..Count(h, n)
        BY <1>1, <1>2, <2>2
    <2>3. QED
        BY <2>1, <2>2
<1> HIDE DEF T
<1>4. Cardinality(T) = p
    BY <1>2, <1>3, FirstOnes
<1>5. QED
    BY <1>4 DEF T, PassedOn

\* The first numbers that are passed: those of a set that has with a number all
\* smaller ones.
LEMMA PassedUpTo ==
    ASSUME NEW L \in Nat, NEW Q,
           \A i, j \in 1..L : i < j /\ j \in Q => i \in Q
    PROVE  \E p \in 0..L : \A i \in 1..L : i \in Q <=> i <= p
<1> DEFINE T == {i \in 1..L : i \notin Q}
<1>1. CASE T = {}
    <2>1. \A i \in 1..L : i \in Q <=> i <= L
        BY <1>1
    <2>2. QED
        BY <2>1
<1>2. CASE T # {}
    <2>1. PICK x \in T : \A y \in T : x <= y
        <3>1. T \subseteq Nat
            OBVIOUS
        <3> HIDE DEF T
        <3>2. QED
            BY <1>2, <3>1, LeastNumber
    <2>2. x - 1 \in 0..L
        BY <2>1
    <2>3. ASSUME NEW i \in 1..L PROVE i \in Q <=> i <= x - 1
        <3>1. CASE i < x
            BY <2>1, <3>1
        <3>2. CASE ~(i < x)
            <4>1. x \in 1..L /\ x \notin Q /\ (x < i \/ x = i)
                BY <2>1, <3>2
            <4>2. QED
                BY <4>1, <3>2
        <3>3. QED
            BY <3>1, <3>2
    <2>4. QED
        BY <2>2, <2>3
<1>3. QED
    BY <1>1, <1>2

\* Of the contents C the first g are passed.
Cut(C, passed, g) ==
    /\ g \in 0..Len(C)
    /\ \A j \in 1..Len(C) : C[j] \in passed <=> j <= g

\* The number where a leaf place is.
Gap(lo, s) == lo[s.node] + s.position

\* A node with the number g in its range passes its first values.
LEMMA NodePasses ==
    ASSUME NEW h, NEW top, NEW lv, NEW S, Tree(h, top, lv, S),
           NEW lo, NEW hi, NEW C, Holds(h, top, lo, hi, C),
           NEW passed, NEW g, Cut(C, passed, g), NEW n \in DOMAIN h
    PROVE  \E p : /\ PassesFirst(h, n, passed, p)
                  /\ lo[n] <= g /\ g <= hi[n] /\ h[n].leaf => p = g - lo[n]
                  /\ lo[n] <= g /\ g <= hi[n] /\ ~h[n].leaf =>
                        lo[Child(h, n, p)] <= g /\ g <= hi[Child(h, n, p)]
<1>1. Count(h, n) \in Nat /\ h[n].leaf \in BOOLEAN
    BY CountIs, NodeIs DEF Tree
<1>2. PICK N \in Nat : N = Count(h, n)
    BY <1>1
<1>3. PICK L \in Nat : L = Len(C)
    BY DEF Holds
<1>4. g \in 0..L /\ g \in Int /\ \A j \in 1..L : C[j] \in passed <=> j <= g
    BY <1>3 DEF Cut
<1>5. lo[n] \in Int /\ hi[n] \in Int /\ 0 <= lo[n] /\ hi[n] <= L
    BY <1>3, RangesAre, RangesInside
<1>6. CASE h[n].leaf
    <2>1. hi[n] = lo[n] + N /\ \A i \in 1..N : h[n].values[i] = C[lo[n] + i]
        BY <1>2, <1>6 DEF Holds, InOrder
    <2>2. \A i \in 1..N : h[n].values[i] \in passed <=> lo[n] + i <= g
        <3>1. ASSUME NEW i \in 1..N
              PROVE  h[n].values[i] \in passed <=> lo[n] + i <= g
            <4>1. PICK j \in 1..L : j = lo[n] + i
                BY <1>5, <2>1
            <4>2. C[j] \in passed <=> j <= g
                BY <1>4
            <4>3. h[n].values[i] = C[j]
                BY <2>1, <4>1
            <4>4. QED
                BY <4>1, <4>2, <4>3
        <3>2. QED
            BY <3>1
    <2>3. PICK q \in Int : q = g - lo[n]
        BY <1>4, <1>5
    <2>4. PICK p : p = IF q < 0 THEN 0 ELSE IF q > N THEN N ELSE q
        OBVIOUS
    <2>5. p \in 0..N
        BY <2>3, <2>4
    <2>6. \A i \in 1..N : lo[n] + i <= g <=> i <= p
        BY <1>4, <1>5, <2>3, <2>4
    <2>7. PassesFirst(h, n, passed, p)
        BY <1>2, <2>2, <2>5, <2>6 DEF PassesFirst
    <2>8. lo[n] <= g /\ g <= hi[n] => p = g - lo[n]
        BY <1>4, <1>5, <2>1, <2>3, <2>4
    <2>9. QED
        BY <1>6, <2>7, <2>8
<1>7. CASE ~h[n].leaf
    <2>1. ChildrenInside(h, n, lo, hi)
        BY <1>7, InsideParent
    <2>2. /\ \A i, j \in 0..N :
                i < j => hi[Child(h, n, i)] < lo[Child(h, n, j)]
          /\ \A i \in 0..N : /\ lo[Child(h, n, i)] \in Int
                             /\ hi[Child(h, n, i)] \in Int
                             /\ lo[Child(h, n, i)] <= hi[Child(h, n, i)]
        BY <1>2, <2>1 DEF ChildrenInside
    <2>3. /\ lo[Child(h, n, 0)] = lo[n] /\ hi[Child(h, n, N)] = hi[n]
          /\ \A i \in 1..N : /\ lo[Child(h, n, i)] = hi[Child(h, n, i - 1)] + 1
                             /\ h[n].values[i] = C[lo[Child(h, n, i)]]
        BY <1>2, <1>7 DEF Holds, InOrder
    <2> DEFINE Q == {i \in 1..N : lo[Child(h, n, i)] <= g}
    <2>4. ASSUME NEW i \in 1..N
          PROVE  h[n].values[i] \in passed <=> lo[Child(h, n, i)] <= g
        <3>1. lo[Child(h, n, i)] \in 1..L
            BY <1>2, <1>3, <1>7, KidStarts
        <3>2. PICK j \in 1..L : j = lo[Child(h, n, i)]
            BY <3>1
        <3>3. C[j] \in passed <=> j <= g
            BY <1>4
        <3>4. h[n].values[i] = C[j]
            BY <2>3, <3>2
        <3>5. QED
            BY <3>2, <3>3, <3>4
    <2>5. \A i, j \in 1..N : i < j /\ j \in Q => i \in Q
        <3>1. ASSUME NEW i \in 1..N, NEW j \in 1..N, i < j, j \in Q
              PROVE  i \in Q
            <4>1. i \in 0..N /\ j \in 0..N
                OBVIOUS
            <4>2. /\ hi[Child(h, n, i)] < lo[Child(h, n, j)]
                  /\ lo[Child(h, n, i)] <= hi[Child(h, n, i)]
                  /\ lo[Child(h, n, i)] \in Int /\ hi[Child(h, n, i)] \in Int
                  /\ lo[Child(h, n, j)] \in Int
                BY <2>2, <3>1, <4>1
            <4>3. QED
                BY <1>4, <3>1, <4>2
        <3>2. QED
            BY <3>1
    <2> HIDE DEF Q
    <2>6. PICK p \in 0..N : \A i \in 1..N : i \in Q <=> i <= p
        BY <2>5, PassedUpTo
    <2>7. \A i \in 1..N : lo[Child(h, n, i)] <= g <=> i <= p
        BY <2>6 DEF Q
    <2>8. PassesFirst(h, n, passed, p)
        BY <1>2, <2>4, <2>7 DEF PassesFirst
    <2>9. ASSUME lo[n] <= g, g <= hi[n]
          PROVE  lo[Child(h, n, p)] <= g /\ g <= hi[Child(h, n, p)]
        <3>1. lo[Child(h, n, p)] <= g
            <4>1. CASE p = 0
                BY <2>3, <2>9, <4>1
            <4>2. CASE p # 0
                <5>1. p \in 1..N
                    BY <4>2
                <5>2. QED
                    BY <2>7, <5>1
            <4>3. QED
                BY <4>1, <4>2
        <3>2. g <= hi[Child(h, n, p)]
            <4>1. CASE p = N
                BY <2>3, <2>9, <4>1
            <4>2. CASE p # N
                <5>1. PICK j \in 1..N : j = p + 1
                    BY <4>2
                <5>2. lo[Child(h, n, j)] = hi[Child(h, n, j - 1)] + 1 /\ j - 1 = p
                    BY <2>3, <5>1
                <5>3. ~(lo[Child(h, n, j)] <= g)
                    BY <2>7, <5>1
                <5>4. hi[Child(h, n, p)] \in Int
                    BY <2>2
                <5>5. QED
                    BY <1>4, <5>2, <5>3, <5>4
            <4>3. QED
                BY <4>1, <4>2
        <3>3. QED
            BY <3>1, <3>2
    <2>10. QED
        BY <1>7, <2>8, <2>9
<1>8. QED
    BY <1>1, <1>6, <1>7

\* The search ends at the leaf place with the number of values passed.
LEMMA DescendNumber ==
    ASSUME NEW h, NEW top, NEW lv, NEW S, Tree(h, top, lv, S),
           NEW lo, NEW hi, NEW C, Holds(h, top, lo, hi, C),
           NEW passed, NEW g, Cut(C, passed, g)
    PROVE  /\ LeafPlaceOf(h, Descend(h, top, passed))
           /\ Gap(lo, Descend(h, top, passed)) = g
<1> DEFINE D == DOMAIN h
           rank == UpRank(h, lv)
           P == {m \in D : lo[m] <= g /\ g <= hi[m] =>
                              Gap(lo, Descend(h, m, passed)) = g}
<1>1. \A n \in D : PassedOn(h, n, passed) \in 0..Count(h, n)
    <2>1. ASSUME NEW n \in D PROVE PassedOn(h, n, passed) \in 0..Count(h, n)
        <3>1. PICK p : PassesFirst(h, n, passed, p)
            BY NodePasses
        <3>2. PassedOn(h, n, passed) = p
            BY <3>1, PassedIs DEF Tree
        <3>3. QED
            BY <3>1, <3>2 DEF PassesFirst
    <2>2. QED
        BY <2>1
<1>2. \A n \in D : Descend(h, n, passed) =
         IF h[n].leaf THEN Slot(n, PassedOn(h, n, passed))
         ELSE Descend(h, Child(h, n, PassedOn(h, n, passed)), passed)
    BY <1>1, DescendSteps
<1>3. g \in Int
    BY DEF Cut, Holds
<1>4. ASSUME NEW m \in D, \A e \in D : rank[e] < rank[m] => e \in P
      PROVE  m \in P
    <2>1. SUFFICES ASSUME lo[m] <= g, g <= hi[m]
                   PROVE  Gap(lo, Descend(h, m, passed)) = g
        OBVIOUS
    <2>2. PICK p : /\ PassesFirst(h, m, passed, p)
                   /\ lo[m] <= g /\ g <= hi[m] /\ h[m].leaf => p = g - lo[m]
                   /\ lo[m] <= g /\ g <= hi[m] /\ ~h[m].leaf =>
                        lo[Child(h, m, p)] <= g /\ g <= hi[Child(h, m, p)]
        BY NodePasses
    <2>3. PassedOn(h, m, passed) = p /\ p \in 0..Count(h, m)
        BY <2>2, PassedIs DEF Tree, PassesFirst
    <2>4. CASE h[m].leaf
        <3>1. Descend(h, m, passed) = Slot(m, p) /\ p = g - lo[m]
            BY <1>2, <2>1, <2>2, <2>3, <2>4
        <3>2. lo[m] \in Int
            BY RangesAre
        <3>3. QED
            BY <1>3, <3>1, <3>2, SlotIs DEF Gap
    <2>5. CASE ~h[m].leaf
        <3>1. PICK c : c = Child(h, m, p)
            OBVIOUS
        <3>2. c \in D /\ rank[c] < rank[m]
            BY <2>3, <2>5, <3>1, RanksStep
        <3>3. c \in P /\ lo[c] <= g /\ g <= hi[c]
            BY <1>4, <2>1, <2>2, <2>5, <3>1, <3>2
        <3>4. Descend(h, m, passed) = Descend(h, c, passed)
            BY <1>2, <2>3, <2>5, <3>1
        <3>5. QED
            BY <3>3, <3>4
    <2>6. QED
        BY <2>4, <2>5
<1>5. lv[top] + 1 \in Nat /\ Ranked(rank, D, lv[top] + 1)
    BY LevelsRank
<1>6. top \in D /\ lo[top] <= g /\ g <= hi[top]
    <2>1. top \in D /\ lo[top] = 0 /\ hi[top] = Len(C) /\ Len(C) \in Nat
        BY DEF Tree, Holds
    <2>2. QED
        BY <2>1 DEF Cut
<1> HIDE DEF P, rank
<1>7. D \subseteq P
    BY <1>4, <1>5, RankInduction
<1>8. Gap(lo, Descend(h, top, passed)) = g
    BY <1>6, <1>7 DEF P
<1>9. QED
    BY <1>6, <1>8, DescendIs

\* A place on a leaf has the number of the values before it.
LEMMA GapIs ==
    ASSUME NEW h, NEW top, NEW lv, NEW S, Tree(h, top, lv, S),
           NEW lo, NEW hi, NEW C, Holds(h, top, lo, hi, C),
           NEW s, LeafPlaceOf(h, s)
    PROVE  /\ Gap(lo, s) \in 0..Len(C)
           /\ s.position < Count(h, s.node) =>
                 Gap(lo, s) # Len(C) /\ HasNumber(h, lo, hi, s, Gap(lo, s))
           /\ s.position = Count(h, s.node) => Gap(lo, s) = hi[s.node]
           /\ s.position = Count(h, s.node) /\ Gap(lo, s) = Len(C) =>
                 s = EndSlot(h, top)
<1>1. PICK n \in DOMAIN h, i \in Nat : s = Slot(n, i) /\ h[n].leaf
                                       /\ i <= Count(h, n)
    BY DEF LeafPlaceOf
<1>2. s.node = n /\ s.position = i /\ Gap(lo, s) = lo[n] + i
    BY <1>1, SlotIs DEF Gap
<1>3. Count(h, n) \in Nat /\ Len(C) \in Nat
    BY CountIs DEF Tree, Holds
<1>4. lo[n] \in Int /\ hi[n] = lo[n] + Count(h, n)
    BY <1>1 DEF Holds, InOrder
<1>5. 0 <= lo[n] /\ hi[n] <= Len(C)
    BY RangesInside
<1>6. Gap(lo, s) \in 0..Len(C)
    BY <1>1, <1>2, <1>3, <1>4, <1>5
<1>7. ASSUME i < Count(h, n)
      PROVE  Gap(lo, s) # Len(C) /\ HasNumber(h, lo, hi, s, Gap(lo, s))
    <2>1. s \in Places(h)
        BY <1>1, <1>7, PlacesAre
    <2>2. Number(h, lo, hi, s) = Gap(lo, s)
        BY <1>1, <1>2 DEF Number
    <2>3. QED
        BY <2>1, <2>2, NumberIn DEF HasNumber
<1>8. ASSUME i = Count(h, n), Gap(lo, s) = Len(C) PROVE s = EndSlot(h, top)
    <2>1. hi[n] = Len(C)
        BY <1>2, <1>4, <1>8
    <2>2. n = LastLeaf(h, top)
        BY <1>1, <2>1, OuterLeaves
    <2>3. QED
        BY <1>1, <1>8, <2>2 DEF EndSlot
<1>9. QED
    BY <1>2, <1>4, <1>6, <1>7, <1>8

\* From a place behind the last value of a leaf a search goes on to the value
\* with the same number, if there is one.
LEMMA LastNumber ==
    ASSUME NEW h, NEW top, NEW lv, NEW S, Tree(h, top, lv, S),
           NEW lo, NEW hi, NEW C, Holds(h, top, lo, hi, C),
           NEW s, LeafPlaceOf(h, s)
    PROVE  IF Gap(lo, s) = Len(C) THEN InternalLast(h, s) = NoSlot
           ELSE HasNumber(h, lo, hi, InternalLast(h, s), Gap(lo, s))
<1>1. PICK n \in DOMAIN h, i \in Nat : s = Slot(n, i) /\ h[n].leaf
                                       /\ i <= Count(h, n)
    BY DEF LeafPlaceOf
<1>2. s.node = n /\ s.position = i /\ n # NoNode /\ Count(h, n) \in Nat
    BY <1>1, SlotIs, NodeIs, CountIs DEF Tree
<1>3. CASE i = Count(h, n)
    <2>1. InternalLast(h, s) = After(h, n)
        BY <1>2, <1>3 DEF InternalLast
    <2>2. Gap(lo, s) = hi[n]
        BY <1>2, <1>3, GapIs
    <2>3. QED
        BY <2>1, <2>2, AfterNumber
<1>4. CASE i # Count(h, n)
    <2>1. InternalLast(h, s) = s /\ i < Count(h, n)
        BY <1>1, <1>2, <1>4 DEF InternalLast
    <2>2. QED
        BY <1>2, <2>1, GapIs
<1>5. QED
    BY <1>3, <1>4

\* A name stands for one number, and a number for one iterator.
LEMMA NamesOnce ==
    ASSUME NEW h, NEW top, NEW lv, NEW S, Tree(h, top, lv, S),
           NEW lo, NEW hi, NEW C, Holds(h, top, lo, hi, C)
    PROVE  /\ \A s, t, x : Names(h, top, lo, hi, C, s, x)
                              /\ Names(h, top, lo, hi, C, t, x) => s = t
           /\ \A s, x, y : Names(h, top, lo, hi, C, s, x)
                              /\ Names(h, top, lo, hi, C, s, y) => x = y
           /\ EndSlot(h, top) \notin Places(h)
<1>1. EndSlot(h, top) \notin Places(h)
    <2>1. PICK n \in DOMAIN h : /\ EndSlot(h, top) = Slot(n, Count(h, n))
                                /\ Count(h, n) \in Nat
        BY EndNumber
    <2>2. QED
        BY <2>1, PlacesAre
<1>2. ASSUME NEW s, NEW t, NEW x, Names(h, top, lo, hi, C, s, x),
             Names(h, top, lo, hi, C, t, x)
      PROVE  s = t
    <2>1. CASE x = Len(C)
        BY <1>2, <2>1 DEF Names
    <2>2. CASE x # Len(C)
        <3>1. /\ s \in Places(h) /\ t \in Places(h)
              /\ Number(h, lo, hi, s) = Number(h, lo, hi, t)
            BY <1>2, <2>2 DEF Names, HasNumber
        <3>2. QED
            BY <3>1, NumberNames
    <2>3. QED
        BY <2>1, <2>2
<1>3. ASSUME NEW s, NEW x, NEW y, Names(h, top, lo, hi, C, s, x),
             Names(h, top, lo, hi, C, s, y)
      PROVE  x = y
    <2>1. CASE s \in Places(h)
        BY <1>1, <1>3, <2>1 DEF Names, HasNumber
    <2>2. CASE s \notin Places(h)
        <3>1. ~HasNumber(h, lo, hi, s, x) /\ ~HasNumber(h, lo, hi, s, y)
            BY ONLY <2>2 DEF HasNumber
        <3>2. x = Len(C) /\ y = Len(C)
            BY ONLY <1>3, <3>1 DEF Names
        <3>3. QED
            BY ONLY <3>2
    <2>3. QED
        BY <2>1, <2>2
<1>4. QED
    BY <1>1, <1>2, <1>3

\* The walk over all places has the iterators in the order of their numbers.
LEMMA NamesInOrder ==
    ASSUME NEW h, NEW top, NEW lv, NEW S, Tree(h, top, lv, S),
           NEW lo, NEW hi, NEW C, Holds(h, top, lo, hi, C),
           NEW slots, slots = Slots(h, top), NEW s, NEW x \in 0..Len(C),
           Names(h, top, lo, hi, C, s, x)
    PROVE  /\ DOMAIN slots = 1..Len(C) /\ Len(slots) = Len(C)
           /\ x < Len(C) => slots[x + 1] = s /\ s \in Range(slots)
           /\ \A i \in DOMAIN slots : slots[i] = s => i = x + 1
           /\ x = Len(C) => s = EndSlot(h, top) /\ s \notin Range(slots)
<1>1. /\ slots \in Seq(Places(h)) /\ Len(slots) = Len(C)
      /\ \A j \in 1..Len(C) :
            slots[j] \in Places(h) /\ Number(h, lo, hi, slots[j]) = j - 1
      /\ \A t \in Places(h) :
            /\ Number(h, lo, hi, t) \in 0..(Len(C) - 1)
            /\ slots[Number(h, lo, hi, t) + 1] = t
    BY PlacesInOrder
<1>2. Len(C) \in Nat /\ DOMAIN slots = 1..Len(C)
    BY <1>1 DEF Holds
<1>3. ASSUME NEW i \in DOMAIN slots, slots[i] = s PROVE i = x + 1
    <2>1. s \in Places(h) /\ Number(h, lo, hi, s) = i - 1 /\ i \in Int
        BY <1>1, <1>2, <1>3
    <2>2. x # Len(C)
        BY <2>1, NamesOnce DEF Names
    <2>3. Number(h, lo, hi, s) = x
        BY <2>2 DEF Names, HasNumber
    <2>4. QED
        BY <2>1, <2>3
<1>4. ASSUME x < Len(C) PROVE slots[x + 1] = s /\ s \in Range(slots)
    <2>1. s \in Places(h) /\ Number(h, lo, hi, s) = x
        BY <1>2, <1>4 DEF Names, HasNumber
    <2>2. slots[x + 1] = s
        BY <1>1, <2>1
    <2>3. x + 1 \in DOMAIN slots
        BY <1>2, <1>4
    <2>4. QED
        BY <2>2, <2>3 DEF Range
<1>5. ASSUME x = Len(C) PROVE s = EndSlot(h, top) /\ s \notin Range(slots)
    <2>1. s = EndSlot(h, top)
        BY <1>5 DEF Names
    <2>2. s \notin Places(h)
        BY <2>1, NamesOnce
    <2>3. \A i \in DOMAIN slots : slots[i] \in Places(h)
        BY <1>1, <1>2
    <2>4. QED
        BY <2>1, <2>2, <2>3 DEF Range
<1>6. QED
    BY <1>1, <1>2, <1>3, <1>4, <1>5

\* The place on a leaf where a value before an iterator goes has its number.
LEMMA LeafPlaceGap ==
    ASSUME NEW lv, NEW S, Tree(heap, root, lv, S),
           NEW lo, NEW hi, NEW C, Holds(heap, root, lo, hi, C),
           NEW s, NEW x, Names(heap, root, lo, hi, C, s, x)
    PROVE  LeafPlaceOf(heap, LeafPlace(s)) /\ Gap(lo, LeafPlace(s)) = x
<1>1. CASE x = Len(C)
    <2>1. PICK n \in DOMAIN heap :
              /\ EndSlot(heap, root) = Slot(n, Count(heap, n))
              /\ heap[n].leaf /\ Count(heap, n) \in Nat
              /\ lo[n] + Count(heap, n) = Len(C)
        BY EndNumber
    <2>2. s = Slot(n, Count(heap, n)) /\ s.node = n
          /\ s.position = Count(heap, n)
        BY <1>1, <2>1, SlotIs DEF Names
    <2>3. LeafPlace(s) = s
        BY <2>1, <2>2 DEF LeafPlace
    <2>4. LeafPlaceOf(heap, s)
        BY <2>1, <2>2 DEF LeafPlaceOf
    <2>5. QED
        BY <1>1, <2>1, <2>2, <2>3, <2>4 DEF Gap
<1>2. CASE x # Len(C)
    <2>1. s \in Places(heap) /\ Number(heap, lo, hi, s) = x
        BY <1>2 DEF Names, HasNumber
    <2>2. PICK n \in DOMAIN heap, i \in Nat :
              s = Slot(n, i) /\ i < Count(heap, n)
        BY <2>1, PlaceOnNode
    <2>3. s.node = n /\ s.position = i /\ Count(heap, n) \in Nat
          /\ heap[n].leaf \in BOOLEAN
        BY <2>2, SlotIs, CountIs, NodeIs DEF Tree
    <2>4. PlaceIn(heap, s)
        BY <2>1, PlacesAre DEF PlaceIn
    <2>5. LeafPlaceOf(heap, LeafPlace(s))
        BY <2>4, LeafPlaceIs
    <2>6. CASE heap[n].leaf
        <3>1. LeafPlace(s) = s /\ x = lo[n] + i
            BY <2>1, <2>3, <2>6 DEF LeafPlace, Number
        <3>2. QED
            BY <2>3, <2>5, <3>1 DEF Gap
    <2>7. CASE ~heap[n].leaf
        <3>1. PICK j \in 0..Count(heap, n) : j = i
            BY <2>2, <2>3
        <3>2. PICK c : c = Child(heap, n, i)
            OBVIOUS
        <3>3. c \in DOMAIN heap /\ hi[c] = x
            BY <2>1, <2>3, <2>7, <3>1, <3>2, RanksStep DEF Number
        <3>4. PICK f : f = LastLeaf(heap, c)
            OBVIOUS
        <3>5. f \in DOMAIN heap /\ heap[f].leaf /\ hi[f] = x
            BY <3>3, <3>4, LeafRanges DEF LeafOf
        <3>6. Decrement(heap, s) = Slot(f, Count(heap, f) - 1)
            BY <2>3, <2>7, <3>2, <3>4 DEF Decrement
        <3>7. Count(heap, f) \in Nat
            BY <3>5, CountIs DEF Tree
        <3>8. LeafPlace(s) = Slot(f, Count(heap, f))
            <4>1. LeafPlace(s) = Slot(Decrement(heap, s).node,
                                      Decrement(heap, s).position + 1)
                BY <2>3, <2>7 DEF LeafPlace
            <4>2. LeafPlace(s) = Slot(f, (Count(heap, f) - 1) + 1)
                BY <3>6, <4>1, SlotIs
            <4>3. QED
                BY <3>7, <4>2
        <3>9. Gap(lo, LeafPlace(s)) = hi[f]
            BY <3>5, <3>8, SlotIs DEF Gap, Holds, InOrder
        <3>10. QED
            BY <2>5, <3>5, <3>9
    <2>8. QED
        BY <2>3, <2>6, <2>7
<1>3. QED
    BY <1>1, <1>2

(***************************************************************************)
(* The order of the contents, and the place of a call in them              *)
(***************************************************************************)

\* v may stand somewhere before w.
Goes(v, w) == IF Unique THEN KeyOf[v] < KeyOf[w] ELSE KeyOf[v] <= KeyOf[w]

Ordered(C) == \A i, j \in 1..Len(C) : i < j => Goes(C[i], C[j])

\* v may stand behind the first x values.
FitsIn(C, v, x) ==
    /\ x \in 0..Len(C)
    /\ \A j \in 1..Len(C) : IF j <= x THEN Goes(C[j], v) ELSE Goes(v, C[j])

\* The call inserts its value behind the first x values: of a multimap behind
\* all those with its key, or where the hint says if it fits there.
Stands(C, asked, x) ==
    /\ asked.kind \in {"insert", "insert_hint"} /\ asked.value \in Values
    /\ FitsIn(C, asked.value, x)
    /\ ~Unique /\ asked.kind = "insert" =>
          \A j \in 1..Len(C) : j > x => KeyOf[asked.value] < KeyOf[C[j]]
    /\ ~Unique /\ asked.kind = "insert_hint" /\ FitsIn(C, asked.value, asked.at)
          => x = asked.at

\* The hint is of no use.
NoHint(C, asked) ==
    ~Unique /\ asked.kind = "insert_hint"
       => (C = <<>> /\ asked.at = 0) \/ ~FitsIn(C, asked.value, asked.at)

\* Behind the first x values are those that the call still erases, of one key
\* or one only.
Due(C, step, asked, all, gone, x) ==
    /\ asked.kind \in {"erase", "erase_key"} /\ x \in 0..Len(C)
    /\ asked.kind = "erase" =>
          all = 1 /\ x = asked.at /\ gone = IF step = "erase" THEN 0 ELSE 1
    /\ asked.kind = "erase_key" =>
          /\ all - gone \in Nat /\ x + (all - gone) \in 0..Len(C)
          /\ step = "erase" => gone < all
          /\ \A j \in 1..Len(C) : /\ KeyOf[C[j]] < asked.key <=> j <= x
                                  /\ KeyOf[C[j]] <= asked.key <=>
                                        j <= x + (all - gone)

InPlace == {"insert", "make_room", "split", "room"}

\* What the contents C and the place x are to the call.
Meant(C, x, step, asked, values, all, gone) ==
    /\ Ordered(C \o values)
    /\ values # <<>> => asked.kind = "copy" /\ (step = "copy" \/ step \in InPlace)
    /\ step \in {"idle", "called"} => gone = 0
    /\ step = "called" =>
          /\ asked.kind = "insert_hint" => asked.at \in 0..Len(C)
          /\ asked.kind = "erase" => asked.at \in 0..(Len(C) - 1)
          /\ asked.kind = "erase_key" => asked.key \in Int
    /\ step = "search" => asked.kind # "copy" /\ NoHint(C, asked)
    /\ step \in InPlace =>
          IF asked.kind = "copy" THEN x = Len(C) ELSE Stands(C, asked, x)
    /\ Erasing(step) => Due(C, step, asked, all, gone, x)

\* The tree below r holds C.
Kept(h, r, last, sz, lo, hi, C) ==
    IF r = NoNode THEN C = <<>>
    ELSE /\ Holds(h, r, lo, hi, C)
         /\ h[r].leaf \/ (sz = Len(C) /\ hi[last] = Len(C))

\* The call works at the place x.
Works(h, lo, hi, step, frames, s, back, passed, x) ==
    /\ x \in Int
    /\ step \in {"insert", "room"} => Gap(lo, s) = x
    /\ step \in {"make_room", "split"} => Gap(lo, frames[Len(frames)]) = x
    /\ step = "erase" => HasNumber(h, lo, hi, s, x)
    /\ step \in {"rebalance", "advance"} =>
          Gap(lo, back) + (IF passed THEN 1 ELSE 0) = x

State(C, lo, hi, x) ==
    /\ C \in Seq(Values)
    /\ Kept(heap, root, rightmost, size, lo, hi, C)
    /\ Works(heap, lo, hi, pc, stack, iter, res, internal_delete, x)
    /\ Meant(C, x, pc, call, source, count, erased)

\* The container holds C, in order.
Holding(C) == \E lo, hi, x : State(C, lo, hi, x)

\* The iterator to return is at the place x of C.
Answering(C, x) ==
    \E lo, hi, y : /\ State(C, lo, hi, y) /\ root # NoNode
                   /\ x \in 0..Len(C) /\ Names(heap, root, lo, hi, C, res, x)

\* The order, between any two steps.
OInv == \E C : Holding(C)

-----------------------------------------------------------------------------

\* A value where it fits leaves the order.
LEMMA OrderedInsert ==
    ASSUME NEW C \in Seq(Values), Ordered(C), NEW v \in Values, NEW x,
           FitsIn(C, v, x), NEW D, D = InsertAt(C, x + 1, v)
    PROVE  D \in Seq(Values) /\ Len(D) = Len(C) + 1 /\ Ordered(D)
<1>1. x \in 0..Len(C) /\ Len(C) \in Nat
    BY DEF FitsIn
<1>2. PICK y \in 1..(Len(C) + 1) : y = x + 1
    BY <1>1
<1>3. /\ D \in Seq(Values) /\ Len(D) = Len(C) + 1
      /\ \A j \in 1..(Len(C) + 1) :
            D[j] = IF j < y THEN C[j] ELSE IF j = y THEN v ELSE C[j - 1]
    BY <1>2, InsertAtIs
<1>4. \A j \in 1..Len(C) : IF j < y THEN Goes(C[j], v) ELSE Goes(v, C[j])
    BY <1>1, <1>2 DEF FitsIn
<1>5. ASSUME NEW i \in 1..Len(D), NEW j \in 1..Len(D), i < j
      PROVE  Goes(D[i], D[j])
    <2>1. CASE i = y
        <3>1. D[i] = v /\ D[j] = C[j - 1] /\ j - 1 \in 1..Len(C) /\ ~(j - 1 < y)
            BY <1>1, <1>2, <1>3, <1>5, <2>1
        <3>2. QED
            BY <1>4, <3>1
    <2>2. CASE j = y
        <3>1. D[j] = v /\ D[i] = C[i] /\ i \in 1..Len(C) /\ i < y
            BY <1>1, <1>2, <1>3, <1>5, <2>2
        <3>2. QED
            BY <1>4, <3>1
    <2>3. CASE i # y /\ j # y
        <3>1. PICK a \in 1..Len(C) : a = (IF i < y THEN i ELSE i - 1)
            BY <1>1, <1>2, <1>3, <1>5, <2>3
        <3>2. PICK b \in 1..Len(C) : b = (IF j < y THEN j ELSE j - 1)
            BY <1>1, <1>2, <1>3, <1>5, <2>3
        <3>3. D[i] = C[a] /\ D[j] = C[b]
            BY <1>1, <1>3, <1>5, <2>3, <3>1, <3>2
        <3>4. a < b
            BY <1>1, <1>3, <1>5, <2>3, <3>1, <3>2
        <3>5. Goes(C[a], C[b])
            BY <3>4 DEF Ordered
        <3>6. QED
            BY <3>3, <3>5
    <2>4. QED
        BY <2>1, <2>2, <2>3
<1>6. QED
    BY <1>3, <1>5 DEF Ordered

\* Without a value the others stay in order.
LEMMA OrderedRemove ==
    ASSUME NEW C \in Seq(Values), Ordered(C), NEW y \in 1..Len(C),
           NEW D, D = RemoveAt(C, y)
    PROVE  /\ D \in Seq(Values) /\ Len(D) = Len(C) - 1 /\ Ordered(D)
           /\ \A j \in 1..Len(D) : D[j] = IF j < y THEN C[j] ELSE C[j + 1]
<1>1. Len(C) \in Nat
    OBVIOUS
<1>2. /\ D \in Seq(Values) /\ Len(D) = Len(C) - 1
      /\ \A j \in 1..(Len(C) - 1) : D[j] = IF j < y THEN C[j] ELSE C[j + 1]
    BY RemoveAtIs
<1>3. ASSUME NEW i \in 1..Len(D), NEW j \in 1..Len(D), i < j
      PROVE  Goes(D[i], D[j])
    <2>1. PICK a \in 1..Len(C) : a = (IF i < y THEN i ELSE i + 1)
        BY <1>1, <1>2
    <2>2. PICK b \in 1..Len(C) : b = (IF j < y THEN j ELSE j + 1)
        BY <1>1, <1>2
    <2>3. D[i] = C[a] /\ D[j] = C[b] /\ a < b
        BY <1>1, <1>2, <1>3, <2>1, <2>2
    <2>4. Goes(C[a], C[b])
        BY <2>3 DEF Ordered
    <2>5. QED
        BY <2>3, <2>4
<1>4. QED
    BY <1>1, <1>2, <1>3 DEF Ordered

\* The first of the values still to be copied went to the end of C.
CopyGoesOn(C, values, D) ==
    /\ D \in Seq(Values) /\ Head(values) \in Values
    /\ Tail(values) \in Seq(Values) /\ D \o Tail(values) = C \o values

\* A value copied from the source goes behind those copied before it.
LEMMA CopiedOn ==
    ASSUME NEW C \in Seq(Values), NEW values \in Seq(Values), values # <<>>,
           NEW x, x = Len(C), NEW D, D = InsertAt(C, x + 1, Head(values))
    PROVE  CopyGoesOn(C, values, D)
<1>1. PICK v \in Values : v = Head(values)
    BY HeadTailProperties
<1>2. PICK rest \in Seq(Values) : rest = Tail(values)
    BY HeadTailProperties
<1>3. Len(values) \in Nat /\ Len(values) >= 1 /\ Len(rest) = Len(values) - 1
      /\ values[1] = v /\ \A i \in 1..Len(rest) : rest[i] = values[i + 1]
    BY <1>1, <1>2
<1>4. PICK y \in 1..(Len(C) + 1) : y = x + 1 /\ y = Len(C) + 1
    OBVIOUS
<1>5. /\ D \in Seq(Values) /\ Len(D) = Len(C) + 1
      /\ \A j \in 1..(Len(C) + 1) :
            D[j] = IF j < y THEN C[j] ELSE IF j = y THEN v ELSE C[j - 1]
    <2>1. D = InsertAt(C, y, v)
        BY <1>1, <1>4
    <2>2. /\ InsertAt(C, y, v) \in Seq(Values)
          /\ Len(InsertAt(C, y, v)) = Len(C) + 1
          /\ \A j \in 1..(Len(C) + 1) : InsertAt(C, y, v)[j] =
                IF j < y THEN C[j] ELSE IF j = y THEN v ELSE C[j - 1]
        <3>1. C \in Seq(Values) /\ v \in Values /\ y \in 1..(Len(C) + 1)
            BY <1>3
        <3>2. QED
            BY ONLY <3>1, InsertAtIs
    <2>3. QED
        BY <2>1, <2>2
<1>6. PICK a : a = D \o rest
    OBVIOUS
<1>7. PICK b : b = C \o values
    OBVIOUS
<1>8. /\ a \in Seq(Values) /\ Len(a) = Len(D) + Len(rest)
      /\ \A i \in 1..Len(a) :
            a[i] = IF i <= Len(D) THEN D[i] ELSE rest[i - Len(D)]
    BY <1>5, <1>6
<1>9. /\ b \in Seq(Values) /\ Len(b) = Len(C) + Len(values)
      /\ \A i \in 1..Len(b) :
            b[i] = IF i <= Len(C) THEN C[i] ELSE values[i - Len(C)]
    BY <1>7
<1>10. Len(a) = Len(b) /\ Len(a) \in Nat /\ Len(C) \in Nat
    BY <1>3, <1>5, <1>8, <1>9
<1>11. ASSUME NEW i \in 1..Len(a) PROVE a[i] = b[i]
    <2>1. CASE i <= Len(C)
        BY <1>4, <1>5, <1>8, <1>9, <1>10, <2>1
    <2>2. CASE i = Len(C) + 1
        BY <1>3, <1>4, <1>5, <1>8, <1>9, <1>10, <2>2
    <2>3. CASE i > Len(C) + 1
        <3>1. PICK k \in 1..Len(rest) : k = i - (Len(C) + 1)
            <4>1. i \in Int /\ i <= Len(a) /\ Len(rest) \in Int
                BY <1>2, <1>10
            <4>2. Len(a) = (Len(C) + 1) + Len(rest)
                BY <1>5, <1>8
            <4>3. i - (Len(C) + 1) \in 1..Len(rest)
                <5>1. PICK c \in Nat : c = Len(C)
                    BY <1>10
                <5>2. PICK r \in Int : r = Len(rest)
                    BY <4>1
                <5>3. i <= c + 1 + r /\ i > c + 1 /\ i \in Int
                    BY <2>3, <4>1, <4>2, <5>1, <5>2
                <5>4. i - (c + 1) \in 1..r
                    BY ONLY <5>3, c \in Nat, r \in Int
                <5>5. QED
                    BY <5>1, <5>2, <5>4
            <4>4. QED
                BY <4>3
        <3>2. a[i] = rest[k]
            BY <1>5, <1>8, <1>10, <2>3, <3>1
        <3>3. b[i] = values[k + 1]
            BY <1>9, <1>10, <2>3, <3>1
        <3>4. QED
            BY <1>3, <3>2, <3>3
    <2>4. QED
        BY <1>10, <2>1, <2>2, <2>3
<1>12. a = b
    BY <1>8, <1>9, <1>10, <1>11, SeqEqual
<1>13. QED
    BY <1>1, <1>2, <1>5, <1>6, <1>7, <1>12 DEF CopyGoesOn

\* The state after a step.
LEMMA StateNext ==
    ASSUME NEW C \in Seq(Values), NEW lo, NEW hi, NEW x,
           Kept(heap', root', rightmost', size', lo, hi, C),
           Works(heap', lo, hi, pc', stack', iter', res', internal_delete', x),
           Meant(C, x, pc', call', source', count', erased')
    PROVE  Holding(C)'
BY DEF Holding, State

\* The parts of a state.
LEMMA StateIs ==
    ASSUME NEW C, NEW lo, NEW hi, NEW x, State(C, lo, hi, x)
    PROVE  /\ C \in Seq(Values) /\ Len(C) \in Nat
           /\ Kept(heap, root, rightmost, size, lo, hi, C)
           /\ Works(heap, lo, hi, pc, stack, iter, res, internal_delete, x)
           /\ Meant(C, x, pc, call, source, count, erased)
           /\ x \in Int /\ Ordered(C \o source)
           /\ call.kind # "copy" => source = <<>>
           /\ pc # "copy" /\ pc \notin InPlace => source = <<>>
<1>1. C \in Seq(Values) /\ Len(C) \in Nat
    BY DEF State
<1>2. QED
    BY <1>1 DEF State, Works, Meant

(***************************************************************************)
(* What the container says of itself, in terms of its contents             *)
(***************************************************************************)

\* The tree of a state and what it holds.
HeldBy(C, lo, hi, lv, S) ==
    Tree(heap, root, lv, S) /\ Holds(heap, root, lo, hi, C)

LEMMA TreeHeld ==
    ASSUME IInv, NEW C, NEW lo, NEW hi, NEW x, State(C, lo, hi, x),
           root # NoNode
    PROVE  \E lv, S : HeldBy(C, lo, hi, lv, S)
BY DEF IInv, Standing, State, Kept, HeldBy

LEMMA ContentsAreHeld ==
    ASSUME IInv, NEW C, NEW lo, NEW hi, NEW x, State(C, lo, hi, x)
    PROVE  Contents = C /\ Size = Len(C)
<1>1. CASE root = NoNode
    <2>1. C = <<>> /\ Size = 0
        BY <1>1 DEF State, Kept, Size
    <2>2. Slots(heap, root) = <<>>
        BY <1>1 DEF Slots
    <2>3. Contents = <<>>
        BY <2>2 DEF Contents
    <2>4. QED
        BY <2>1, <2>3
<1>2. CASE root # NoNode
    <2>1. PICK lv, S : HeldBy(C, lo, hi, lv, S)
        BY <1>2, TreeHeld
    <2>2. Tree(heap, root, lv, S) /\ Holds(heap, root, lo, hi, C)
        BY <2>1 DEF HeldBy
    <2>3. PICK slots : slots = Slots(heap, root)
        OBVIOUS
    <2>4. [i \in DOMAIN slots |-> ValueAt(heap, slots[i])] = C
        BY <2>2, <2>3, ContentsHeld
    <2>5. Contents = C
        BY <2>3, <2>4 DEF Contents
    <2>6. CASE RootIsLeaf
        <3>1. heap[root].values = C
            BY <2>2, <2>6, LeafHas DEF RootIsLeaf
        <3>2. Size = Len(C)
            BY <1>2, <2>6, <3>1 DEF Size, Count
        <3>3. QED
            BY <2>5, <3>2
    <2>7. CASE ~RootIsLeaf
        <3>1. Size = Len(C)
            BY <1>2, <2>7 DEF Size, State, Kept, RootIsLeaf
        <3>2. QED
            BY <2>5, <3>1
    <2>8. QED
        BY <2>6, <2>7
<1>3. QED
    BY <1>1, <1>2

\* end() is behind the last value.
LEMMA EndHeld ==
    ASSUME IInv, NEW C, NEW lo, NEW hi, NEW x, State(C, lo, hi, x),
           root # NoNode
    PROVE  /\ End = EndSlot(heap, root) /\ Rightmost = LastLeaf(heap, root)
           /\ Names(heap, root, lo, hi, C, End, Len(C))
<1>1. PICK lv, S : HeldBy(C, lo, hi, lv, S)
    BY TreeHeld
<1>2. Tree(heap, root, lv, S) /\ Holds(heap, root, lo, hi, C)
    BY <1>1 DEF HeldBy
<1>3. Rightmost \in DOMAIN heap /\ heap[Rightmost].leaf
      /\ hi[Rightmost] = Len(C)
    <2>1. CASE RootIsLeaf
        BY <1>2, <2>1 DEF Rightmost, RootIsLeaf, Tree, Holds
    <2>2. CASE ~RootIsLeaf
        BY <2>2 DEF Rightmost, RootIsLeaf, IInv, Ended, LeafOf, State, Kept
    <2>3. QED
        BY <2>1, <2>2
<1>4. Rightmost = LastLeaf(heap, root)
    BY <1>2, <1>3, OuterLeaves
<1>5. End = EndSlot(heap, root)
    BY <1>4 DEF End, EndSlot
<1>6. QED
    BY <1>4, <1>5 DEF Names

\* begin() is the first value.
LEMMA BeginHeld ==
    ASSUME IInv, NEW C, NEW lo, NEW hi, NEW x, State(C, lo, hi, x),
           root # NoNode, \A n \in DOMAIN heap : Count(heap, n) # 0
    PROVE  /\ Leftmost = FirstLeaf(heap, root)
           /\ Names(heap, root, lo, hi, C, Begin, 0) /\ Len(C) # 0
<1>1. PICK lv, S : HeldBy(C, lo, hi, lv, S)
    BY TreeHeld
<1>2. Tree(heap, root, lv, S) /\ Holds(heap, root, lo, hi, C)
    BY <1>1 DEF HeldBy
<1> DEFINE D == DOMAIN heap
           rank == DownRank(heap, root, lv)
           P == {m \in D : m \in S => lo[m] = 0}
<1>3. ASSUME NEW m \in D, \A e \in D : rank[e] < rank[m] => e \in P
      PROVE  m \in P
    <2>1. SUFFICES ASSUME m \in S, m # root PROVE lo[m] = 0
        BY <1>2 DEF Holds
    <2>2. PICK p \in D : p = heap[m].parent /\ ~heap[p].leaf
              /\ heap[m].position \in 0..Count(heap, p)
              /\ Child(heap, p, heap[m].position) = m
              /\ rank[p] < rank[m]
        BY <1>2, <2>1, ParentIs, RanksStep
    <2>3. heap[m].position = 0 /\ p \in S
        BY <1>2, <2>1, <2>2 DEF Tree, Placed
    <2>4. lo[m] = lo[p]
        BY <1>2, <2>2, <2>3 DEF Holds, InOrder
    <2>5. QED
        BY <1>3, <2>2, <2>3, <2>4
<1>4. lv[root] + 1 \in Nat /\ Ranked(rank, D, lv[root] + 1)
    BY <1>2, LevelsRank
<1> HIDE DEF P, rank
<1>5. D \subseteq P
    BY <1>3, <1>4, RankInduction
<1>6. LeafOf(heap, Leftmost) /\ lo[Leftmost] = 0
    BY <1>2, <1>5 DEF P, Leftmost, Tree, LeafOf
<1>7. Leftmost = FirstLeaf(heap, root)
    BY <1>2, <1>6, OuterLeaves DEF LeafOf
<1>8. Count(heap, Leftmost) # 0
    BY <1>6 DEF LeafOf
<1>9. HasNumber(heap, lo, hi, Slot(Leftmost, 0), 0) /\ 0 \in 0..(Len(C) - 1)
    BY <1>2, <1>6, <1>8, LeafEnds
<1>10. Begin = Slot(Leftmost, 0)
    BY DEF Begin
<1>11. 0 # Len(C)
    BY <1>2, <1>9 DEF Holds
<1>12. QED
    BY <1>7, <1>9, <1>10, <1>11 DEF Names

\* The iterator at a place, and the place of an iterator.
LEMMA IteratorHeld ==
    ASSUME IInv, NEW C, NEW lo, NEW hi, NEW x, State(C, lo, hi, x),
           root # NoNode, NEW n, n \in 0..Len(C)
    PROVE  Names(heap, root, lo, hi, C, IteratorAt(n), n)
<1>1. PICK lv, S : HeldBy(C, lo, hi, lv, S)
    BY TreeHeld
<1>2. Tree(heap, root, lv, S) /\ Holds(heap, root, lo, hi, C)
    BY <1>1 DEF HeldBy
<1>3. PICK slots : slots = Slots(heap, root)
    OBVIOUS
<1>4. /\ Len(slots) = Len(C) /\ Len(C) \in Nat
      /\ \A j \in 1..Len(C) :
            slots[j] \in Places(heap) /\ Number(heap, lo, hi, slots[j]) = j - 1
    BY <1>2, <1>3, PlacesInOrder DEF Holds
<1>5. IteratorAt(n) = IF n < Len(C) THEN slots[n + 1] ELSE End
    BY <1>3, <1>4 DEF IteratorAt
<1>6. CASE n < Len(C)
    <2>1. PICK j \in 1..Len(C) : j = n + 1
        BY <1>4, <1>6
    <2>2. IteratorAt(n) = slots[j] /\ n # Len(C) /\ j - 1 = n
        BY <1>4, <1>5, <1>6, <2>1
    <2>3. QED
        BY <1>4, <2>1, <2>2 DEF Names, HasNumber
<1>7. CASE ~(n < Len(C))
    <2>1. n = Len(C) /\ IteratorAt(n) = End
        BY <1>4, <1>5, <1>7
    <2>2. QED
        BY <2>1, EndHeld
<1>8. QED
    BY <1>6, <1>7

\* The place behind one that is not the end.
LEMMA NextPlace ==
    ASSUME NEW k \in Nat, NEW n \in 0..k, n < k
    PROVE  n + 1 \in 1..k /\ (n + 1) - 1 = n
    OBVIOUS

\* The one there is, is the one chosen.
LEMMA ChosenIs ==
    ASSUME NEW slots, NEW s, NEW a \in DOMAIN slots, slots[a] = s,
           \A i \in DOMAIN slots : slots[i] = s => i = a
    PROVE  (CHOOSE i \in DOMAIN slots : slots[i] = s) = a
    OBVIOUS

LEMMA PlaceHeld ==
    ASSUME IInv, NEW C, NEW lo, NEW hi, NEW x, State(C, lo, hi, x),
           root # NoNode, NEW s, NEW n, n \in 0..Len(C),
           Names(heap, root, lo, hi, C, s, n)
    PROVE  PlaceOf(s) = n
<1>1. PICK lv, S : HeldBy(C, lo, hi, lv, S)
    BY TreeHeld
<1>2. Tree(heap, root, lv, S) /\ Holds(heap, root, lo, hi, C)
    BY <1>1 DEF HeldBy
<1>3. PICK slots : slots = Slots(heap, root)
    OBVIOUS
<1>4. /\ DOMAIN slots = 1..Len(C) /\ Len(slots) = Len(C)
      /\ n < Len(C) => slots[n + 1] = s /\ s \in Range(slots)
      /\ \A i \in DOMAIN slots : slots[i] = s => i = n + 1
      /\ n = Len(C) => s = EndSlot(heap, root) /\ s \notin Range(slots)
    BY <1>2, <1>3, NamesInOrder
<1>5. Len(C) \in Nat
    BY <1>2 DEF Holds
<1>6. PlaceOf(s) = IF s \in Range(slots)
                   THEN (CHOOSE i \in DOMAIN slots : slots[i] = s) - 1
                   ELSE IF s = End THEN Len(slots) ELSE Lost
    BY <1>3 DEF PlaceOf
<1>7. CASE n < Len(C)
    <2>1. n + 1 \in DOMAIN slots /\ slots[n + 1] = s /\ s \in Range(slots)
        <3>1. n + 1 \in 1..Len(C)
            BY ONLY <1>5, <1>7, n \in 0..Len(C), NextPlace
        <3>2. QED
            BY <1>4, <1>7, <3>1
    <2>2. \A i \in DOMAIN slots : slots[i] = s => i = n + 1
        BY <1>4
    <2>3. PlaceOf(s) = (n + 1) - 1
        BY ONLY <1>6, <2>1, <2>2, ChosenIs
    <2>4. (n + 1) - 1 = n
        BY ONLY <1>5, <1>7, n \in 0..Len(C), NextPlace
    <2>5. QED
        BY ONLY <2>3, <2>4
<1>8. CASE ~(n < Len(C))
    <2>1. n = Len(C)
        BY <1>5, <1>8
    <2>2. s = End
        BY <1>4, <2>1, EndHeld
    <2>3. QED
        BY <1>4, <1>6, <2>1, <2>2
<1>9. QED
    BY <1>7, <1>8

\* Of nothing.
LEMMA NothingHeld ==
    ASSUME NEW C, NEW lo, NEW hi, NEW x, State(C, lo, hi, x), root = NoNode
    PROVE  C = <<>> /\ End = NoSlot /\ PlaceOf(NoSlot) = 0
<1>1. C = <<>>
    BY DEF State, Kept
<1>2. End = NoSlot
    BY DEF End, NoSlot, Rightmost
<1>3. Slots(heap, root) = <<>>
    BY DEF Slots
<1>4. NoSlot \notin Range(<<>>)
    BY DEF Range
<1>5. PlaceOf(NoSlot) = 0
    BY <1>2, <1>3, <1>4 DEF PlaceOf
<1>6. QED
    BY <1>1, <1>2, <1>5

(***************************************************************************)
(* Where searches and hints lead                                           *)
(***************************************************************************)

\* The values that a search for k passes.
BelowKey(k) == {v \in Values : KeyOf[v] < k}

UpToKey(k) == {v \in Values : KeyOf[v] <= k}

\* In the order the values with smaller keys come first.
LEMMA KeysCut ==
    ASSUME NEW C \in Seq(Values), Ordered(C), NEW k \in Int
    PROVE  /\ \E g : Cut(C, BelowKey(k), g)
           /\ \E g : Cut(C, UpToKey(k), g)
<1>1. \A j \in 1..Len(C) : C[j] \in Values /\ KeyOf[C[j]] \in Int
    BY KeyOfAssumption
<1>2. \A i, j \in 1..Len(C) : i < j => KeyOf[C[i]] <= KeyOf[C[j]]
    <2>1. ASSUME NEW i \in 1..Len(C), NEW j \in 1..Len(C), i < j
          PROVE  KeyOf[C[i]] <= KeyOf[C[j]]
        <3>1. Goes(C[i], C[j])
            BY <2>1 DEF Ordered
        <3>2. KeyOf[C[i]] \in Int /\ KeyOf[C[j]] \in Int
            BY <1>1
        <3>3. QED
            BY <3>1, <3>2 DEF Goes
    <2>2. QED
        BY <2>1
<1>3. PICK L \in Nat : L = Len(C)
    OBVIOUS
<1> DEFINE Q == {j \in 1..L : KeyOf[C[j]] < k}
           R == {j \in 1..L : KeyOf[C[j]] <= k}
<1>4. \A i, j \in 1..L : i < j /\ j \in Q => i \in Q
    <2>1. ASSUME NEW i \in 1..L, NEW j \in 1..L, i < j, j \in Q
          PROVE  i \in Q
        <3>1. KeyOf[C[i]] <= KeyOf[C[j]] /\ KeyOf[C[i]] \in Int
              /\ KeyOf[C[j]] \in Int /\ KeyOf[C[j]] < k
            BY <1>1, <1>2, <1>3, <2>1
        <3>2. KeyOf[C[i]] < k
            BY <3>1
        <3>3. QED
            BY <3>2
    <2>2. QED
        BY <2>1
<1>5. \A i, j \in 1..L : i < j /\ j \in R => i \in R
    <2>1. ASSUME NEW i \in 1..L, NEW j \in 1..L, i < j, j \in R
          PROVE  i \in R
        <3>1. KeyOf[C[i]] <= KeyOf[C[j]] /\ KeyOf[C[i]] \in Int
              /\ KeyOf[C[j]] \in Int /\ KeyOf[C[j]] <= k
            BY <1>1, <1>2, <1>3, <2>1
        <3>2. KeyOf[C[i]] <= k
            BY <3>1
        <3>3. QED
            BY <3>2
    <2>2. QED
        BY <2>1
<1>6. \A j \in 1..L : /\ j \in Q <=> C[j] \in BelowKey(k)
                      /\ j \in R <=> C[j] \in UpToKey(k)
    BY <1>1, <1>3 DEF BelowKey, UpToKey
<1> HIDE DEF Q, R
<1>7. PICK g \in 0..L : \A j \in 1..L : j \in Q <=> j <= g
    BY <1>4, PassedUpTo
<1>8. PICK f \in 0..L : \A j \in 1..L : j \in R <=> j <= f
    BY <1>5, PassedUpTo
<1>9. Cut(C, BelowKey(k), g)
    BY <1>3, <1>6, <1>7 DEF Cut
<1>10. Cut(C, UpToKey(k), f)
    BY <1>3, <1>6, <1>8 DEF Cut
<1>11. QED
    BY <1>9, <1>10

\* What a search finds: the place of the value behind those passed.
Found(C, lo, hi, s, t, g) ==
    /\ LeafPlaceOf(heap, s) /\ Gap(lo, s) = g
    /\ Names(heap, root, lo, hi, C, OrEnd(t), g)
    /\ IF g = Len(C) THEN t = NoSlot ELSE HasNumber(heap, lo, hi, t, g)

LEMMA SearchHeld ==
    ASSUME IInv, NEW C, NEW lo, NEW hi, NEW x, State(C, lo, hi, x),
           root # NoNode, NEW passed, NEW g, Cut(C, passed, g),
           NEW s, s = Descend(heap, root, passed)
    PROVE  Found(C, lo, hi, s, InternalLast(heap, s), g)
<1>1. PICK lv, S : HeldBy(C, lo, hi, lv, S)
    BY TreeHeld
<1>2. Tree(heap, root, lv, S) /\ Holds(heap, root, lo, hi, C)
    BY <1>1 DEF HeldBy
<1>3. LeafPlaceOf(heap, s) /\ Gap(lo, s) = g
    BY <1>2, DescendNumber
<1>4. PICK t : t = InternalLast(heap, s)
    OBVIOUS
<1>5. IF g = Len(C) THEN t = NoSlot ELSE HasNumber(heap, lo, hi, t, g)
    BY <1>2, <1>3, <1>4, LastNumber
<1>6. Names(heap, root, lo, hi, C, OrEnd(t), g)
    <2>1. CASE g = Len(C)
        <3>1. OrEnd(t) = End
            BY <1>5, <2>1 DEF OrEnd
        <3>2. QED
            BY <2>1, <3>1, EndHeld
    <2>2. CASE g # Len(C)
        <3>1. t \in Places(heap)
            BY <1>5, <2>2 DEF HasNumber
        <3>2. t.node \in DOMAIN heap
            BY <3>1, PlaceOnNode
        <3>3. t # NoSlot
            BY <1>2, <3>2, NodeIs, SlotIs DEF NoSlot, Tree
        <3>4. OrEnd(t) = t
            BY <3>3 DEF OrEnd
        <3>5. QED
            BY <1>5, <2>2, <3>4 DEF Names
    <2>3. QED
        BY <2>1, <2>2
<1>7. QED
    BY <1>3, <1>4, <1>5, <1>6 DEF Found

LEMMA LowerHeld ==
    ASSUME IInv, NEW C, NEW lo, NEW hi, NEW x, State(C, lo, hi, x),
           root # NoNode, NEW k, NEW g, Cut(C, BelowKey(k), g)
    PROVE  Found(C, lo, hi, Locate(heap, root, k), LowerBound(heap, root, k), g)
BY SearchHeld DEF Locate, LowerBound, BelowKey

LEMMA UpperHeld ==
    ASSUME IInv, NEW C, NEW lo, NEW hi, NEW x, State(C, lo, hi, x),
           root # NoNode, NEW k, NEW g, Cut(C, UpToKey(k), g)
    PROVE  \E s : Found(C, lo, hi, s, UpperBound(heap, root, k), g)
BY SearchHeld DEF UpperBound, UpToKey

\* The key at a place.
LEMMA KeyOfNumber ==
    ASSUME IInv, NEW C, NEW lo, NEW hi, NEW x, State(C, lo, hi, x),
           root # NoNode, NEW s, NEW n, HasNumber(heap, lo, hi, s, n)
    PROVE  /\ n \in 0..(Len(C) - 1) /\ KeyOf[ValueAt(heap, s)] = KeyOf[C[n + 1]]
           /\ s # NoSlot
<1>1. PICK lv, S : HeldBy(C, lo, hi, lv, S)
    BY TreeHeld
<1>2. Tree(heap, root, lv, S) /\ Holds(heap, root, lo, hi, C)
    BY <1>1 DEF HeldBy
<1>3. s \in Places(heap) /\ Number(heap, lo, hi, s) = n
    BY DEF HasNumber
<1>4. n \in 0..(Len(C) - 1) /\ ValueAt(heap, s) = C[n + 1]
    BY <1>2, <1>3, NumberIn, ValueOfNumber
<1>5. s.node \in DOMAIN heap
    BY <1>3, PlaceOnNode
<1>6. s # NoSlot
    BY <1>2, <1>5, NodeIs, SlotIs DEF NoSlot, Tree
<1>7. QED
    BY <1>4, <1>6

\* find gives the first value with the key, if there is one.
LEMMA FindHeld ==
    ASSUME IInv, NEW C, NEW lo, NEW hi, NEW x, State(C, lo, hi, x),
           root # NoNode, NEW k, NEW g, Cut(C, BelowKey(k), g)
    PROVE  IF g < Len(C) /\ KeyOf[C[g + 1]] <= k
           THEN HasNumber(heap, lo, hi, Find(heap, root, k), g)
           ELSE Find(heap, root, k) = NoSlot
<1>1. PICK s : s = LowerBound(heap, root, k)
    OBVIOUS
<1>2. IF g = Len(C) THEN s = NoSlot ELSE HasNumber(heap, lo, hi, s, g)
    BY <1>1, LowerHeld DEF Found
<1>3. Find(heap, root, k) =
         IF s # NoSlot /\ KeyOf[ValueAt(heap, s)] <= k THEN s ELSE NoSlot
    BY <1>1 DEF Find
<1>4. g \in 0..Len(C) /\ Len(C) \in Nat
    BY StateIs DEF Cut
<1>5. CASE g = Len(C)
    BY <1>2, <1>3, <1>4, <1>5
<1>6. CASE g # Len(C)
    <2>1. KeyOf[ValueAt(heap, s)] = KeyOf[C[g + 1]] /\ s # NoSlot
        BY <1>2, <1>6, KeyOfNumber
    <2>2. g < Len(C)
        BY <1>4, <1>6
    <2>3. QED
        BY <1>2, <1>3, <1>6, <2>1, <2>2
<1>7. QED
    BY <1>5, <1>6

\* In the order it is enough to look at the two neighbours.
LEMMA FitsNear ==
    ASSUME NEW C \in Seq(Values), Ordered(C), NEW v \in Values,
           NEW y, y \in 0..Len(C)
    PROVE  FitsIn(C, v, y) <=> /\ y < Len(C) => Goes(v, C[y + 1])
                               /\ y > 0 => Goes(C[y], v)
<1>1. Len(C) \in Nat /\ y \in Nat /\ KeyOf[v] \in Int
    BY KeyOfAssumption
<1>2. \A j \in 1..Len(C) : C[j] \in Values /\ KeyOf[C[j]] \in Int
    BY KeyOfAssumption
<1>3. ASSUME FitsIn(C, v, y), y < Len(C) PROVE Goes(v, C[y + 1])
    <2>1. y + 1 \in 1..Len(C) /\ ~(y + 1 <= y)
        BY <1>1, <1>3
    <2>2. QED
        BY <1>3, <2>1 DEF FitsIn
<1>4. ASSUME FitsIn(C, v, y), y > 0 PROVE Goes(C[y], v)
    <2>1. y \in 1..Len(C) /\ y <= y
        BY <1>1, <1>4
    <2>2. QED
        BY <1>4, <2>1 DEF FitsIn
<1>5. ASSUME y < Len(C) => Goes(v, C[y + 1]), y > 0 => Goes(C[y], v)
      PROVE  FitsIn(C, v, y)
    <2>1. ASSUME NEW j \in 1..Len(C)
          PROVE  IF j <= y THEN Goes(C[j], v) ELSE Goes(v, C[j])
        <3>1. CASE j <= y
            <4>1. y \in 1..Len(C) /\ y > 0
                BY <1>1, <3>1
            <4>2. Goes(C[y], v) /\ KeyOf[C[j]] \in Int /\ KeyOf[C[y]] \in Int
                BY <1>2, <1>5, <4>1
            <4>3. CASE j = y
                BY <3>1, <4>2, <4>3
            <4>4. CASE j # y
                <5>1. Goes(C[j], C[y])
                    <6>1. j < y
                        BY <1>1, <3>1, <4>4
                    <6>2. QED
                        BY <4>1, <6>1 DEF Ordered
                <5>2. Goes(C[j], v)
                    BY <1>1, <4>2, <5>1 DEF Goes
                <5>3. QED
                    BY <3>1, <5>2
            <4>5. QED
                BY <4>3, <4>4
        <3>2. CASE ~(j <= y)
            <4>1. PICK i \in 1..Len(C) : i = y + 1 /\ y < Len(C)
                BY <1>1, <3>2
            <4>2. Goes(v, C[i]) /\ KeyOf[C[j]] \in Int /\ KeyOf[C[i]] \in Int
                BY <1>2, <1>5, <4>1
            <4>3. CASE j = i
                BY <3>2, <4>2, <4>3
            <4>4. CASE j # i
                <5>1. Goes(C[i], C[j])
                    <6>1. i < j
                        BY <1>1, <3>2, <4>1, <4>4
                    <6>2. QED
                        BY <6>1 DEF Ordered
                <5>2. Goes(v, C[j])
                    BY <1>1, <4>2, <5>1 DEF Goes
                <5>3. QED
                    BY <3>2, <5>2
            <4>5. QED
                BY <4>3, <4>4
        <3>3. QED
            BY <3>1, <3>2
    <2>2. QED
        BY <2>1 DEF FitsIn
<1>6. QED
    BY <1>3, <1>4, <1>5
=============================================================================

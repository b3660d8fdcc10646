-------------------------- MODULE BTreeNodeProofs ---------------------------
(***************************************************************************)
(* Lemmas about the nodes of the B-tree: that what each operation of BTree *)
(* does to the nodes leaves a tree, and what it does to the number of      *)
(* values, for every size of the nodes and every number of them.           *)
(***************************************************************************)
EXTENDS BTree, FiniteSetTheorems, SequenceTheorems, TLAPS

(***************************************************************************)
(* Functions that recur: one exists for rules that look at places of lower *)
(* rank, and what it does is shown along the rank.                         *)
(***************************************************************************)

\* A set of natural numbers with a member has a least one.
LEMMA LeastNumber ==
    ASSUME NEW T, T \subseteq Nat, T # {}
    PROVE  \E x \in T : \A y \in T : x <= y
<1> DEFINE R == OpToRel(<, Nat)
<1>1. IsWellFoundedOn(R, Nat)
    BY NatLessThanWellFounded
<1>2. PICK x \in T : \A y \in T : ~(<<y, x>> \in R)
    BY <1>1, WFMin
<1>3. ASSUME NEW y \in T PROVE x <= y
    <2>1. ~(y < x)
        BY <1>2 DEF OpToRel
    <2>2. QED
        BY <2>1
<1>4. QED
    BY <1>2, <1>3

\* The functions on D with values in V.
Maps(D, V) == [D -> V]

\* Rules for the values of a function on D: one for each place, which looks
\* at places of lower rank only.
Ranked(rank, D, N) == rank \in [D -> Nat] /\ \A d \in D : rank[d] < N

\* In G[d][f] the value of f at d follows from its values at places of lower
\* rank.
Rules(G, D, V, rank) ==
    /\ \A d \in D, f \in Maps(D, V) : G[d][f] \in V
    /\ \A d \in D, f, g \in Maps(D, V) :
          (\A e \in D : rank[e] < rank[d] => f[e] = g[e]) => G[d][f] = G[d][g]

\* There is a function that follows such rules.
LEMMA Recursion ==
    ASSUME NEW D, NEW V, V # {}, NEW rank, NEW N \in Nat, Ranked(rank, D, N),
           NEW G, Rules(G, D, V, rank)
    PROVE  \E f \in Maps(D, V) : \A d \in D : f[d] = G[d][f]
<1> DEFINE Follows(f, n) == \A d \in D : rank[d] < n => f[d] = G[d][f]
           T == {n \in Nat : \A f \in Maps(D, V) : ~Follows(f, n)}
<1>1. ASSUME T # {} PROVE FALSE
    <2>1. PICK n \in T : \A m \in T : n <= m
        <3>1. T \subseteq Nat
            OBVIOUS
        <3> HIDE DEF T
        <3>2. QED
            BY <1>1, <3>1, LeastNumber
    <2>2. n # 0
        <3>1. PICK v : v \in V
            OBVIOUS
        <3>2. [d \in D |-> v] \in Maps(D, V)
            BY <3>1 DEF Maps
        <3>3. Follows([d \in D |-> v], 0)
            BY DEF Ranked
        <3> HIDE DEF Follows
        <3>4. QED
            BY <3>2, <3>3
    <2>3. n - 1 \in Nat /\ n - 1 \notin T
        BY <2>1, <2>2
    <2>4. PICK f \in Maps(D, V) : Follows(f, n - 1)
        BY <2>3
    <2> DEFINE g == [d \in D |-> IF rank[d] = n - 1 THEN G[d][f] ELSE f[d]]
    <2>5. g \in Maps(D, V)
        BY <2>4 DEF Rules, Maps
    <2>6. Follows(g, n)
        <3> SUFFICES ASSUME NEW d \in D, rank[d] < n PROVE g[d] = G[d][g]
            OBVIOUS
        <3>1. rank[d] \in Nat /\ (rank[d] = n - 1 \/ rank[d] < n - 1)
            BY <2>3 DEF Ranked
        <3>2. g[d] = G[d][f]
            BY <2>4, <3>1
        <3>3. \A e \in D : rank[e] < rank[d] => g[e] = f[e]
            BY <2>3, <3>1 DEF Ranked
        <3> HIDE DEF g
        <3>4. G[d][g] = G[d][f]
            BY <2>4, <2>5, <3>3 DEF Rules
        <3>5. QED
            BY <3>2, <3>4
    <2> HIDE DEF g, Follows
    <2>7. QED
        BY <2>1, <2>5, <2>6
<1>2. PICK f \in Maps(D, V) : Follows(f, N)
    BY <1>1
<1>3. QED
    BY <1>2 DEF Ranked

\* What holds of a place when it holds of all places of lower rank holds of
\* all places.
LEMMA RankInduction ==
    ASSUME NEW D, NEW rank, NEW N, Ranked(rank, D, N), NEW P,
           \A d \in D : (\A e \in D : rank[e] < rank[d] => e \in P) => d \in P
    PROVE  D \subseteq P
<1> DEFINE T == {n \in Nat : \E d \in D : rank[d] = n /\ d \notin P}
<1>1. ASSUME T # {} PROVE FALSE
    <2>1. PICK n \in T : \A m \in T : n <= m
        <3>1. T \subseteq Nat
            OBVIOUS
        <3> HIDE DEF T
        <3>2. QED
            BY <1>1, <3>1, LeastNumber
    <2>2. PICK d \in D : rank[d] = n /\ d \notin P
        OBVIOUS
    <2>3. PICK e \in D : rank[e] < rank[d] /\ e \notin P
        BY <2>2
    <2>4. rank[e] \in T /\ n \in Nat /\ rank[e] \in Nat
        BY <2>3 DEF Ranked
    <2>5. QED
        BY <2>1, <2>2, <2>3, <2>4
<1>2. QED
    BY <1>1 DEF Ranked

(***************************************************************************)
(* Numbers and sequences                                                   *)
(***************************************************************************)

\* The smaller of two numbers.
LEMMA MinOfTwo ==
    ASSUME NEW a \in Int, NEW b \in Int
    PROVE  Min({a, b}) = IF a <= b THEN a ELSE b
<1> DEFINE m == IF a <= b THEN a ELSE b
<1>1. m \in {a, b} /\ \A y \in {a, b} : m <= y
    OBVIOUS
<1>2. \A x \in {a, b} : (\A y \in {a, b} : x <= y) => x = m
    OBVIOUS
<1> HIDE DEF m
<1>3. (CHOOSE x \in {a, b} : \A y \in {a, b} : x <= y) = m
    BY <1>1, <1>2
<1>4. QED
    BY <1>3 DEF Min, m

\* The larger of two numbers.
LEMMA MaxOfTwo ==
    ASSUME NEW a \in Int, NEW b \in Int
    PROVE  Max({a, b}) = IF a >= b THEN a ELSE b
<1> DEFINE m == IF a >= b THEN a ELSE b
<1>1. m \in {a, b} /\ \A y \in {a, b} : m >= y
    OBVIOUS
<1>2. \A x \in {a, b} : (\A y \in {a, b} : x >= y) => x = m
    OBVIOUS
<1> HIDE DEF m
<1>3. (CHOOSE x \in {a, b} : \A y \in {a, b} : x >= y) = m
    BY <1>1, <1>2
<1>4. QED
    BY <1>3 DEF Max, m

\* The first k members of a sequence.
LEMMA TakeIs ==
    ASSUME NEW S, NEW s \in Seq(S), NEW k \in Nat, k <= Len(s)
    PROVE  /\ Take(s, k) \in Seq(S)
           /\ Len(Take(s, k)) = k
           /\ \A i \in 1..k : Take(s, k)[i] = s[i]
<1>1. Min({k, Len(s)}) = k
    BY MinOfTwo
<1>2. Take(s, k) = SubSeq(s, 1, k)
    BY <1>1 DEF Take
<1>3. QED
    BY <1>2

\* The members of a sequence behind the first k.
LEMMA DropIs ==
    ASSUME NEW S, NEW s \in Seq(S), NEW k \in Nat, k <= Len(s)
    PROVE  /\ Drop(s, k) \in Seq(S)
           /\ Len(Drop(s, k)) = Len(s) - k
           /\ \A i \in 1..(Len(s) - k) : Drop(s, k)[i] = s[i + k]
<1>1. /\ SubSeq(s, k + 1, Len(s)) \in Seq(S)
      /\ Len(SubSeq(s, k + 1, Len(s))) = Len(s) - k
    BY SubSeqProperties
<1>2. ASSUME NEW i \in 1..(Len(s) - k)
      PROVE  SubSeq(s, k + 1, Len(s))[i] = s[i + k]
    OBVIOUS
<1>3. QED
    BY <1>1, <1>2 DEF Drop

\* There is nothing to take of the children of a leaf.
LEMMA NothingToTake ==
    ASSUME NEW S, NEW s \in Seq(S), Len(s) = 0, NEW k \in Nat
    PROVE  /\ Take(s, k) = <<>>
           /\ Drop(s, k) = <<>>
<1>1. Min({k, 0}) = 0
    BY MinOfTwo
<1>2. QED
    BY <1>1 DEF Take, Drop

\* The members of one sequence after another.
LEMMA ConcatIs ==
    ASSUME NEW S, NEW s \in Seq(S), NEW t \in Seq(S), NEW u, u = s \o t
    PROVE  /\ u \in Seq(S)
           /\ Len(u) = Len(s) + Len(t)
           /\ \A j \in 1..Len(s) : u[j] = s[j]
           /\ \A j \in (Len(s) + 1)..(Len(s) + Len(t)) : u[j] = t[j - Len(s)]
OBVIOUS

\* The members of a sequence with e at place i.
LEMMA InsertAtIs ==
    ASSUME NEW S, NEW s \in Seq(S), NEW i \in 1..(Len(s) + 1), NEW e \in S
    PROVE  /\ InsertAt(s, i, e) \in Seq(S)
           /\ Len(InsertAt(s, i, e)) = Len(s) + 1
           /\ \A j \in 1..(Len(s) + 1) :
                 InsertAt(s, i, e)[j] = IF j < i THEN s[j]
                                        ELSE IF j = i THEN e ELSE s[j - 1]
<1> DEFINE front == SubSeq(s, 1, i - 1)
           back == SubSeq(s, i, Len(s))
<1>1. front \in Seq(S) /\ i - 1 = Len(front)
          /\ \A j \in 1..(i - 1) : front[j] = s[j]
    OBVIOUS
<1>2. /\ back \in Seq(S) /\ Len(back) = Len(s) - (i - 1)
      /\ \A j \in 1..(Len(s) - (i - 1)) : back[j] = s[j + (i - 1)]
    <2>1. PICK k \in Nat : k = i - 1 /\ k <= Len(s)
        OBVIOUS
    <2>2. back = Drop(s, k)
        BY <2>1 DEF Drop
    <2> HIDE DEF back
    <2>3. /\ back \in Seq(S) /\ Len(back) = Len(s) - k
          /\ \A j \in 1..(Len(s) - k) : back[j] = s[j + k]
        BY <2>1, <2>2, DropIs
    <2>4. QED
        BY <2>1, <2>3
<1>3. InsertAt(s, i, e) = (front \o <<e>>) \o back
    BY DEF InsertAt
<1>4. <<e>> \in Seq(S) /\ Len(<<e>>) = 1 /\ <<e>>[1] = e
    OBVIOUS
<1> DEFINE begun == front \o <<e>>
           all == begun \o back
<1>5. begun = front \o <<e>> /\ all = begun \o back
    OBVIOUS
<1>6. InsertAt(s, i, e) = all
    BY <1>3
<1> HIDE DEF front, back, begun, all
<1>7. /\ begun \in Seq(S) /\ i = Len(begun)
      /\ \A j \in 1..(i - 1) : begun[j] = s[j]
      /\ begun[i] = e
    <2>1. /\ begun \in Seq(S) /\ Len(begun) = Len(front) + 1
          /\ \A j \in 1..Len(front) : begun[j] = front[j]
          /\ \A j \in (Len(front) + 1)..(Len(front) + 1) :
                begun[j] = <<e>>[j - Len(front)]
        BY <1>1, <1>4, <1>5, ConcatIs
    <2>2. QED
        BY <1>1, <1>4, <2>1
<1>8. /\ all \in Seq(S)
      /\ Len(all) = Len(begun) + Len(back)
      /\ \A j \in 1..Len(begun) : all[j] = begun[j]
      /\ \A j \in (Len(begun) + 1)..(Len(begun) + Len(back)) :
            all[j] = back[j - Len(begun)]
    BY <1>2, <1>5, <1>7, ConcatIs
<1>9. ASSUME NEW j \in 1..(Len(s) + 1)
      PROVE  all[j] = IF j < i THEN s[j] ELSE IF j = i THEN e ELSE s[j - 1]
    <2>1. CASE j > i
        <3>1. /\ j - i \in 1..(Len(s) - (i - 1)) /\ (j - i) + (i - 1) = j - 1
              /\ j \in (i + 1)..(i + Len(back))
            BY <1>2, <2>1
        <3>2. all[j] = back[j - i]
            BY <1>7, <1>8, <3>1
        <3>3. QED
            BY <1>2, <2>1, <3>1, <3>2
    <2>2. CASE j <= i
        <3>1. all[j] = begun[j]
            BY <1>7, <1>8, <2>2
        <3>2. QED
            BY <1>7, <2>2, <3>1
    <2>3. QED
        BY <2>1, <2>2
<1>10. all \in Seq(S) /\ Len(all) = Len(s) + 1
    <2>1. Len(begun) = i /\ Len(back) = Len(s) - (i - 1)
        BY <1>2, <1>7
    <2>2. all \in Seq(S) /\ Len(all) = Len(begun) + Len(back)
        BY <1>8
    <2>3. QED
        BY <2>1, <2>2
<1>11. QED
    BY <1>6, <1>9, <1>10

\* The members of a sequence without the one at place i.
LEMMA RemoveAtIs ==
    ASSUME NEW S, NEW s \in Seq(S), NEW i \in 1..Len(s)
    PROVE  /\ RemoveAt(s, i) \in Seq(S)
           /\ Len(RemoveAt(s, i)) = Len(s) - 1
           /\ \A j \in 1..(Len(s) - 1) :
                 RemoveAt(s, i)[j] = IF j < i THEN s[j] ELSE s[j + 1]
<1> DEFINE front == SubSeq(s, 1, i - 1)
           back == SubSeq(s, i + 1, Len(s))
           all == front \o back
<1>1. front \in Seq(S) /\ i - 1 = Len(front)
          /\ \A j \in 1..(i - 1) : front[j] = s[j]
    OBVIOUS
<1>2. /\ back \in Seq(S) /\ Len(back) = Len(s) - i
      /\ \A j \in 1..(Len(s) - i) : back[j] = s[j + i]
    <2>1. back = Drop(s, i) /\ i \in Nat /\ i <= Len(s)
        BY DEF Drop
    <2>2. QED
        BY <2>1, DropIs
<1>3. RemoveAt(s, i) = all /\ all = front \o back
    BY DEF RemoveAt
<1> HIDE DEF front, back, all
<1>4. /\ all \in Seq(S) /\ Len(all) = Len(front) + Len(back)
      /\ \A j \in 1..Len(front) : all[j] = front[j]
      /\ \A j \in (Len(front) + 1)..(Len(front) + Len(back)) :
            all[j] = back[j - Len(front)]
    <2>1. front \in Seq(S) /\ back \in Seq(S) /\ all = front \o back
        BY <1>1, <1>2, <1>3
    <2>2. QED
        BY <2>1, ConcatIs
<1>5. ASSUME NEW j \in 1..(Len(s) - 1)
      PROVE  all[j] = IF j < i THEN s[j] ELSE s[j + 1]
    <2>1. CASE j < i
        BY SMTT(30), <1>1, <1>4, <2>1
    <2>2. CASE j >= i
        <3>1. Len(front) = i - 1 /\ Len(back) = Len(s) - i /\ Len(s) \in Nat
            BY <1>1, <1>2
        <3>2. /\ j - Len(front) \in 1..(Len(s) - i)
                    /\ (j - Len(front)) + i = j + 1
              /\ j \in (Len(front) + 1)..(Len(front) + Len(back))
            BY <2>2, <3>1
        <3>3. PICK k \in 1..(Len(s) - i) : k = j - Len(front) /\ k + i = j + 1
            BY <3>2
        <3>4. all[j] = back[k]
            BY <1>4, <3>2, <3>3
        <3>5. back[k] = s[k + i]
            BY <1>2
        <3>6. QED
            BY <2>2, <3>3, <3>4, <3>5
    <2>3. QED
        BY <2>1, <2>2
<1>6. all \in Seq(S) /\ Len(all) = Len(s) - 1
    BY <1>1, <1>2, <1>4
<1>7. QED
    BY <1>3, <1>5, <1>6

\* Removing behind the last place changes nothing.
LEMMA RemoveBehind ==
    ASSUME NEW S, NEW s \in Seq(S)
    PROVE  RemoveAt(s, Len(s) + 1) = s
<1>1. SubSeq(s, 1, Len(s)) = s
    BY SubSeqFull
<1>2. SubSeq(s, (Len(s) + 1) + 1, Len(s)) = <<>>
    <2>1. Len(s) \in Int /\ (Len(s) + 1) + 1 \in Int
              /\ Len(s) < (Len(s) + 1) + 1
        OBVIOUS
    <2>2. QED
        BY <2>1, SubSeqEmpty
<1>3. RemoveAt(s, Len(s) + 1) = SubSeq(s, 1, Len(s))
          \o SubSeq(s, (Len(s) + 1) + 1, Len(s))
    <2>1. (Len(s) + 1) - 1 = Len(s)
        OBVIOUS
    <2>2. QED
        BY <2>1 DEF RemoveAt
<1>4. QED
    BY <1>1, <1>2, <1>3, ConcatEmptySeq

(***************************************************************************)
(* Nodes                                                                   *)
(***************************************************************************)

\* What a node can hold: fields and arrays of base_fields.
Node == [leaf : BOOLEAN, parent : Nat, position : Nat,
         max_count : 1..NodeValues, values : Seq(Values), children : Seq(Nat)]

\* Addresses are numbers other than that of no node.
Heap(h) ==
    /\ h \in [DOMAIN h -> Node]
    /\ DOMAIN h \subseteq Nat \ {NoNode}
    /\ IsFiniteSet(DOMAIN h)

\* No two members are equal.
Distinct(s) == \A i, j \in 1..Len(s) : s[i] = s[j] => i = j

\* h after its node n was given these values and children.
Filled(h, g, n, values, kids) ==
    /\ Heap(g)
    /\ DOMAIN g = DOMAIN h
    /\ \A m \in DOMAIN h : g[m].leaf = h[m].leaf
          /\ g[m].max_count = h[m].max_count
    /\ g[n].values = values /\ g[n].children = kids
    /\ \A m \in DOMAIN h \ {n} :
          g[m].values = h[m].values /\ g[m].children = h[m].children
    /\ \A m \in DOMAIN h :
          (\A i \in 1..Len(kids) : kids[i] # m)
             => g[m].parent = h[m].parent /\ g[m].position = h[m].position
    /\ \A i \in 1..Len(kids) :
          kids[i] \in DOMAIN h
             => g[kids[i]].parent = n /\ g[kids[i]].position = i - 1

\* The types of the fields of an allocated node.
LEMMA NodeIs ==
    ASSUME NEW h, Heap(h), NEW n \in DOMAIN h
    PROVE  /\ h[n] \in Node
           /\ h[n].leaf \in BOOLEAN
           /\ h[n].parent \in Nat
           /\ h[n].position \in Nat
           /\ h[n].max_count \in 1..NodeValues
           /\ h[n].values \in Seq(Values)
           /\ h[n].children \in Seq(Nat)
           /\ n \in Nat /\ n # NoNode
<1>1. h[n] \in Node
    BY DEF Heap
<1>2. QED
    BY <1>1 DEF Heap, Node

\* What Fill does to the nodes.
LEMMA FillIs ==
    ASSUME NEW h, Heap(h), NEW n \in DOMAIN h, NEW values \in Seq(Values),
           NEW kids \in Seq(Nat), Distinct(kids),
           NEW g, g = Fill(h, n, values, kids)
    PROVE  Filled(h, g, n, values, kids)
<1> DEFINE f == [h EXCEPT ![n].values = values, ![n].children = kids]
           At(m) == CHOOSE i \in DOMAIN f[n].children : f[n].children[i] = m
<1>1. /\ DOMAIN f = DOMAIN h
      /\ f[n] = [h[n] EXCEPT !.values = values, !.children = kids]
      /\ \A m \in DOMAIN h \ {n} : f[m] = h[m]
    BY DEF Heap
<1>2. h[n] \in Node
    BY NodeIs
<1>3. /\ f[n] \in Node
      /\ f[n].leaf = h[n].leaf /\ f[n].max_count = h[n].max_count
      /\ f[n].parent = h[n].parent /\ f[n].position = h[n].position
      /\ f[n].values = values /\ f[n].children = kids
    BY <1>1, <1>2 DEF Node
<1>4. g = [m \in DOMAIN h |->
             IF m \in Range(kids)
             THEN [f[m] EXCEPT !.parent = n, !.position = At(m) - 1] ELSE f[m]]
    <2>1. g = [m \in DOMAIN f |->
                 IF m \in Range(f[n].children)
                 THEN [f[m] EXCEPT !.parent = n, !.position = At(m) - 1]
                     ELSE f[m]]
        BY DEF Fill, Adopt
    <2> HIDE DEF f, At
    <2>2. QED
        BY <1>1, <1>3, <2>1
<1>5. DOMAIN g = DOMAIN h
    BY <1>4
<1>6. ASSUME NEW i \in 1..Len(kids)
        PROVE kids[i] \in Range(kids) /\ At(kids[i]) = i
    <2> HIDE DEF f
    <2>1. DOMAIN f[n].children = 1..Len(kids) /\ f[n].children = kids
        BY <1>3
    <2>2. At(kids[i]) \in 1..Len(kids) /\ kids[At(kids[i])] = kids[i]
        BY <2>1
    <2> HIDE DEF At
    <2>3. QED
        BY <2>2 DEF Distinct, Range
<1> HIDE DEF f, At
<1>7. ASSUME NEW m \in Range(kids) PROVE \E i \in 1..Len(kids) : m = kids[i]
    BY DEF Range
<1>8. ASSUME NEW m \in DOMAIN h
      PROVE  f[m] \in Node
    BY <1>1, <1>3, NodeIs
<1>9. ASSUME NEW m \in DOMAIN h, m \notin Range(kids)
      PROVE  g[m] = f[m]
    BY <1>4, <1>9
<1>10. ASSUME NEW i \in 1..Len(kids), kids[i] \in DOMAIN h
       PROVE  /\ g[kids[i]] \in Node
              /\ g[kids[i]].parent = n /\ g[kids[i]].position = i - 1
              /\ g[kids[i]].leaf = f[kids[i]].leaf
              /\ g[kids[i]].max_count = f[kids[i]].max_count
              /\ g[kids[i]].values = f[kids[i]].values
              /\ g[kids[i]].children = f[kids[i]].children
    <2>1. g[kids[i]] = [f[kids[i]] EXCEPT !.parent = n, !.position = i - 1]
        BY <1>4, <1>6, <1>10
    <2>2. f[kids[i]] \in Node /\ n \in Nat /\ i - 1 \in Nat
        BY <1>8, <1>10, NodeIs
    <2>3. QED
        BY <2>1, <2>2 DEF Node
<1>11. ASSUME NEW m \in DOMAIN h
       PROVE  /\ g[m] \in Node
              /\ g[m].leaf = f[m].leaf
              /\ g[m].max_count = f[m].max_count
              /\ g[m].values = f[m].values
              /\ g[m].children = f[m].children
    BY <1>7, <1>8, <1>9, <1>10
<1>12. Heap(g)
    <2>1. g \in [DOMAIN g -> Node]
        BY <1>4, <1>5, <1>11
    <2>2. QED
        BY <1>5, <2>1 DEF Heap
<1>13. ASSUME NEW m \in DOMAIN h, \A i \in 1..Len(kids) : kids[i] # m
       PROVE  g[m].parent = h[m].parent /\ g[m].position = h[m].position
    <2>1. g[m] = f[m]
        BY <1>7, <1>9, <1>13
    <2>2. f[m].parent = h[m].parent /\ f[m].position = h[m].position
        BY <1>1, <1>3
    <2>3. QED
        BY <2>1, <2>2
<1>14. ASSUME NEW m \in DOMAIN h
       PROVE  g[m].leaf = h[m].leaf /\ g[m].max_count = h[m].max_count
    BY ZenonT(30), <1>1, <1>3, <1>11
<1>15. ASSUME NEW m \in DOMAIN h \ {n}
       PROVE  g[m].values = h[m].values /\ g[m].children = h[m].children
    BY <1>1, <1>11
<1>16. g[n].values = values /\ g[n].children = kids
    BY <1>3, <1>11
<1>17. QED
    BY <1>5, <1>10, <1>12, <1>13, <1>14, <1>15, <1>16 DEF Filled

(***************************************************************************)
(* Trees.  A function of levels takes the place of an induction over the   *)
(* nodes: leaves are on level 0, and a parent is one level above its       *)
(* children.                                                               *)
(***************************************************************************)

\* The children of n know it and their position, and are one level below it.
Children(h, top, lv, n) ==
    /\ Len(h[n].children) = IF h[n].leaf THEN 0 ELSE Count(h, n) + 1
    /\ \A i \in 1..Len(h[n].children) :
          /\ h[n].children[i] \in DOMAIN h /\ h[n].children[i] # top
          /\ h[h[n].children[i]].parent = n
          /\ h[h[n].children[i]].position = i - 1
          /\ lv[h[n].children[i]] + 1 = lv[n]

\* A node other than the root is where its parent has it.  S is a chain of
\* first children from the root to the leftmost leaf.
Placed(h, top, S, n) ==
    n # top =>
        /\ h[n].parent \in DOMAIN h
        /\ \E i \in 1..Len(h[h[n].parent].children) :
              /\ h[n].position = i - 1
              /\ h[h[n].parent].children[i] = n
        /\ n \in S => h[n].position = 0 /\ h[n].parent \in S

\* lv says how far a node is above the leaves.
Sized(h, top, lv, n) ==
    /\ Count(h, n) <= h[n].max_count
    /\ n # top \/ ~h[n].leaf => h[n].max_count = NodeValues
    /\ lv[n] \in Nat
    /\ h[n].leaf <=> lv[n] = 0
    /\ n # top => lv[n] < lv[top]

\* Each node of h is in place below the root top. The field parent of the root
\* holds the leftmost leaf, which is the last of S.
Tree(h, top, lv, S) ==
    /\ Heap(h)
    /\ top \in DOMAIN h
    /\ h[top].parent \in DOMAIN h /\ h[top].parent \in S
    /\ h[h[top].parent].leaf
    /\ S \subseteq DOMAIN h /\ top \in S
    /\ \A n \in DOMAIN h :
          Children(h, top, lv, n) /\ Placed(h, top, S, n)
              /\ Sized(h, top, lv, n)

\* A node counts its values.
LEMMA CountIs ==
    ASSUME NEW h, Heap(h), NEW n \in DOMAIN h
    PROVE  Count(h, n) \in Nat /\ Count(h, n) = Len(h[n].values)
BY NodeIs DEF Count

\* No child comes twice.
LEMMA KidsDistinct ==
    ASSUME NEW h, NEW top, NEW lv, NEW n, Children(h, top, lv, n)
    PROVE  Distinct(h[n].children)
<1> SUFFICES ASSUME NEW i \in 1..Len(h[n].children),
                    NEW j \in 1..Len(h[n].children),
                    h[n].children[i] = h[n].children[j]
             PROVE  i = j
    BY DEF Distinct
<1>1. i - 1 = j - 1
    BY DEF Children
<1>2. QED
    BY <1>1

\* A node other than the root is a child of its parent, at its position.
LEMMA ParentIs ==
    ASSUME NEW h, NEW top, NEW lv, NEW S, Tree(h, top, lv, S),
           NEW n \in DOMAIN h, n # top
    PROVE  /\ h[n].parent \in DOMAIN h
           /\ ~h[h[n].parent].leaf
           /\ Len(h[h[n].parent].children) = Count(h, h[n].parent) + 1
           /\ h[n].position \in 0..Count(h, h[n].parent)
           /\ h[h[n].parent].children[h[n].position + 1] = n
           /\ Child(h, h[n].parent, h[n].position) = n
           /\ lv[h[n].parent] = lv[n] + 1
<1>1. Placed(h, top, S, n) /\ Heap(h)
    BY DEF Tree
<1>2. PICK m \in DOMAIN h : m = h[n].parent
    BY <1>1 DEF Placed
<1>3. PICK i \in 1..Len(h[m].children) : h[n].position = i - 1
          /\ h[m].children[i] = n
    BY <1>1, <1>2 DEF Placed
<1>4. Children(h, top, lv, m)
    BY DEF Tree
<1>5. Count(h, m) \in Nat /\ h[m].leaf \in BOOLEAN
          /\ Len(h[m].children) \in Nat
    BY <1>1, CountIs, NodeIs
<1>6. ~h[m].leaf /\ Len(h[m].children) = Count(h, m) + 1
    BY <1>4, <1>5 DEF Children
<1>7. (i - 1) + 1 = i /\ i - 1 \in 0..Count(h, m)
    BY <1>5, <1>6
<1>8. lv[n] + 1 = lv[m]
    BY <1>3, <1>4 DEF Children
<1>9. QED
    BY <1>2, <1>3, <1>6, <1>7, <1>8 DEF Child

\* A child of an internal node knows it and its position.
LEMMA ChildIs ==
    ASSUME NEW h, NEW top, NEW lv, NEW S, Tree(h, top, lv, S),
           NEW n \in DOMAIN h, ~h[n].leaf, NEW i \in 0..Count(h, n)
    PROVE  /\ Child(h, n, i) \in DOMAIN h
           /\ Child(h, n, i) # top
           /\ h[Child(h, n, i)].parent = n
           /\ h[Child(h, n, i)].position = i
           /\ lv[Child(h, n, i)] + 1 = lv[n]
           /\ i + 1 \in 1..Len(h[n].children)
<1>1. Children(h, top, lv, n) /\ Heap(h)
    BY DEF Tree
<1>2. Count(h, n) \in Nat
    BY <1>1, CountIs
<1>3. PICK j \in 1..Len(h[n].children) : j = i + 1 /\ j - 1 = i
    BY <1>1, <1>2 DEF Children
<1>4. QED
    BY <1>1, <1>3 DEF Children, Child

\* The right sibling of a node.
LEMMA RightIs ==
    ASSUME NEW h, NEW top, NEW lv, NEW S, Tree(h, top, lv, S),
           NEW n \in DOMAIN h, n # top, HasRight(h, n)
    PROVE  /\ Right(h, n) \in DOMAIN h
           /\ Right(h, n) # top /\ Right(h, n) # n
           /\ h[Right(h, n)].parent = h[n].parent
           /\ h[Right(h, n)].position = h[n].position + 1
           /\ lv[Right(h, n)] = lv[n]
           /\ Right(h, n) \notin S
<1>1. PICK p \in DOMAIN h : p = h[n].parent /\ ~h[p].leaf /\ lv[p] = lv[n] + 1
    BY ParentIs
<1>2. /\ Heap(h) /\ h[n].position \in Nat /\ Count(h, p) \in Nat
      /\ lv[n] \in Nat
    BY NodeIs, CountIs DEF Tree, Sized
<1>3. PICK i \in 0..Count(h, p) : i = h[n].position + 1
    BY <1>1, <1>2 DEF HasRight
<1>4. PICK r \in DOMAIN h : r = Child(h, p, i) /\ r # top
                            /\ h[r].parent = p /\ h[r].position = i
                            /\ lv[r] + 1 = lv[p]
    BY <1>1, ChildIs
<1>5. Right(h, n) = r
    BY <1>1, <1>3, <1>4 DEF Right
<1>6. r # n /\ i # 0
    BY <1>2, <1>3, <1>4
<1>7. r \notin S
    BY <1>4, <1>6 DEF Tree, Placed
<1>8. lv[r] = lv[n]
    <2>1. lv[r] \in Nat
        BY DEF Tree, Sized
    <2>2. QED
        BY <1>1, <1>2, <1>4, <2>1
<1>9. QED
    BY <1>1, <1>3, <1>4, <1>5, <1>6, <1>7, <1>8

\* The node is the one on the right of the sibling on its left.
LEMMA LeftIs ==
    ASSUME NEW h, NEW top, NEW lv, NEW S, Tree(h, top, lv, S),
           NEW n \in DOMAIN h, n # top, HasLeft(h, n)
    PROVE  /\ Left(h, n) \in DOMAIN h
           /\ Left(h, n) # top /\ Left(h, n) # n
           /\ h[Left(h, n)].parent = h[n].parent
           /\ h[Left(h, n)].position = h[n].position - 1
           /\ HasRight(h, Left(h, n))
           /\ Right(h, Left(h, n)) = n
<1>1. PICK p \in DOMAIN h : p = h[n].parent /\ ~h[p].leaf
                            /\ h[n].position \in 0..Count(h, p)
                            /\ h[p].children[h[n].position + 1] = n
    BY ParentIs
<1>2. h[n].position \in Nat /\ Count(h, p) \in Nat
    BY NodeIs, CountIs DEF Tree
<1>3. PICK i \in 0..Count(h, p) : i = h[n].position - 1
    BY <1>1, <1>2 DEF HasLeft
<1>4. PICK l \in DOMAIN h : l = Child(h, p, i) /\ l # top
                            /\ h[l].parent = p /\ h[l].position = i
    BY <1>1, ChildIs
<1>5. Left(h, n) = l
    BY <1>1, <1>3, <1>4 DEF Left
<1>6. HasRight(h, l)
    BY <1>1, <1>2, <1>3, <1>4 DEF HasRight
<1>7. i + 1 = h[n].position
    BY <1>2, <1>3
<1>8. Right(h, l) = n
    BY <1>1, <1>4, <1>7 DEF Right, Child
<1>9. l # n
    BY <1>2, <1>3, <1>4
<1>10. QED
    BY <1>1, <1>3, <1>4, <1>5, <1>6, <1>8, <1>9

(***************************************************************************)
(* What filling a node does to a tree                                      *)
(***************************************************************************)

\* No member of one is a member of the other.
Apart(s, t) == \A i \in 1..Len(s), j \in 1..Len(t) : s[i] # t[j]

\* Only n counts other values after it was filled.
LEMMA FilledCounts ==
    ASSUME NEW h, NEW g, NEW n, NEW values, NEW kids,
           Filled(h, g, n, values, kids)
    PROVE  /\ Count(g, n) = Len(values)
           /\ \A m \in DOMAIN h \ {n} : Count(g, m) = Count(h, m)
BY DEF Filled, Count

\* The children of another node stay when none of them moves to n.
LEMMA OtherChildren ==
    ASSUME NEW h, NEW g, NEW n, NEW values, NEW kids,
           Filled(h, g, n, values, kids), NEW top, NEW lv,
           NEW m \in DOMAIN h, m # n, Children(h, top, lv, m),
           Apart(h[m].children, kids)
    PROVE  Children(g, top, lv, m)
<1>1. g[m].children = h[m].children /\ g[m].leaf = h[m].leaf
          /\ Count(g, m) = Count(h, m)
    <2>1. m \in DOMAIN h \ {n}
        OBVIOUS
    <2>2. Count(g, m) = Count(h, m)
        BY <2>1, FilledCounts
    <2>3. QED
        BY <2>1, <2>2 DEF Filled
<1>2. ASSUME NEW i \in 1..Len(h[m].children)
      PROVE  /\ h[m].children[i] \in DOMAIN g /\ h[m].children[i] # top
             /\ g[h[m].children[i]].parent = m
             /\ g[h[m].children[i]].position = i - 1
             /\ lv[h[m].children[i]] + 1 = lv[m]
    <2>1. PICK x \in DOMAIN h : /\ x = h[m].children[i] /\ x # top
                                      /\ h[x].parent = m
                                /\ h[x].position = i - 1 /\ lv[x] + 1 = lv[m]
        BY DEF Children
    <2>2. \A j \in 1..Len(kids) : kids[j] # x
        BY <2>1 DEF Apart
    <2>3. x \in DOMAIN g /\ g[x].parent = m /\ g[x].position = i - 1
        BY <2>1, <2>2 DEF Filled
    <2>4. QED
        BY <2>1, <2>3
<1>3. Len(h[m].children) = IF h[m].leaf THEN 0 ELSE Count(h, m) + 1
    BY DEF Children
<1>4. QED
    BY <1>1, <1>2, <1>3 DEF Children

\* The children of n after it was filled.
LEMMA FilledChildren ==
    ASSUME NEW h, NEW g, NEW n \in DOMAIN h, NEW values, NEW kids,
           Filled(h, g, n, values, kids), NEW top, NEW lv,
           Len(kids) = IF h[n].leaf THEN 0 ELSE Len(values) + 1,
           \A i \in 1..Len(kids) :
              kids[i] \in DOMAIN h /\ kids[i] # top /\ lv[kids[i]] + 1 = lv[n]
    PROVE  Children(g, top, lv, n)
<1>1. g[n].children = kids /\ g[n].leaf = h[n].leaf
          /\ Count(g, n) = Len(values)
    BY FilledCounts DEF Filled
<1>2. \A i \in 1..Len(kids) : g[kids[i]].parent = n
          /\ g[kids[i]].position = i - 1
    BY DEF Filled
<1>3. DOMAIN g = DOMAIN h
    BY DEF Filled
<1>4. QED
    BY <1>1, <1>2, <1>3 DEF Children

\* A child that n was filled with has its place there.
LEMMA KidPlaced ==
    ASSUME NEW h, NEW g, NEW n \in DOMAIN h, NEW values, NEW kids,
           Filled(h, g, n, values, kids), NEW top, NEW S,
           NEW i \in 1..Len(kids), kids[i] \in DOMAIN h,
           kids[i] \in S => i = 1 /\ n \in S
    PROVE  Placed(g, top, S, kids[i])
<1>1. g[n].children = kids /\ DOMAIN g = DOMAIN h
    BY DEF Filled
<1>2. PICK x \in DOMAIN h : x = kids[i]
    OBVIOUS
<1>3. g[x].parent = n /\ g[x].position = i - 1
    BY <1>2 DEF Filled
<1>4. QED
    BY <1>1, <1>2, <1>3 DEF Placed

\* A node that was no child of n, and is none now, keeps its place.
LEMMA OtherPlaced ==
    ASSUME NEW h, NEW g, NEW n \in DOMAIN h, NEW values, NEW kids,
           Filled(h, g, n, values, kids), NEW top, NEW S,
           NEW x \in DOMAIN h, \A i \in 1..Len(kids) : kids[i] # x,
           Placed(h, top, S, x), h[x].parent # n
    PROVE  Placed(g, top, S, x)
<1>1. g[x].parent = h[x].parent /\ g[x].position = h[x].position
          /\ DOMAIN g = DOMAIN h
    BY DEF Filled
<1>2. ASSUME x # top
      PROVE  g[h[x].parent].children = h[h[x].parent].children
    BY <1>2 DEF Filled, Placed
<1>3. QED
    BY <1>1, <1>2 DEF Placed

\* Sizes and levels stay when n does not get too many values.
LEMMA FilledSized ==
    ASSUME NEW h, NEW g, NEW n \in DOMAIN h, NEW values, NEW kids,
           Filled(h, g, n, values, kids), NEW top, NEW lv,
           NEW m \in DOMAIN h, Sized(h, top, lv, m),
           m = n => Len(values) <= h[n].max_count
    PROVE  Sized(g, top, lv, m)
<1>1. g[m].leaf = h[m].leaf /\ g[m].max_count = h[m].max_count
    BY DEF Filled
<1>2. Count(g, m) <= g[m].max_count
    BY <1>1, FilledCounts DEF Sized
<1>3. QED
    BY <1>1, <1>2 DEF Sized

\* The values of leaves may change, and those of internal nodes as long as
\* there are as many.
LEMMA ValuesMayChange ==
    ASSUME NEW h, NEW g, NEW top, NEW lv, NEW S, Tree(h, top, lv, S),
           DOMAIN g = DOMAIN h, Heap(g),
           \A m \in DOMAIN h :
              /\ g[m].leaf = h[m].leaf /\ g[m].max_count = h[m].max_count
              /\ g[m].parent = h[m].parent /\ g[m].position = h[m].position
              /\ g[m].children = h[m].children
              /\ h[m].leaf \/ Count(g, m) = Count(h, m)
              /\ Count(g, m) <= h[m].max_count
    PROVE  Tree(g, top, lv, S)
<1>1. ASSUME NEW n \in DOMAIN h PROVE Children(g, top, lv, n)
    <2>1. Children(h, top, lv, n)
        BY DEF Tree
    <2>2. Len(g[n].children) = IF g[n].leaf THEN 0 ELSE Count(g, n) + 1
        BY <2>1 DEF Children
    <2>3. QED
        BY <2>1, <2>2 DEF Children
<1>2. ASSUME NEW n \in DOMAIN h PROVE Placed(g, top, S, n)
    BY DEF Tree, Placed
<1>3. ASSUME NEW n \in DOMAIN h PROVE Sized(g, top, lv, n)
    BY DEF Tree, Sized
<1>4. /\ top \in DOMAIN g /\ g[top].parent \in DOMAIN g /\ g[top].parent \in S
      /\ g[g[top].parent].leaf /\ S \subseteq DOMAIN g /\ top \in S
    BY DEF Tree
<1>5. QED
    BY <1>1, <1>2, <1>3, <1>4 DEF Tree

(***************************************************************************)
(* Two siblings share their children out again                             *)
(***************************************************************************)

\* The children of two neighbours, in order.
Both(h, n, r) == h[n].children \o h[r].children

\* u holds the children of both.
Gathered(h, top, lv, S, n, r, u) ==
    /\ u \in Seq(Nat) /\ Distinct(u)
    /\ Len(u) = Len(h[n].children) + Len(h[r].children)
    /\ \A i \in 1..Len(h[n].children) : u[i] = h[n].children[i]
    /\ \A i \in 1..Len(h[r].children) :
          u[Len(h[n].children) + i] = h[r].children[i]
    /\ \A i \in 1..Len(u) :
          /\ u[i] \in DOMAIN h /\ u[i] # top
          /\ h[u[i]].parent \in {n, r}
          /\ lv[u[i]] + 1 = lv[n]
          /\ u[i] \in S => i = 1 /\ n \in S
    /\ \A x \in DOMAIN h :
          x # top /\ h[x].parent \in {n, r} => \E i \in 1..Len(u) : u[i] = x
    /\ h[n].leaf = h[r].leaf
    /\ (h[n].leaf => Len(u) = 0)
    /\ ~h[n].leaf => Len(u) = Count(h, n) + Count(h, r) + 2

\* The children of two nodes of one level, gathered.
LEMMA BothIs ==
    ASSUME NEW h, NEW top, NEW lv, NEW S, Tree(h, top, lv, S),
           NEW n \in DOMAIN h, NEW r \in DOMAIN h, n # r, lv[n] = lv[r],
           r \notin S, NEW u, u = Both(h, n, r)
    PROVE  Gathered(h, top, lv, S, n, r, u)
<1> DEFINE a == h[n].children
           b == h[r].children
<1>1. Heap(h) /\ Children(h, top, lv, n) /\ Children(h, top, lv, r)
    BY DEF Tree
<1>2. a \in Seq(Nat) /\ b \in Seq(Nat)
    BY <1>1, NodeIs
<1>3. u = a \o b
    BY DEF Both
<1>4. Distinct(a) /\ Distinct(b)
    BY <1>1, KidsDistinct
<1>5. \A i \in 1..Len(a) : /\ a[i] \in DOMAIN h /\ a[i] # top
                           /\ h[a[i]].parent = n /\ lv[a[i]] + 1 = lv[n]
                           /\ h[a[i]].position = i - 1
    BY <1>1 DEF Children
<1>6. \A i \in 1..Len(b) : /\ b[i] \in DOMAIN h /\ b[i] # top
                           /\ h[b[i]].parent = r /\ lv[b[i]] + 1 = lv[n]
    BY <1>1 DEF Children
<1>7. /\ h[n].leaf \in BOOLEAN /\ h[r].leaf \in BOOLEAN
      /\ Count(h, n) \in Nat /\ Count(h, r) \in Nat
    BY <1>1, NodeIs, CountIs
<1>8. h[n].leaf = h[r].leaf
    <2>1. /\ h[n].leaf <=> lv[n] = 0
          /\ h[r].leaf <=> lv[r] = 0
        BY DEF Tree, Sized
    <2>2. QED
        BY <1>7, <2>1
<1>9. /\ h[n].leaf => Len(a) = 0 /\ Len(b) = 0
      /\ ~h[n].leaf => Len(a) = Count(h, n) + 1 /\ Len(b) = Count(h, r) + 1
    BY <1>1, <1>7, <1>8 DEF Children
<1> HIDE DEF a, b
<1>10. /\ u \in Seq(Nat) /\ Len(u) = Len(a) + Len(b)
       /\ \A i \in 1..Len(a) : u[i] = a[i]
       /\ \A i \in (Len(a) + 1)..(Len(a) + Len(b)) : u[i] = b[i - Len(a)]
    BY <1>2, <1>3, ConcatIs
<1>11. ASSUME NEW i \in 1..Len(b) PROVE u[Len(a) + i] = b[i]
    <2>1. Len(a) \in Nat /\ Len(b) \in Nat
        BY <1>2
    <2>2. /\ Len(a) + i \in (Len(a) + 1)..(Len(a) + Len(b))
          /\ (Len(a) + i) - Len(a) = i
        BY <2>1
    <2>3. PICK j \in (Len(a) + 1)..(Len(a) + Len(b)) :
              j = Len(a) + i /\ j - Len(a) = i
        BY <2>2
    <2>4. u[j] = b[j - Len(a)]
        BY <1>10, <2>3
    <2>5. QED
        BY <2>3, <2>4
<1>12. ASSUME NEW i \in 1..Len(u), i > Len(a)
       PROVE  \E j \in 1..Len(b) : i = Len(a) + j /\ u[i] = b[j]
    <2>1. PICK j \in 1..Len(b) : i = Len(a) + j
        <3>1. i - Len(a) \in 1..Len(b) /\ i = Len(a) + (i - Len(a))
            BY <1>2, <1>10, <1>12
        <3>2. QED
            BY <3>1
    <2>2. QED
        BY <1>11, <2>1
<1>13. ASSUME NEW i \in 1..Len(u), i <= Len(a)
       PROVE  i \in 1..Len(a) /\ u[i] = a[i]
    BY <1>10, <1>13
<1>14. ASSUME NEW i \in 1..Len(u)
       PROVE  /\ u[i] \in DOMAIN h /\ u[i] # top
              /\ lv[u[i]] + 1 = lv[n]
              /\ h[u[i]].parent = IF i <= Len(a) THEN n ELSE r
    <2>1. CASE i <= Len(a)
        BY <1>5, <1>13, <2>1
    <2>2. CASE i > Len(a)
        <3>1. ~(i <= Len(a))
            BY <1>2, <2>2
        <3>2. QED
            BY <1>6, <1>12, <2>2, <3>1
    <2>3. QED
        BY <1>2, <2>1, <2>2
<1>15. ASSUME NEW i \in 1..Len(u), NEW j \in 1..Len(u), u[i] = u[j]
       PROVE  i = j
    <2>1. i <= Len(a) <=> j <= Len(a)
        BY <1>14, <1>15
    <2>2. CASE i <= Len(a)
        BY <1>4, <1>13, <1>15, <2>1, <2>2 DEF Distinct
    <2>3. CASE i > Len(a)
        <3>1. j > Len(a)
            BY <1>2, <2>1, <2>3
        <3>2. PICK x \in 1..Len(b) : i = Len(a) + x /\ u[i] = b[x]
            BY <1>12, <2>3
        <3>3. PICK y \in 1..Len(b) : j = Len(a) + y /\ u[j] = b[y]
            BY <1>12, <3>1
        <3>4. x = y
            BY <1>4, <1>15, <3>2, <3>3 DEF Distinct
        <3>5. QED
            BY <3>2, <3>3, <3>4
    <2>4. QED
        BY <1>2, <2>2, <2>3
<1>16. /\ h[n].leaf => Len(u) = 0
       /\ ~h[n].leaf => Len(u) = Count(h, n) + Count(h, r) + 2
    <2>1. Len(u) = Len(a) + Len(b)
        BY <1>10
    <2>2. CASE h[n].leaf
        <3>1. Len(a) = 0 /\ Len(b) = 0
            BY <1>9, <2>2
        <3>2. QED
            BY <2>1, <2>2, <3>1
    <2>3. CASE ~h[n].leaf
        <3>1. Len(a) = Count(h, n) + 1 /\ Len(b) = Count(h, r) + 1
            BY <1>9, <2>3
        <3>2. (Count(h, n) + 1) + (Count(h, r) + 1)
                  = Count(h, n) + Count(h, r) + 2
            BY <1>7
        <3>3. QED
            BY <2>1, <2>3, <3>1, <3>2
    <2>4. QED
        BY <2>2, <2>3
<1>17. \A i \in 1..Len(u) : h[u[i]].parent \in {n, r}
    BY <1>14
<1>18. Distinct(u)
    BY <1>15 DEF Distinct
<1>19. \A i \in 1..Len(u) : /\ u[i] \in DOMAIN h /\ u[i] # top
                             /\ h[u[i]].parent \in {n, r}
                             /\ lv[u[i]] + 1 = lv[n]
    BY <1>14, <1>17
<1>20. ASSUME NEW i \in 1..Len(u), u[i] \in S PROVE i = 1 /\ n \in S
    <2>1. PICK x \in DOMAIN h : x = u[i] /\ x # top
        BY <1>14
    <2>2. h[x].position = 0 /\ h[x].parent \in S
        BY <1>20, <2>1 DEF Tree, Placed
    <2>3. i <= Len(a) /\ h[x].parent = n
        BY <1>14, <2>1, <2>2
    <2>4. h[x].position = i - 1
        BY <1>5, <1>13, <2>1, <2>3
    <2>5. QED
        BY <2>2, <2>3, <2>4
<1>21. ASSUME NEW x \in DOMAIN h, x # top, h[x].parent \in {n, r}
       PROVE  \E i \in 1..Len(u) : u[i] = x
    <2>1. PICK i \in 1..Len(h[h[x].parent].children) :
              h[h[x].parent].children[i] = x
        BY <1>21 DEF Tree, Placed
    <2>2. Len(a) \in Nat /\ Len(b) \in Nat
        BY <1>2
    <2>3. CASE h[x].parent = n
        <3>1. i \in 1..Len(a) /\ a[i] = x
            BY <2>1, <2>3 DEF a
        <3>2. i \in 1..Len(u) /\ u[i] = x
            BY <1>10, <2>2, <3>1
        <3>3. QED
            BY <3>2
    <2>4. CASE h[x].parent = r
        <3>1. i \in 1..Len(b) /\ b[i] = x
            BY <2>1, <2>4 DEF b
        <3>2. Len(a) + i \in 1..(Len(a) + Len(b))
            BY <2>2, <3>1
        <3>3. PICK j \in 1..Len(u) : j = Len(a) + i
            BY <1>10, <3>2
        <3>4. QED
            BY <1>11, <3>1, <3>3
    <2>5. QED
        BY <1>21, <2>3, <2>4
<1> USE DEF a, b
<1>22. QED
    BY <1>8, <1>10, <1>11, <1>16, <1>18, <1>19, <1>20, <1>21 DEF Gathered

\* A sequence of children, taken apart.
Halves(u, k, t, d) ==
    /\ t \in Seq(Nat) /\ d \in Seq(Nat)
    /\ Distinct(t) /\ Distinct(d) /\ Apart(t, d)
    /\ Len(u) = 0 => Len(t) = 0 /\ Len(d) = 0
    /\ Len(u) # 0 => Len(t) = k /\ Len(d) = Len(u) - k
    /\ \A i \in 1..Len(t) : i \in 1..Len(u) /\ t[i] = u[i]
    /\ \A i \in 1..Len(d) : i + k \in 1..Len(u) /\ d[i] = u[i + k]
    /\ \A j \in 1..Len(u) : \/ \E i \in 1..Len(t) : t[i] = u[j]
                            \/ \E i \in 1..Len(d) : d[i] = u[j]

\* Taking the first k children and dropping them takes children apart.
LEMMA HalvesAre ==
    ASSUME NEW u \in Seq(Nat), Distinct(u), NEW k \in Nat,
           Len(u) = 0 \/ k <= Len(u)
    PROVE  Halves(u, k, Take(u, k), Drop(u, k))
<1>1. CASE Len(u) = 0
    <2>1. Take(u, k) = <<>> /\ Drop(u, k) = <<>>
        BY <1>1, NothingToTake
    <2>2. QED
        BY <1>1, <2>1 DEF Halves, Distinct, Apart
<1>2. CASE Len(u) # 0
    <2> DEFINE t == Take(u, k)
               d == Drop(u, k)
    <2>1. /\ t \in Seq(Nat) /\ Len(t) = k
          /\ \A i \in 1..k : t[i] = u[i]
        BY <1>2, TakeIs
    <2>2. /\ d \in Seq(Nat) /\ Len(d) = Len(u) - k
          /\ \A i \in 1..(Len(u) - k) : d[i] = u[i + k]
        BY <1>2, DropIs
    <2>3. Len(u) \in Nat
        OBVIOUS
    <2> HIDE DEF t, d
    <2>4. ASSUME NEW i \in 1..Len(t) PROVE i \in 1..Len(u) /\ t[i] = u[i]
        BY <1>2, <2>1, <2>3
    <2>5. ASSUME NEW i \in 1..Len(d)
            PROVE i + k \in 1..Len(u) /\ d[i] = u[i + k]
        BY <1>2, <2>2, <2>3
    <2>6. ASSUME NEW i \in 1..Len(t), NEW j \in 1..Len(t), t[i] = t[j]
            PROVE i = j
        BY <2>4, <2>6 DEF Distinct
    <2>7. ASSUME NEW i \in 1..Len(d), NEW j \in 1..Len(d), d[i] = d[j]
            PROVE i = j
        <3>1. PICK a \in 1..Len(u) : a = i + k /\ d[i] = u[a]
            BY <2>5
        <3>2. PICK b \in 1..Len(u) : b = j + k /\ d[j] = u[b]
            BY <2>5
        <3>3. a = b
            BY <2>7, <3>1, <3>2 DEF Distinct
        <3>4. QED
            BY <3>1, <3>2, <3>3
    <2>8. ASSUME NEW i \in 1..Len(t), NEW j \in 1..Len(d) PROVE t[i] # d[j]
        <3>1. i <= k /\ i \in 1..Len(u) /\ t[i] = u[i]
            BY <2>1, <2>4
        <3>2. PICK b \in 1..Len(u) : b = j + k /\ d[j] = u[b]
            BY <2>5
        <3>3. i # b
            BY <3>1, <3>2
        <3>4. QED
            BY <3>1, <3>2, <3>3 DEF Distinct
    <2>9. ASSUME NEW j \in 1..Len(u)
          PROVE  \/ \E i \in 1..Len(t) : t[i] = u[j]
                 \/ \E i \in 1..Len(d) : d[i] = u[j]
        <3>1. CASE j <= k
            <4>1. j \in 1..Len(t)
                BY <2>1, <3>1
            <4>2. QED
                BY <2>4, <4>1
        <3>2. CASE j > k
            <4>1. j - k \in 1..(Len(u) - k) /\ (j - k) + k = j
                BY <2>3, <3>2
            <4>2. PICK i \in 1..Len(d) : i + k = j
                BY <2>2, <4>1
            <4>3. QED
                BY <2>5, <4>2
        <3>3. QED
            BY <3>1, <3>2
    <2>10. Distinct(t) /\ Distinct(d) /\ Apart(t, d)
        BY <2>6, <2>7, <2>8 DEF Distinct, Apart
    <2>11. Halves(u, k, t, d)
        BY <1>2, <2>1, <2>2, <2>4, <2>5, <2>9, <2>10 DEF Halves
    <2>12. QED
        BY <2>11 DEF t, d
<1>3. QED
    BY <1>1, <1>2

\* Sharing out: the state after both nodes were filled.
LEMMA SharedTree ==
    ASSUME NEW h, NEW top, NEW lv, NEW S, Tree(h, top, lv, S),
           NEW n \in DOMAIN h,
           NEW r \in DOMAIN h, n # r, lv[n] = lv[r], r \notin S,
           NEW u, u = Both(h, n, r), NEW k \in Nat, NEW t, NEW d,
           Halves(u, k + 1, t, d), Len(u) # 0 => k + 1 <= Len(u),
           NEW left, NEW right, Len(left) = k,
           Len(right) = Count(h, n) + Count(h, r) - k,
           Len(left) <= h[n].max_count, Len(right) <= h[r].max_count,
           NEW f, Filled(h, f, n, left, t), NEW g, Filled(f, g, r, right, d)
    PROVE  Tree(g, top, lv, S)
<1>1. /\ Heap(h) /\ top \in DOMAIN h /\ DOMAIN f = DOMAIN h
            /\ DOMAIN g = DOMAIN h
      /\ Heap(f) /\ Heap(g)
    BY DEF Tree, Filled
<1>2. Gathered(h, top, lv, S, n, r, u)
    BY BothIs
<1>3. /\ h[n].leaf = h[r].leaf
      /\ h[n].leaf => Len(u) = 0
      /\ ~h[n].leaf => Len(u) = Count(h, n) + Count(h, r) + 2
    BY <1>2 DEF Gathered
<1>4. Count(h, n) \in Nat /\ Count(h, r) \in Nat
    BY <1>1, CountIs
<1>5. ASSUME NEW i \in 1..Len(t)
      PROVE  /\ t[i] \in DOMAIN h /\ t[i] # top
             /\ h[t[i]].parent \in {n, r}
             /\ lv[t[i]] + 1 = lv[n]
             /\ t[i] \in S => i = 1 /\ n \in S
    <2>1. i \in 1..Len(u) /\ t[i] = u[i]
        BY DEF Halves
    <2>2. QED
        BY ZenonT(30), <1>2, <2>1 DEF Gathered
<1>6. ASSUME NEW i \in 1..Len(d)
      PROVE  /\ d[i] \in DOMAIN h /\ d[i] # top
             /\ h[d[i]].parent \in {n, r}
             /\ lv[d[i]] + 1 = lv[n]
             /\ d[i] \notin S
    <2>1. PICK j \in 1..Len(u) : j = i + (k + 1) /\ d[i] = u[j]
        BY DEF Halves
    <2>2. j # 1
        BY <2>1
    <2>3. /\ u[j] \in DOMAIN h /\ u[j] # top
          /\ h[u[j]].parent \in {n, r}
          /\ lv[u[j]] + 1 = lv[n]
        BY <1>2 DEF Gathered
    <2>4. u[j] \in S => j = 1
        BY <1>2 DEF Gathered
    <2>5. QED
        BY <2>1, <2>2, <2>3, <2>4
<1>7. /\ Len(t) = IF h[n].leaf THEN 0 ELSE Len(left) + 1
      /\ Len(d) = IF h[r].leaf THEN 0 ELSE Len(right) + 1
    <2>1. h[n].leaf \in BOOLEAN
        BY <1>1, NodeIs
    <2>2. CASE h[n].leaf
        <3>1. Len(u) = 0 /\ h[r].leaf
            BY <1>3, <2>2
        <3>2. Len(t) = 0 /\ Len(d) = 0
            BY <3>1 DEF Halves
        <3>3. QED
            BY <2>2, <3>1, <3>2
    <2>3. CASE ~h[n].leaf
        <3>1. Len(u) # 0 /\ Len(u) - (k + 1) = Len(right) + 1
            BY <1>3, <1>4, <2>3
        <3>2. Len(t) = k + 1 /\ Len(d) = Len(u) - (k + 1)
            BY <3>1 DEF Halves
        <3>3. ~h[r].leaf
            BY <1>3, <2>3
        <3>4. QED
            BY <2>3, <3>1, <3>2, <3>3
    <2>4. QED
        BY <2>1, <2>2, <2>3
<1>8. /\ f[n].leaf = h[n].leaf /\ f[r].leaf = h[r].leaf
      /\ f[r].max_count = h[r].max_count
      /\ f[n].children = t
      /\ \A m \in DOMAIN h \ {n} : f[m].children = h[m].children
    BY DEF Filled
<1>9. ASSUME NEW m \in DOMAIN h PROVE Children(g, top, lv, m)
    <2>1. CASE m = n
        <3>1. Children(f, top, lv, n)
            BY <1>5, <1>7, FilledChildren
        <3>2. Apart(f[n].children, d)
            BY <1>8 DEF Halves
        <3>3. QED
            BY <1>1, <2>1, <3>1, <3>2, OtherChildren
    <2>2. CASE m = r
        <3>1. Len(d) = IF f[r].leaf THEN 0 ELSE Len(right) + 1
            BY <1>7, <1>8
        <3>2. \A i \in 1..Len(d) :
                 d[i] \in DOMAIN f /\ d[i] # top /\ lv[d[i]] + 1 = lv[r]
            BY <1>1, <1>6
        <3>3. r \in DOMAIN f
            BY <1>1
        <3>4. QED
            BY <2>2, <3>1, <3>2, <3>3, FilledChildren
    <2>3. CASE m # n /\ m # r
        <3>1. Children(h, top, lv, m)
            BY DEF Tree
        <3>2. \A i \in 1..Len(h[m].children) : h[h[m].children[i]].parent = m
            BY <3>1 DEF Children
        <3>3. Apart(h[m].children, t)
            BY <1>5, <2>3, <3>2 DEF Apart
        <3>4. Apart(h[m].children, d)
            BY <1>6, <2>3, <3>2 DEF Apart
        <3>5. Children(f, top, lv, m)
            BY <2>3, <3>1, <3>3, OtherChildren
        <3>6. Apart(f[m].children, d)
            BY <1>8, <2>3, <3>4
        <3>7. QED
            BY <1>1, <2>3, <3>5, <3>6, OtherChildren
    <2>4. QED
        BY <2>1, <2>2, <2>3
<1>10. ASSUME NEW x \in DOMAIN h, x # top PROVE Placed(g, top, S, x)
    <2>1. CASE \E i \in 1..Len(t) : t[i] = x
        <3>1. PICK i \in 1..Len(t) : t[i] = x
            BY <2>1
        <3>2. Placed(f, top, S, x)
            BY <1>5, <3>1, KidPlaced
        <3>3. f[x].parent = n
            BY <1>5, <3>1 DEF Filled
        <3>4. \A j \in 1..Len(d) : d[j] # x
            BY <3>1 DEF Halves, Apart
        <3>5. x \in DOMAIN f /\ r \in DOMAIN f
            BY <1>1
        <3>6. QED
            BY <3>2, <3>3, <3>4, <3>5, OtherPlaced
    <2>2. CASE \E i \in 1..Len(d) : d[i] = x
        <3>1. PICK i \in 1..Len(d) : d[i] = x
            BY <2>2
        <3>2. d[i] \in DOMAIN f /\ r \in DOMAIN f /\ d[i] \notin S
            BY <1>1, <1>6
        <3>3. QED
            BY <3>1, <3>2, KidPlaced
    <2>3. CASE /\ \A i \in 1..Len(t) : t[i] # x
               /\ \A i \in 1..Len(d) : d[i] # x
        <3>1. ASSUME NEW i \in 1..Len(u) PROVE u[i] # x
            <4>1. \/ \E j \in 1..Len(t) : t[j] = u[i]
                  \/ \E j \in 1..Len(d) : d[j] = u[i]
                BY DEF Halves
            <4>2. QED
                BY <2>3, <4>1
        <3>2. h[x].parent # n /\ h[x].parent # r
            BY <1>2, <1>10, <3>1 DEF Gathered
        <3>3. Placed(h, top, S, x)
            BY DEF Tree
        <3>4. Placed(f, top, S, x)
            BY <2>3, <3>2, <3>3, OtherPlaced
        <3>5. f[x].parent # r /\ x \in DOMAIN f /\ r \in DOMAIN f
            BY <1>1, <2>3, <3>2 DEF Filled
        <3>6. QED
            BY <2>3, <3>4, <3>5, OtherPlaced
    <2>4. QED
        BY <2>1, <2>2, <2>3
<1>11. ASSUME NEW m \in DOMAIN h PROVE Sized(g, top, lv, m)
    <2>1. Sized(h, top, lv, m)
        BY DEF Tree
    <2>2. Sized(f, top, lv, m)
        BY <2>1, FilledSized
    <2>3. m \in DOMAIN f /\ r \in DOMAIN f /\ Len(right) <= f[r].max_count
        BY <1>1, <1>8
    <2>4. QED
        BY <2>2, <2>3, FilledSized
<1>12. g[top].parent = h[top].parent
    <2>1. f[top].parent = h[top].parent
        BY <1>1, <1>5 DEF Filled
    <2>2. g[top].parent = f[top].parent
        BY <1>1, <1>6 DEF Filled
    <2>3. QED
        BY <2>1, <2>2
<1>13. \A m \in DOMAIN h : g[m].leaf = h[m].leaf
    BY <1>1 DEF Filled
<1>14. /\ top \in DOMAIN g /\ g[top].parent \in DOMAIN g /\ g[top].parent \in S
       /\ g[g[top].parent].leaf /\ S \subseteq DOMAIN g /\ top \in S
    BY <1>1, <1>12, <1>13 DEF Tree
<1>15. \A x \in DOMAIN g : Placed(g, top, S, x)
    BY <1>1, <1>10 DEF Placed
<1>16. QED
    BY <1>1, <1>9, <1>11, <1>14, <1>15 DEF Tree

\* g is h after n and its right sibling r shared their values out again, so
\* that n has k of them.
Shared(h, g, n, r, k, u) ==
    /\ DOMAIN g = DOMAIN h
    /\ \A m \in DOMAIN h :
          g[m].leaf = h[m].leaf /\ g[m].max_count = h[m].max_count
    /\ Count(g, n) = k
    /\ Count(g, r) = Count(h, n) + Count(h, r) - k
    /\ \A m \in DOMAIN h \ {n, r} :
          Count(g, m) = Count(h, m) /\ g[m].children = h[m].children
    /\ ~h[n].leaf =>
          /\ \A j \in 0..Count(h, n) : Child(h, n, j) = u[j + 1]
          /\ \A j \in 0..Count(h, r) :
                Child(h, r, j) = u[Count(h, n) + (j + 2)]
          /\ \A j \in 0..Count(g, n) : Child(g, n, j) = u[j + 1]
          /\ \A j \in 0..Count(g, r) :
                Child(g, r, j) = u[Count(g, n) + (j + 2)]

\* The values of the three nodes in a row.
LEMMA ValuesInARow ==
    ASSUME NEW a \in Seq(Values), NEW e \in Values, NEW b \in Seq(Values),
           NEW v, v = (a \o <<e>>) \o b
    PROVE  v \in Seq(Values) /\ Len(v) = Len(a) + 1 + Len(b)
<1> DEFINE c == a \o <<e>>
<1>1. c \in Seq(Values) /\ Len(c) = Len(a) + 1 /\ v = c \o b
    OBVIOUS
<1> HIDE DEF c
<1>2. v \in Seq(Values) /\ Len(v) = Len(c) + Len(b)
    BY <1>1, ConcatIs
<1>3. QED
    BY <1>1, <1>2

\* The places of children in both nodes before and after.
LEMMA PlacesInBoth ==
    ASSUME NEW h, NEW top, NEW lv, NEW S, Tree(h, top, lv, S),
           NEW n \in DOMAIN h, NEW r \in DOMAIN h, n # r, lv[n] = lv[r],
           r \notin S, NEW u, u = Both(h, n, r), ~h[n].leaf
    PROVE  /\ \A j \in 0..Count(h, n) : Child(h, n, j) = u[j + 1]
           /\ \A j \in 0..Count(h, r) :
                 Child(h, r, j) = u[Count(h, n) + (j + 2)]
<1>1. Gathered(h, top, lv, S, n, r, u)
    BY BothIs
<1>2. Heap(h) /\ Children(h, top, lv, n) /\ Children(h, top, lv, r)
          /\ ~h[r].leaf
    BY <1>1 DEF Tree, Gathered
<1>3. Count(h, n) \in Nat /\ Count(h, r) \in Nat
    BY <1>2, CountIs
<1>4. /\ Len(h[n].children) = Count(h, n) + 1
      /\ Len(h[r].children) = Count(h, r) + 1
    BY <1>2 DEF Children
<1>5. ASSUME NEW j \in 0..Count(h, n) PROVE Child(h, n, j) = u[j + 1]
    <2>1. PICK i \in 1..Len(h[n].children) : i = j + 1
        BY <1>3, <1>4
    <2>2. u[i] = h[n].children[i]
        BY <1>1 DEF Gathered
    <2>3. QED
        BY <2>1, <2>2 DEF Child
<1>6. ASSUME NEW j \in 0..Count(h, r)
      PROVE  Child(h, r, j) = u[Count(h, n) + (j + 2)]
    <2>1. PICK i \in 1..Len(h[r].children) : i = j + 1
        BY <1>3, <1>4
    <2>2. u[Len(h[n].children) + i] = h[r].children[i]
        BY <1>1 DEF Gathered
    <2>3. Len(h[n].children) + i = Count(h, n) + (j + 2)
        BY <1>3, <1>4, <2>1
    <2>4. QED
        BY <2>1, <2>2, <2>3 DEF Child
<1>7. QED
    BY <1>5, <1>6

\* The values of n and r with the one between them.
ValuesOfBoth(h, n, r) ==
    (h[n].values \o <<h[h[n].parent].values[h[n].position + 1]>>) \o h[r].values

\* What the nodes of h have in g after n and its right sibling r shared out the
\* values v and the children u.
SharedOut(h, g, n, r, k, v, u) ==
    /\ g[n].values = Take(v, k) /\ g[n].children = Take(u, k + 1)
    /\ g[r].values = Drop(v, k + 1) /\ g[r].children = Drop(u, k + 1)
    /\ g[h[n].parent].values =
          [h[h[n].parent].values EXCEPT ![h[n].position + 1] = v[k + 1]]
    /\ g[h[n].parent].children = h[h[n].parent].children
    /\ \A m \in DOMAIN h \ {n, r, h[n].parent} :
          g[m].values = h[m].values /\ g[m].children = h[m].children

\* rebalance_left_to_right and rebalance_right_to_left leave a tree, with k
\* values on the left node.
LEMMA ShareIs ==
    ASSUME NEW h, NEW top, NEW lv, NEW S, Tree(h, top, lv, S),
           NEW n \in DOMAIN h, n # top, HasRight(h, n),
           NEW r, r = Right(h, n), NEW k \in 0..NodeValues,
           Count(h, n) + Count(h, r) - k \in 0..NodeValues,
           NEW g, g = Share(h, n, k), NEW u, u = Both(h, n, r)
    PROVE  /\ Tree(g, top, lv, S) /\ Shared(h, g, n, r, k, u)
           /\ SharedOut(h, g, n, r, k, ValuesOfBoth(h, n, r), u)
<1>1. /\ r \in DOMAIN h /\ r # top /\ r # n /\ lv[n] = lv[r] /\ r \notin S
      /\ h[r].parent = h[n].parent
    BY RightIs
<1>2. PICK p \in DOMAIN h : p = h[n].parent
    BY ParentIs
<1>3. /\ ~h[p].leaf /\ h[n].position \in 0..Count(h, p)
      /\ lv[p] = lv[n] + 1
    BY <1>2, ParentIs
<1>4. p # n /\ p # r
    <2>1. lv[n] \in Nat
        BY DEF Tree, Sized
    <2>2. QED
        BY <1>1, <1>3, <2>1
<1>5. /\ Heap(h) /\ h[p].values \in Seq(Values) /\ h[n].values \in Seq(Values)
      /\ h[r].values \in Seq(Values)
    BY <1>1, NodeIs DEF Tree
<1>6. Count(h, n) \in Nat /\ Count(h, r) \in Nat /\ Count(h, p) \in Nat
    BY <1>1, <1>5, CountIs
<1>7. /\ Count(h, p) = Len(h[p].values) /\ Count(h, n) = Len(h[n].values)
      /\ Count(h, r) = Len(h[r].values)
    BY DEF Count
<1>8. PICK i \in 1..Len(h[p].values) : i = h[n].position + 1
    BY <1>2, <1>3, <1>6, <1>7 DEF HasRight
<1>9. h[p].values[i] \in Values
    BY <1>5
<1> DEFINE v == (h[n].values \o <<h[p].values[i]>>) \o h[r].values
           left == Take(v, k)
           right == Drop(v, k + 1)
           t == Take(u, k + 1)
           d == Drop(u, k + 1)
           f1 == Fill(h, n, left, t)
           f2 == Fill(f1, r, right, d)
<1>10. v \in Seq(Values) /\ Len(v) = Count(h, n) + 1 + Count(h, r)
    BY <1>5, <1>9, <1>7, ValuesInARow
<1>11. g = [f2 EXCEPT ![p].values[i] = v[k + 1]]
    BY <1>2, <1>8 DEF Share, Both
<1> HIDE DEF v
<1>12. k \in Nat /\ k + 1 \in Nat /\ k + 1 \in 1..Len(v)
    BY <1>10, <1>6, NodeValuesAssumption
<1>13. /\ left \in Seq(Values) /\ Len(left) = k
       /\ right \in Seq(Values)
       /\ Len(right) = Count(h, n) + Count(h, r) - k
       /\ v[k + 1] \in Values
    <2>1. left \in Seq(Values) /\ Len(left) = k
        BY <1>10, <1>12, TakeIs
    <2>2. right \in Seq(Values) /\ Len(right) = Len(v) - (k + 1)
        <3>1. PICK x \in Nat : x = k + 1 /\ x <= Len(v)
            BY <1>10, <1>12
        <3>2. Drop(v, x) \in Seq(Values) /\ Len(Drop(v, x)) = Len(v) - x
            BY <1>10, <3>1, DropIs
        <3>3. QED
            BY <3>1, <3>2
    <2>3. QED
        BY <1>10, <1>12, <1>6, <2>1, <2>2
<1> HIDE DEF left, right
<1>14. Gathered(h, top, lv, S, n, r, u)
    BY <1>1, BothIs
<1>15. ~h[n].leaf => Len(u) = Count(h, n) + Count(h, r) + 2
    BY <1>14 DEF Gathered
<1>16. u \in Seq(Nat) /\ Distinct(u)
    BY <1>14 DEF Gathered
<1>17. Len(u) = 0 \/ k + 1 <= Len(u)
    <2>1. CASE h[n].leaf
        BY <1>14, <2>1 DEF Gathered
    <2>2. CASE ~h[n].leaf
        <3>1. Len(u) = Count(h, n) + Count(h, r) + 2
            BY <1>14, <2>2 DEF Gathered
        <3>2. QED
            BY <1>6, <3>1
    <2>3. QED
        BY <2>1, <2>2
<1>18. Halves(u, k + 1, t, d)
    BY <1>12, <1>16, <1>17, HalvesAre
<1> HIDE DEF t, d
<1>19. Filled(h, f1, n, left, t)
    BY <1>5, <1>13, <1>18, FillIs DEF Halves
<1>20. Filled(f1, f2, r, right, d)
    <2>1. Heap(f1) /\ r \in DOMAIN f1
        BY <1>1, <1>19 DEF Filled
    <2>2. QED
        BY <1>13, <1>18, <2>1, FillIs DEF Halves
<1> HIDE DEF f1, f2
<1>21. Len(left) <= h[n].max_count /\ Len(right) <= h[r].max_count
    <2>1. h[n].max_count = NodeValues /\ h[r].max_count = NodeValues
        BY <1>1 DEF Tree, Sized
    <2>2. QED
        BY <1>13, <1>6, <2>1, NodeValuesAssumption
<1>22. Tree(f2, top, lv, S)
    BY <1>1, <1>12, <1>13, <1>17, <1>18, <1>19, <1>20, <1>21, SharedTree
<1>23. /\ DOMAIN f2 = DOMAIN h /\ Heap(f2)
       /\ f2[p].values = h[p].values
    BY <1>1, <1>4, <1>19, <1>20 DEF Filled
<1>24. /\ DOMAIN g = DOMAIN f2
       /\ \A m \in DOMAIN f2 \ {p} : g[m] = f2[m]
       /\ g[p] = [f2[p] EXCEPT !.values = [h[p].values EXCEPT ![i] = v[k + 1]]]
    BY <1>11, <1>23 DEF Heap
<1>25. /\ [h[p].values EXCEPT ![i] = v[k + 1]] \in Seq(Values)
       /\ Len([h[p].values EXCEPT ![i] = v[k + 1]]) = Len(h[p].values)
    BY <1>5, <1>13
<1>26. /\ g[p] \in Node /\ g[p].leaf = f2[p].leaf
       /\ g[p].max_count = f2[p].max_count
       /\ g[p].parent = f2[p].parent /\ g[p].position = f2[p].position
       /\ g[p].children = f2[p].children
       /\ Len(g[p].values) = Len(f2[p].values)
    <2>1. f2[p] \in Node
        BY <1>23, NodeIs
    <2>2. QED
        BY <1>23, <1>24, <1>25, <2>1 DEF Node
<1>27. Heap(g)
    <2>1. \A m \in DOMAIN f2 : g[m] \in Node
        BY <1>23, <1>24, <1>26, NodeIs
    <2>2. g = [m \in DOMAIN g |-> g[m]]
        BY <1>11, <1>23 DEF Heap
    <2>3. QED
        BY <1>23, <1>24, <2>1, <2>2 DEF Heap
<1>28. ASSUME NEW m \in DOMAIN h
       PROVE  /\ g[m].leaf = f2[m].leaf /\ g[m].max_count = f2[m].max_count
              /\ g[m].parent = f2[m].parent /\ g[m].position = f2[m].position
              /\ g[m].children = f2[m].children
              /\ Count(g, m) = Count(f2, m)
    BY <1>23, <1>24, <1>26 DEF Count
<1>29. Tree(g, top, lv, S)
    <2>1. \A m \in DOMAIN f2 : Count(g, m) <= f2[m].max_count
        BY <1>22, <1>23, <1>28 DEF Tree, Sized
    <2>2. QED
        BY <1>22, <1>23, <1>24, <1>27, <1>28, <2>1, ValuesMayChange
<1>30. ASSUME NEW m \in DOMAIN h
       PROVE  g[m].leaf = h[m].leaf /\ g[m].max_count = h[m].max_count
    BY <1>19, <1>20, <1>28 DEF Filled
<1>31. ASSUME NEW m \in DOMAIN h, m \notin {n, r}
       PROVE  Count(g, m) = Count(h, m) /\ g[m].children = h[m].children
    BY <1>19, <1>20, <1>28, <1>31 DEF Filled, Count
<1>32. Count(g, n) = k /\ Count(g, r) = Count(h, n) + Count(h, r) - k
    BY <1>1, <1>13, <1>19, <1>20, <1>28 DEF Filled, Count
<1>33. g[n].children = t /\ g[r].children = d
    BY <1>1, <1>19, <1>20, <1>28 DEF Filled
<1>34. ASSUME ~h[n].leaf, NEW j \in 0..k
       PROVE  Child(g, n, j) = u[j + 1]
    <2>1. Len(u) # 0
        BY <1>34, <1>15, <1>6
    <2>2. PICK x \in 1..Len(t) : x = j + 1
        BY <1>12, <1>18, <2>1 DEF Halves
    <2>3. QED
        BY <1>18, <1>33, <2>2 DEF Halves, Child
<1>35. ASSUME ~h[n].leaf, NEW j \in 0..Count(g, r)
       PROVE  Child(g, r, j) = u[k + (j + 2)]
    <2>1. Len(u) = Count(h, n) + Count(h, r) + 2 /\ Len(u) # 0
        BY <1>35, <1>15, <1>6
    <2>2. Len(d) = Len(u) - (k + 1)
        BY <1>18, <2>1 DEF Halves
    <2>3. PICK x \in 1..Len(d) : x = j + 1
        BY SMTT(30), <1>12, <1>32, <1>6, <2>1, <2>2
    <2>4. x + (k + 1) = k + (j + 2)
        BY <1>12, <2>3
    <2>5. d[x] = u[x + (k + 1)]
        BY <1>18 DEF Halves
    <2>6. QED
        BY <1>33, <2>3, <2>4, <2>5 DEF Child
<1>36. Shared(h, g, n, r, k, u)
    <2>1. ~h[n].leaf =>
              /\ \A j \in 0..Count(h, n) : Child(h, n, j) = u[j + 1]
              /\ \A j \in 0..Count(h, r) :
                    Child(h, r, j) = u[Count(h, n) + (j + 2)]
        BY <1>1, PlacesInBoth
    <2>2. QED
        BY <1>23, <1>24, <1>30, <1>31, <1>32, <1>34, <1>35, <2>1 DEF Shared
<1>37. SharedOut(h, g, n, r, k, v, u)
    <2>1. g[n].values = left /\ g[n].children = t
        BY <1>1, <1>4, <1>19, <1>20, <1>23, <1>24, <1>33 DEF Filled
    <2>2. g[r].values = right /\ g[r].children = d
        BY <1>1, <1>4, <1>20, <1>23, <1>24, <1>33 DEF Filled
    <2>3. /\ g[p].values = [h[p].values EXCEPT ![i] = v[k + 1]]
          /\ g[p].children = h[p].children
        <3>1. f2[p] \in Node
            BY <1>23, NodeIs
        <3>2. g[p].values = [h[p].values EXCEPT ![i] = v[k + 1]]
            BY <1>24, <3>1 DEF Node
        <3>3. QED
            BY <1>4, <1>31, <3>2
    <2>4. \A m \in DOMAIN h \ {n, r, p} :
              g[m].values = h[m].values /\ g[m].children = h[m].children
        BY <1>19, <1>20, <1>23, <1>24 DEF Filled
    <2>5. QED
        BY <1>2, <1>8, <2>1, <2>2, <2>3, <2>4 DEF SharedOut, left, right, t, d
<1>38. v = ValuesOfBoth(h, n, r)
    BY <1>2, <1>8 DEF v, ValuesOfBoth
<1>39. QED
    BY <1>29, <1>36, <1>37, <1>38

(***************************************************************************)
(* Trees some of whose nodes are not finished, and new nodes               *)
(***************************************************************************)

\* A tree but for the children of the nodes X and the places of the nodes Y;
\* nodes in both may have any size.
Loose(h, top, lv, S, X, Y) ==
    /\ Heap(h)
    /\ \A m \in DOMAIN h :
          /\ m \notin X => Children(h, top, lv, m)
          /\ m \notin Y => Placed(h, top, S, m)
          /\ ~(m \in X /\ m \in Y) => Sized(h, top, lv, m)

\* Children for n, which may come from elsewhere.
Kids(h, top, lv, S, n, kids) ==
    \A i \in 1..Len(kids) :
       /\ kids[i] \in DOMAIN h /\ kids[i] # top
       /\ lv[kids[i]] + 1 = lv[n]
       /\ kids[i] \in S => i = 1 /\ n \in S

\* Filling a node of a loose tree: X2 and Y2 are then unfinished.
LEMMA FillLoose ==
    ASSUME NEW h, NEW top, NEW lv, NEW S, NEW X,
           NEW Y, Loose(h, top, lv, S, X, Y),
           NEW n \in DOMAIN h, NEW values, NEW kids,
           NEW g, Filled(h, g, n, values, kids),
           Kids(h, top, lv, S, n, kids),
           Len(kids) = IF h[n].leaf THEN 0 ELSE Len(values) + 1,
           Len(values) <= h[n].max_count,
           NEW X2, NEW Y2,
           \A m \in DOMAIN h : m \in X /\ m \in Y =>
              (m \in X2 /\ m \in Y2) \/ Sized(h, top, lv, m),
           \A m \in DOMAIN h : m \in X2 \/ m = n
              \/ (m \notin X
                    /\ (h[m].leaf
                          \/ \A i \in 1..Len(kids) : h[kids[i]].parent # m)),
           \A x \in DOMAIN h : x \in Y2
               \/ (\E i \in 1..Len(kids) : kids[i] = x)
              \/ x = top \/ (x \notin Y /\ h[x].parent # n)
    PROVE  Loose(g, top, lv, S, X2, Y2)
<1>1. DOMAIN g = DOMAIN h /\ Heap(g)
    BY DEF Filled
<1>2. ASSUME NEW m \in DOMAIN h, m \notin X2 PROVE Children(g, top, lv, m)
    <2>1. CASE m = n
        <3>1. \A i \in 1..Len(kids) :
                 kids[i] \in DOMAIN h /\ kids[i] # top
                     /\ lv[kids[i]] + 1 = lv[n]
            BY DEF Kids
        <3>2. QED
            BY <2>1, <3>1, FilledChildren
    <2>2. CASE m # n
        <3>1. /\ m \notin X
              /\ h[m].leaf \/ \A i \in 1..Len(kids) : h[kids[i]].parent # m
            BY <1>2, <2>2
        <3>2. Children(h, top, lv, m)
            BY <3>1 DEF Loose
        <3>3. Apart(h[m].children, kids)
            BY <3>1, <3>2 DEF Apart, Children
        <3>4. QED
            BY <2>2, <3>2, <3>3, OtherChildren
    <2>3. QED
        BY <2>1, <2>2
<1>3. ASSUME NEW x \in DOMAIN h, x \notin Y2 PROVE Placed(g, top, S, x)
    <2>1. CASE \E i \in 1..Len(kids) : kids[i] = x
        <3>1. PICK i \in 1..Len(kids) : kids[i] = x
            BY <2>1
        <3>2. kids[i] \in S => i = 1 /\ n \in S
            BY DEF Kids
        <3>3. QED
            BY <3>1, <3>2, KidPlaced
    <2>2. CASE x = top
        BY <2>2 DEF Placed
    <2>3. CASE x # top /\ \A i \in 1..Len(kids) : kids[i] # x
        <3>1. x \notin Y /\ h[x].parent # n
            BY <1>3, <2>3
        <3>2. Placed(h, top, S, x)
            BY <3>1 DEF Loose
        <3>3. QED
            BY <2>3, <3>1, <3>2, OtherPlaced
    <2>4. QED
        BY <2>1, <2>2, <2>3
<1>4. ASSUME NEW m \in DOMAIN h, ~(m \in X2 /\ m \in Y2)
      PROVE  Sized(g, top, lv, m)
    <2>1. Sized(h, top, lv, m)
        BY <1>4 DEF Loose
    <2>2. QED
        BY <2>1, FilledSized
<1>5. QED
    BY <1>1, <1>2, <1>3, <1>4 DEF Loose

\* Where nothing is unfinished there is a tree.
LEMMA LooseIsTree ==
    ASSUME NEW h, NEW top, NEW lv, NEW S, Loose(h, top, lv, S, {}, {}),
           top \in DOMAIN h, h[top].parent \in DOMAIN h, h[top].parent \in S,
           h[h[top].parent].leaf, S \subseteq DOMAIN h, top \in S
    PROVE  Tree(h, top, lv, S)
BY DEF Loose, Tree

\* The node that is allocated next is not allocated yet.
LEMMA FreshIsNew ==
    ASSUME NEW h, Heap(h)
    PROVE  Fresh(h) \in Nat /\ Fresh(h) # NoNode /\ Fresh(h) \notin DOMAIN h
<1> DEFINE D == DOMAIN h
           N == Cardinality(D)
<1>1. IsFiniteSet(D) /\ N \in Nat
    BY FS_CardinalityType DEF Heap
<1> HIDE DEF N
<1>2. IsFiniteSet(1..(N + 1)) /\ Cardinality(1..(N + 1)) = N + 1
    BY <1>1, FS_Interval
<1>3. \E n \in 1..(N + 1) : n \notin D
    <2>1. SUFFICES ASSUME 1..(N + 1) \subseteq D PROVE FALSE
        OBVIOUS
    <2>2. Cardinality(1..(N + 1)) <= Cardinality(D)
        BY <1>1, <2>1, FS_Subset
    <2>3. QED
        BY <1>1, <1>2, <2>2 DEF N
<1>4. Fresh(h) = CHOOSE n \in 1..(N + 1) : n \notin D
    BY DEF Fresh, N
<1>5. Fresh(h) \in 1..(N + 1) /\ Fresh(h) \notin D
    BY <1>3, <1>4
<1>6. QED
    BY <1>1, <1>5 DEF NoNode

\* g is h with a new node.
Grown(h, g, new, node) ==
    /\ Heap(g)
    /\ DOMAIN g = DOMAIN h \cup {new}
    /\ g[new] = node
    /\ \A m \in DOMAIN h : g[m] = h[m]

\* What Allocate does to the nodes.
LEMMA AllocateIs ==
    ASSUME NEW h, Heap(h), NEW new \in Nat, new # NoNode, new \notin DOMAIN h,
           NEW node \in Node, NEW g, g = Allocate(h, new, node)
    PROVE  Grown(h, g, new, node)
<1>1. /\ DOMAIN g = DOMAIN h \cup {new}
      /\ g[new] = node
      /\ \A m \in DOMAIN h : g[m] = h[m]
      /\ g = [m \in DOMAIN g |-> g[m]]
    BY DEF Allocate
<1>2. \A m \in DOMAIN g : g[m] \in Node
    BY <1>1, NodeIs
<1>3. IsFiniteSet(DOMAIN g)
    <2>1. IsFiniteSet(DOMAIN h)
        BY DEF Heap
    <2>2. IsFiniteSet(DOMAIN h \cup {new})
        BY <2>1, FS_AddElement
    <2>3. QED
        BY <1>1, <2>2
<1>4. DOMAIN g \subseteq Nat \ {NoNode}
    BY <1>1 DEF Heap
<1>5. QED
    BY <1>1, <1>2, <1>3, <1>4 DEF Grown, Heap

\* The fields of a new node.
LEMMA NewNodeIs ==
    ASSUME NEW leaf \in BOOLEAN, NEW parent \in Nat, NEW max \in 1..NodeValues
    PROVE  /\ NewNode(leaf, parent, max) \in Node
           /\ NewNode(leaf, parent, max).leaf = leaf
           /\ NewNode(leaf, parent, max).parent = parent
           /\ NewNode(leaf, parent, max).position = 0
           /\ NewNode(leaf, parent, max).max_count = max
           /\ NewNode(leaf, parent, max).values = <<>>
           /\ NewNode(leaf, parent, max).children = <<>>
BY NodeValuesAssumption DEF NewNode, Node

\* A new node makes a tree no more loose than it is itself.
LEMMA GrownLoose ==
    ASSUME NEW h, NEW top, NEW lv, NEW S, NEW X,
           NEW Y, Loose(h, top, lv, S, X, Y),
           NEW g, NEW new,
           NEW node, new \notin DOMAIN h, Grown(h, g, new, node)
    PROVE  Loose(g, top, lv, S, X \cup {new}, Y \cup {new})
<1>1. ASSUME NEW m \in DOMAIN h, m \notin X PROVE Children(g, top, lv, m)
    <2>1. Children(h, top, lv, m)
        BY <1>1 DEF Loose
    <2>2. g[m] = h[m] /\ Count(g, m) = Count(h, m)
        BY DEF Grown, Count
    <2>3. ASSUME NEW i \in 1..Len(h[m].children)
          PROVE  /\ h[m].children[i] \in DOMAIN g /\ h[m].children[i] # top
                 /\ g[h[m].children[i]].parent = m
                 /\ g[h[m].children[i]].position = i - 1
                 /\ lv[h[m].children[i]] + 1 = lv[m]
        <3>1. PICK x \in DOMAIN h : /\ x = h[m].children[i] /\ x # top
                                    /\ h[x].parent = m /\ h[x].position = i - 1
                                    /\ lv[x] + 1 = lv[m]
            BY <2>1 DEF Children
        <3>2. g[x] = h[x] /\ x \in DOMAIN g
            BY DEF Grown
        <3>3. QED
            BY <3>1, <3>2
    <2>4. Len(h[m].children) = IF h[m].leaf THEN 0 ELSE Count(h, m) + 1
        BY <2>1 DEF Children
    <2>5. QED
        BY <2>2, <2>3, <2>4 DEF Children
<1>2. ASSUME NEW m \in DOMAIN h, m \notin Y PROVE Placed(g, top, S, m)
    <2>1. Placed(h, top, S, m)
        BY <1>2 DEF Loose
    <2>2. QED
        BY <2>1 DEF Placed, Grown
<1>3. ASSUME NEW m \in DOMAIN h, ~(m \in X /\ m \in Y)
        PROVE Sized(g, top, lv, m)
    <2>1. Sized(h, top, lv, m)
        BY <1>3 DEF Loose
    <2>2. g[m] = h[m] /\ Count(g, m) = Count(h, m)
        BY DEF Grown, Count
    <2>3. QED
        BY <2>1, <2>2 DEF Sized
<1>4. Heap(g) /\ DOMAIN g = DOMAIN h \cup {new}
    BY DEF Grown
<1>5. QED
    BY <1>1, <1>2, <1>3, <1>4 DEF Loose

\* A tree is loose, whatever is taken to be unfinished.
LEMMA TreeIsLoose ==
    ASSUME NEW h, NEW top, NEW lv, NEW S, Tree(h, top, lv, S), NEW X, NEW Y
    PROVE  Loose(h, top, lv, S, X, Y)
BY DEF Tree, Loose

\* Levels and spines may differ where the heap has no node.
LEMMA OnNodesOnly ==
    ASSUME NEW h, NEW top, NEW lv, NEW S, Tree(h, top, lv, S),
           NEW lw, \A m \in DOMAIN h : lw[m] = lv[m]
    PROVE  Tree(h, top, lw, S)
<1>1. ASSUME NEW m \in DOMAIN h PROVE Children(h, top, lw, m)
    <2>1. Children(h, top, lv, m)
        BY DEF Tree
    <2>2. ASSUME NEW i \in 1..Len(h[m].children)
          PROVE  lw[h[m].children[i]] + 1 = lw[m]
        <3>1. PICK x \in DOMAIN h : x = h[m].children[i] /\ lv[x] + 1 = lv[m]
            BY <2>1 DEF Children
        <3>2. lw[x] = lv[x] /\ lw[m] = lv[m]
            OBVIOUS
        <3>3. QED
            BY <3>1, <3>2
    <2>3. QED
        BY <2>1, <2>2 DEF Children
<1>2. \A m \in DOMAIN h : Sized(h, top, lw, m)
    BY DEF Tree, Sized
<1>3. QED
    BY <1>1, <1>2 DEF Tree

(***************************************************************************)
(* Splitting a node                                                        *)
(***************************************************************************)

\* g is h after all values of n but the first k went, one to the parent and
\* the others to the node new on the right of n.
Parted(h, g, n, new, k) ==
    /\ DOMAIN g = DOMAIN h \cup {new}
    /\ g[new].leaf = h[n].leaf
    /\ \A m \in DOMAIN h : g[m].leaf = h[m].leaf
    /\ k \in 0..(Count(h, n) - 1)
    /\ Count(g, n) = k
    /\ Count(g, new) = Count(h, n) - (k + 1)
    /\ Count(g, h[n].parent) = Count(h, h[n].parent) + 1
    /\ \A m \in DOMAIN h \ {n, h[n].parent} :
          Count(g, m) = Count(h, m) /\ g[m].children = h[m].children
    /\ ~h[n].leaf =>
          /\ \A j \in 0..k : Child(g, n, j) = Child(h, n, j)
          /\ \A j \in 0..(Count(h, n) - (k + 1)) :
                Child(g, new, j) = Child(h, n, j + (k + 1))

\* What the nodes of h have in g after all values of n but the first k went.
SplitOff(h, g, n, new, k) ==
    /\ g[n].values = Take(h[n].values, k)
    /\ g[n].children = Take(h[n].children, k + 1)
    /\ g[new].values = Drop(h[n].values, k + 1)
    /\ g[new].children = Drop(h[n].children, k + 1)
    /\ g[h[n].parent].values =
          InsertAt(h[h[n].parent].values, h[n].position + 1, h[n].values[k + 1])
    /\ g[h[n].parent].children =
          InsertAt(h[h[n].parent].children, (h[n].position + 1) + 1, new)
    /\ \A m \in DOMAIN h \ {n, h[n].parent} :
          g[m].values = h[m].values /\ g[m].children = h[m].children

\* kids are the children c with another one at place i.
WithOneMore(c, i, e, kids) ==
    /\ kids \in Seq(Nat) /\ Distinct(kids)
    /\ Len(kids) = Len(c) + 1
    /\ \A j \in 1..Len(kids) : \/ j = i /\ kids[j] = e
                               \/ \E x \in 1..Len(c) : /\ kids[j] = c[x]
                                                       /\ x = 1 => j = 1
    /\ \A x \in 1..Len(c) : \E j \in 1..Len(kids) : kids[j] = c[x]
    /\ \E j \in 1..Len(kids) : kids[j] = e

\* t is s with e at place i.
HasOneMore(s, i, e, t) ==
    /\ Len(t) = Len(s) + 1
    /\ \A j \in 1..(Len(s) + 1) :
          t[j] = IF j < i THEN s[j] ELSE IF j = i THEN e ELSE s[j - 1]

\* InsertAt adds a member.
LEMMA InsertAtGives ==
    ASSUME NEW T, NEW s \in Seq(T), NEW i \in 1..(Len(s) + 1), NEW e \in T
    PROVE  InsertAt(s, i, e) \in Seq(T)
        /\ HasOneMore(s, i, e, InsertAt(s, i, e))
BY InsertAtIs DEF HasOneMore

\* InsertAt adds a child, not before the first one.
LEMMA OneMoreChild ==
    ASSUME NEW c \in Seq(Nat), Distinct(c), NEW e \in Nat,
           \A x \in 1..Len(c) : c[x] # e, NEW i \in 2..(Len(c) + 1)
    PROVE  WithOneMore(c, i, e, InsertAt(c, i, e))
<1> DEFINE kids == InsertAt(c, i, e)
<1>1. Len(c) \in Nat /\ i \in 1..(Len(c) + 1)
    OBVIOUS
<1>2. /\ kids \in Seq(Nat) /\ Len(kids) = Len(c) + 1
      /\ \A j \in 1..(Len(c) + 1) :
            kids[j] = IF j < i THEN c[j] ELSE IF j = i THEN e ELSE c[j - 1]
    <2>1. kids = InsertAt(c, i, e)
        OBVIOUS
    <2> HIDE DEF kids
    <2>2. QED
        <3>1. kids \in Seq(Nat) /\ HasOneMore(c, i, e, kids)
            BY <1>1, <2>1, InsertAtGives
        <3>2. QED
            BY <3>1 DEF HasOneMore
<1> HIDE DEF kids
<1>3. ASSUME NEW j \in 1..Len(kids), j # i
      PROVE  \E x \in 1..Len(c) : /\ kids[j] = c[x] /\ (x = 1 => j = 1)
                                  /\ x = IF j < i THEN j ELSE j - 1
    <2>1. CASE j < i
        <3>1. PICK x \in 1..Len(c) : x = j
            BY <1>1, <1>2, <2>1
        <3>2. QED
            BY <1>1, <1>2, <2>1, <3>1
    <2>2. CASE j > i
        <3>1. PICK x \in 1..Len(c) : x = j - 1 /\ x # 1
            BY SMTT(30), <1>1, <1>2, <2>2
        <3>2. kids[j] = c[x]
            BY <1>1, <1>2, <2>2, <3>1
        <3>3. ~(j < i)
            BY <1>1, <2>2
        <3>4. QED
            BY <3>1, <3>2, <3>3
    <2>3. QED
        BY <1>1, <1>3, <2>1, <2>2
<1>4. i \in 1..Len(kids) /\ kids[i] = e
    BY <1>1, <1>2
<1>5. ASSUME NEW x \in 1..Len(c) PROVE \E j \in 1..Len(kids) : kids[j] = c[x]
    <2>1. CASE x < i
        <3>1. x \in 1..Len(kids) /\ kids[x] = c[x]
            BY <1>1, <1>2, <2>1
        <3>2. QED
            BY <3>1
    <2>2. CASE x >= i
        <3>1. PICK j \in 1..Len(kids) : j = x + 1 /\ j - 1 = x /\ ~(j < i)
                  /\ j # i
            BY <1>1, <1>2, <2>2
        <3>2. kids[j] = c[x]
            BY <1>2, <3>1
        <3>3. QED
            BY <3>2
    <2>3. QED
        BY <1>1, <2>1, <2>2
<1>6. ASSUME NEW a \in 1..Len(kids), NEW b \in 1..Len(kids), kids[a] = kids[b]
      PROVE  a = b
    <2>1. CASE a = i
        BY <1>3, <1>4, <1>6, <2>1
    <2>2. CASE b = i
        BY <1>3, <1>4, <1>6, <2>2
    <2>3. CASE a # i /\ b # i
        <3>1. PICK x \in 1..Len(c) : kids[a] = c[x]
                  /\ x = IF a < i THEN a ELSE a - 1
            BY <1>3, <2>3
        <3>2. PICK y \in 1..Len(c) : kids[b] = c[y]
                  /\ y = IF b < i THEN b ELSE b - 1
            BY <1>3, <2>3
        <3>3. x = y
            BY <1>6, <3>1, <3>2 DEF Distinct
        <3>4. QED
            BY <1>1, <2>3, <3>1, <3>2, <3>3
    <2>4. QED
        BY <2>1, <2>2, <2>3
<1>7. WithOneMore(c, i, e, kids)
    BY <1>2, <1>3, <1>4, <1>5, <1>6 DEF WithOneMore, Distinct
<1>8. QED
    BY <1>7 DEF kids

\* How many values stay on the node.
Staying(h, s) == Count(h, s.node) - ToSplitOff(h, s) - 1

\* A full node of three values or more has at least one value left to give to
\* its parent, and stays without values itself only when the new one is to go
\* there; so does the new node.
LEMMA StayingIs ==
    ASSUME NEW h, NEW s, NEW c \in Nat, c >= 3, Count(h, s.node) = c,
           h[s.node].max_count = c, s.position \in 0..c
    PROVE  /\ Staying(h, s) \in 0..(c - 1)
           /\ Staying(h, s) = 0 => s.position = 0
           /\ Staying(h, s) = c - 1 => s.position = c
    BY DEF Staying, ToSplitOff

\* Splitting a full node below one that is not full leaves a tree.
LEMMA SplitIs ==
    ASSUME NEW h, NEW top, NEW lv, NEW S, Tree(h, top, lv, S),
           NEW s, s.node \in DOMAIN h, s.node # top,
           s.position \in 0..NodeValues,
           IsFull(h, s.node), ~IsFull(h, h[s.node].parent),
           NEW new \in Nat, new # NoNode, new \notin DOMAIN h,
           NEW lw, \A m \in DOMAIN h : lw[m] = lv[m], lw[new] = lv[s.node],
           NEW g, g = Split(h, s, new)
    PROVE  /\ Tree(g, top, lw, S) /\ Parted(h, g, s.node, new, Staying(h, s))
           /\ SplitOff(h, g, s.node, new, Staying(h, s))
<1> DEFINE n == s.node
           k == Staying(h, s)
<1>1. n \in DOMAIN h /\ n # top
    OBVIOUS
<1>2. PICK p \in DOMAIN h : p = h[n].parent
    BY ParentIs
<1>3. /\ ~h[p].leaf /\ h[n].position \in 0..Count(h, p)
      /\ lv[p] = lv[n] + 1
      /\ h[p].children[h[n].position + 1] = n
    BY <1>2, ParentIs
<1>4. p # n /\ new # n /\ new # p
    <2>1. lv[n] \in Nat
        BY DEF Tree, Sized
    <2>2. QED
        BY <1>3, <2>1
<1>5. /\ Heap(h) /\ h[p].values \in Seq(Values) /\ h[n].values \in Seq(Values)
      /\ h[n].children \in Seq(Nat) /\ h[p].children \in Seq(Nat)
      /\ h[n].leaf \in BOOLEAN
    BY NodeIs DEF Tree
<1>6. Count(h, n) \in Nat /\ Count(h, p) \in Nat
    BY <1>5, CountIs
<1>7. Count(h, p) = Len(h[p].values) /\ Count(h, n) = Len(h[n].values)
    BY DEF Count
<1>8. /\ h[n].max_count = NodeValues /\ Count(h, n) = NodeValues
      /\ h[p].max_count = NodeValues /\ Count(h, p) < NodeValues
    <2>1. Sized(h, top, lv, n) /\ Sized(h, top, lv, p)
        BY DEF Tree
    <2>2. QED
        BY <1>1, <1>2, <1>3, <1>6, <2>1, NodeValuesAssumption DEF Sized, IsFull
<1>9. k \in 0..(Count(h, n) - 1) /\ k \in Nat /\ k + 1 \in 1..Len(h[n].values)
    <2>1. k \in 0..(NodeValues - 1)
        BY <1>8, StayingIs, NodeValuesAssumption
    <2>2. QED
        BY <1>7, <1>8, <2>1, NodeValuesAssumption
<1>10. PICK i \in 1..(Len(h[p].values) + 1) : i = h[n].position + 1
    BY <1>3, <1>6, <1>7
<1> DEFINE u == h[n].children
           c == h[p].children
           f0 == Allocate(h, new, NewNode(h[n].leaf, p, NodeValues))
           right == Drop(h[n].values, k + 1)
           left == Take(h[n].values, k)
           t == Take(u, k + 1)
           d == Drop(u, k + 1)
           f1 == Fill(f0, new, right, d)
           f2 == Fill(f1, n, left, t)
           above == InsertAt(h[p].values, i, h[n].values[k + 1])
           kids == InsertAt(c, i + 1, new)
<1>11. g = Fill(f2, p, above, kids)
    BY <1>2, <1>10 DEF Split, Staying
<1> HIDE DEF k, n
<1>12. /\ left \in Seq(Values) /\ Len(left) = k
       /\ h[n].values[k + 1] \in Values
    BY <1>5, <1>9, TakeIs
<1>13. right \in Seq(Values) /\ Len(right) = Count(h, n) - (k + 1)
    <2>1. PICK x \in Nat : x = k + 1 /\ x <= Len(h[n].values)
        BY <1>9
    <2>2. Drop(h[n].values, x) \in Seq(Values)
          /\ Len(Drop(h[n].values, x)) = Len(h[n].values) - x
        BY <1>5, <2>1, DropIs
    <2>3. QED
        BY <1>7, <2>1, <2>2
<1>14. above \in Seq(Values) /\ Len(above) = Count(h, p) + 1
    <2>1. above \in Seq(Values)
          /\ HasOneMore(h[p].values, i, h[n].values[k + 1], above)
        BY <1>5, <1>12, InsertAtGives
    <2>2. QED
        BY <1>7, <2>1 DEF HasOneMore
<1> HIDE DEF left, right, above
<1>15. Children(h, top, lv, n) /\ Children(h, top, lv, p)
    BY <1>1 DEF Tree
<1>16. /\ h[n].leaf => Len(u) = 0
       /\ ~h[n].leaf => Len(u) = Count(h, n) + 1
       /\ Len(c) = Count(h, p) + 1
    BY <1>3, <1>15 DEF Children
<1>17. Halves(u, k + 1, t, d)
    <2>1. Distinct(u)
        BY <1>15, KidsDistinct
    <2>2. Len(u) = 0 \/ k + 1 <= Len(u)
        BY <1>5, <1>6, <1>9, <1>16
    <2>3. PICK x \in Nat : x = k + 1
        BY <1>9
    <2>4. u \in Seq(Nat)
        BY <1>5
    <2> HIDE DEF u
    <2>5. Halves(u, x, Take(u, x), Drop(u, x))
        BY <2>1, <2>2, <2>3, <2>4, HalvesAre
    <2>6. QED
        BY <2>3, <2>5
<1>18. WithOneMore(c, i + 1, new, kids)
    <2>1. Distinct(c)
        BY <1>15, KidsDistinct
    <2>2. \A x \in 1..Len(c) : c[x] # new
        BY <1>15 DEF Children
    <2>3. i + 1 \in 2..(Len(c) + 1)
        BY <1>6, <1>7, <1>10, <1>16
    <2>4. QED
        BY <1>5, <2>1, <2>2, <2>3, OneMoreChild
<1>19. \A j \in 1..Len(u) : /\ u[j] \in DOMAIN h /\ u[j] # top
                                  /\ h[u[j]].parent = n
                            /\ h[u[j]].position = j - 1 /\ lv[u[j]] + 1 = lv[n]
    BY <1>15 DEF Children
<1>20. \A j \in 1..Len(c) : /\ c[j] \in DOMAIN h /\ c[j] # top
                                  /\ h[c[j]].parent = p
                            /\ h[c[j]].position = j - 1 /\ lv[c[j]] + 1 = lv[p]
    BY <1>15 DEF Children
<1>21. ASSUME NEW x \in DOMAIN h, x # top, h[x].parent = n
       PROVE  (\E j \in 1..Len(t) : t[j] = x)
           \/ (\E j \in 1..Len(d) : d[j] = x)
    <2>1. PICK j \in 1..Len(u) : u[j] = x
        BY <1>21 DEF Tree, Placed
    <2>2. QED
        BY <1>17, <2>1 DEF Halves
<1>22. ASSUME NEW x \in DOMAIN h, x # top, h[x].parent = p
       PROVE  \E j \in 1..Len(kids) : kids[j] = x
    <2>1. PICK j \in 1..Len(c) : c[j] = x
        BY <1>22 DEF Tree, Placed
    <2>2. QED
        BY <1>18, <2>1 DEF WithOneMore
<1> HIDE DEF t, d, kids
<1>23. Grown(h, f0, new, NewNode(h[n].leaf, p, NodeValues))
    <2>1. NewNode(h[n].leaf, p, NodeValues) \in Node
        BY <1>5, NewNodeIs, NodeIs, NodeValuesAssumption
    <2>2. QED
        BY <1>5, <2>1, AllocateIs
<1> HIDE DEF f0
<1>24. /\ f0[new].leaf = h[n].leaf /\ f0[new].parent = p
       /\ f0[new].max_count = NodeValues /\ f0[new].values = <<>>
    <2>1. p \in Nat /\ NodeValues \in 1..NodeValues
        BY <1>5, NodeIs, NodeValuesAssumption
    <2>2. QED
        BY <1>5, <1>23, <2>1, NewNodeIs DEF Grown
<1>25. Loose(f0, top, lw, S, {new}, {new}) /\ Sized(f0, top, lw, new)
    <2>1. Sized(f0, top, lw, new)
        <3>1. Sized(h, top, lv, n) /\ top \in DOMAIN h
            BY <1>1 DEF Tree
        <3>2. lw[new] = lv[n] /\ lw[top] = lv[top]
            BY <3>1 DEF n
        <3>3. Count(f0, new) = 0
            BY <1>24 DEF Count
        <3>4. QED
            BY <1>1, <1>24, <3>1, <3>2, <3>3, NodeValuesAssumption DEF Sized
    <2>2. Loose(h, top, lw, S, {}, {})
        BY OnNodesOnly, TreeIsLoose
    <2>3. Loose(f0, top, lw, S, {} \cup {new}, {} \cup {new})
        BY <1>23, <2>2, GrownLoose
    <2>4. QED
        BY <2>1, <2>3
<1>26. Filled(f0, f1, new, right, d)
    <2>1. Heap(f0) /\ new \in DOMAIN f0
        BY <1>23 DEF Grown
    <2>2. QED
        BY <1>13, <1>17, <2>1, FillIs DEF Halves
<1> HIDE DEF f1
<1>27. Filled(f1, f2, n, left, t)
    <2>1. Heap(f1) /\ n \in DOMAIN f1
        BY <1>1, <1>23, <1>26 DEF Grown, Filled
    <2>2. QED
        BY <1>12, <1>17, <2>1, FillIs DEF Halves
<1> HIDE DEF f2
<1>28. Filled(f2, g, p, above, kids)
    <2>1. Heap(f2) /\ p \in DOMAIN f2
        BY <1>23, <1>26, <1>27 DEF Grown, Filled
    <2>2. QED
        BY <1>11, <1>14, <1>18, <2>1, FillIs DEF WithOneMore
<1>29. /\ DOMAIN f0 = DOMAIN h \cup {new} /\ DOMAIN f1 = DOMAIN f0
       /\ DOMAIN f2 = DOMAIN f0 /\ DOMAIN g = DOMAIN f0
       /\ \A m \in DOMAIN h : f0[m] = h[m]
       /\ \A m \in DOMAIN f0 : /\ f1[m].leaf = f0[m].leaf
                                     /\ f2[m].leaf = f0[m].leaf
                               /\ g[m].leaf = f0[m].leaf
                               /\ f1[m].max_count = f0[m].max_count
                               /\ f2[m].max_count = f0[m].max_count
    BY <1>23, <1>26, <1>27, <1>28 DEF Grown, Filled
<1>30. S \subseteq DOMAIN h /\ new \notin S
    BY DEF Tree
<1>31. ASSUME NEW j \in 1..Len(t)
       PROVE  /\ t[j] \in DOMAIN h /\ t[j] # top /\ h[t[j]].parent = n
              /\ lw[t[j]] + 1 = lw[n]
              /\ t[j] \in S => j = 1 /\ n \in S
    <2>1. j \in 1..Len(u) /\ t[j] = u[j]
        BY <1>17 DEF Halves
    <2>2. /\ u[j] \in DOMAIN h /\ u[j] # top /\ h[u[j]].parent = n
          /\ h[u[j]].position = j - 1 /\ lw[u[j]] + 1 = lw[n]
        BY <1>1, <1>19, <2>1
    <2>3. u[j] \in S => j - 1 = 0 /\ n \in S
        BY <2>2 DEF Tree, Placed
    <2>4. QED
        BY <2>1, <2>2, <2>3
<1>32. ASSUME NEW j \in 1..Len(d)
       PROVE  /\ d[j] \in DOMAIN h /\ d[j] # top /\ h[d[j]].parent = n
              /\ lw[d[j]] + 1 = lw[new]
              /\ d[j] \notin S
    <2>1. PICK x \in 1..Len(u) : x = j + (k + 1) /\ d[j] = u[x]
        BY <1>17 DEF Halves
    <2>2. /\ u[x] \in DOMAIN h /\ u[x] # top /\ h[u[x]].parent = n
          /\ h[u[x]].position = x - 1 /\ lw[u[x]] + 1 = lw[new]
        BY <1>1, <1>19 DEF n
    <2>3. u[x] \in S => x - 1 = 0
        BY <2>2 DEF Tree, Placed
    <2>4. x # 1
        BY <1>9, <2>1
    <2>5. QED
        BY <2>1, <2>2, <2>3, <2>4
<1>33. Loose(f1, top, lw, S, {n}, {new})
    <2>1. Kids(f0, top, lw, S, new, d)
        BY <1>29, <1>32 DEF Kids
    <2>2. Len(d) = IF f0[new].leaf THEN 0 ELSE Len(right) + 1
        <3>1. CASE h[n].leaf
            <4>1. Len(d) = 0
                BY <1>16, <1>17, <3>1 DEF Halves
            <4>2. QED
                BY <1>24, <3>1, <4>1
        <3>2. CASE ~h[n].leaf
            <4>1. Len(u) = Count(h, n) + 1 /\ Len(u) # 0
                BY <1>6, <1>16, <3>2
            <4>2. Len(d) = Len(u) - (k + 1)
                BY <1>17, <4>1 DEF Halves
            <4>3. Len(d) = Len(right) + 1
                BY <1>6, <1>9, <1>13, <4>1, <4>2
            <4>4. QED
                BY <1>24, <3>2, <4>3
        <3>3. QED
            BY <1>5, <3>1, <3>2
    <2>3. Len(right) <= f0[new].max_count
        BY <1>8, <1>9, <1>13, <1>24, NodeValuesAssumption
    <2>4. new \in DOMAIN f0
        BY <1>29
    <2>5. \A m \in DOMAIN f0 : m \in {n} \/ m = new
             \/ (m \notin {new}
                 /\ (f0[m].leaf \/ \A j \in 1..Len(d) : f0[d[j]].parent # m))
        BY <1>29, <1>32
    <2>6. \A x \in DOMAIN f0 : x \in {new} \/ (\E j \in 1..Len(d) : d[j] = x)
             \/ x = top \/ (x \notin {new} /\ f0[x].parent # new)
        <3>1. ASSUME NEW x \in DOMAIN h PROVE h[x].parent # new
            BY DEF Tree, Placed
        <3>2. QED
            BY <1>29, <3>1
    <2>7. \A m \in DOMAIN f0 : m \in {new} /\ m \in {new} =>
             (m \in {n} /\ m \in {new}) \/ Sized(f0, top, lw, m)
        BY <1>25
    <2>8. QED
        BY <1>25, <1>26, <2>1, <2>2, <2>3, <2>4, <2>5, <2>6, <2>7, FillLoose
<1>34. Loose(f2, top, lw, S, {}, {new})
    <2>1. Kids(f1, top, lw, S, n, t)
        BY <1>29, <1>31 DEF Kids
    <2>2. Len(t) = IF f1[n].leaf THEN 0 ELSE Len(left) + 1
        <3>1. CASE h[n].leaf
            <4>1. Len(t) = 0
                BY <1>16, <1>17, <3>1 DEF Halves
            <4>2. QED
                BY <1>1, <1>29, <3>1, <4>1
        <3>2. CASE ~h[n].leaf
            <4>1. Len(u) # 0
                BY <1>6, <1>16, <3>2
            <4>2. Len(t) = k + 1
                BY <1>17, <4>1 DEF Halves
            <4>3. QED
                BY <1>1, <1>12, <1>29, <3>2, <4>2
        <3>3. QED
            BY <1>5, <3>1, <3>2
    <2>3. Len(left) <= f1[n].max_count
        BY <1>1, <1>8, <1>9, <1>12, <1>29, NodeValuesAssumption
    <2>4. n \in DOMAIN f1
        BY <1>1, <1>29
    <2>5. \A j \in 1..Len(t) : f1[t[j]].parent = n
        <3>1. ASSUME NEW j \in 1..Len(t) PROVE f1[t[j]].parent = n
            <4>1. \A x \in 1..Len(d) : d[x] # t[j]
                BY <1>17 DEF Halves, Apart
            <4>2. t[j] \in DOMAIN f0 /\ f0[t[j]].parent = n
                BY <1>29, <1>31
            <4>3. QED
                BY <1>26, <4>1, <4>2 DEF Filled
        <3>2. QED
            BY <3>1
    <2>6. \A m \in DOMAIN f1 : m \in {} \/ m = n
             \/ (m \notin {n}
                 /\ (f1[m].leaf \/ \A j \in 1..Len(t) : f1[t[j]].parent # m))
        BY <2>5
    <2>7. ASSUME NEW x \in DOMAIN h, x # top, \A j \in 1..Len(t) : t[j] # x
          PROVE  f1[x].parent # n
        <3>1. CASE \E j \in 1..Len(d) : d[j] = x
            <4>1. x \in DOMAIN f0 /\ f1[x].parent = new
                BY <1>26, <1>29, <3>1 DEF Filled
            <4>2. QED
                BY <1>4, <4>1
        <3>2. CASE \A j \in 1..Len(d) : d[j] # x
            <4>1. x \in DOMAIN f0 /\ f1[x].parent = h[x].parent
                BY <1>26, <1>29, <3>2 DEF Filled
            <4>2. QED
                BY <1>21, <2>7, <3>2, <4>1
        <3>3. QED
            BY <3>1, <3>2
    <2>8. \A x \in DOMAIN f1 : x \in {new} \/ (\E j \in 1..Len(t) : t[j] = x)
             \/ x = top \/ (x \notin {new} /\ f1[x].parent # n)
        BY <1>29, <2>7
    <2>9. \A m \in DOMAIN f1 : m \in {n} /\ m \in {new} =>
             (m \in {} /\ m \in {new}) \/ Sized(f1, top, lw, m)
        BY <1>4
    <2>10. QED
        BY <1>27, <1>33, <2>1, <2>2, <2>3, <2>4, <2>6, <2>8, <2>9, FillLoose
<1>35. ASSUME NEW x \in DOMAIN h
       PROVE  /\ f0[x] = h[x] /\ x \in DOMAIN f0 /\ x \in DOMAIN f1
              /\ h[x].parent # n \/ x = top => f2[x].parent = h[x].parent
    <2>1. f0[x] = h[x] /\ x \in DOMAIN f0 /\ x \in DOMAIN f1
        BY <1>29
    <2>2. ASSUME h[x].parent # n \/ x = top
          PROVE  f2[x].parent = h[x].parent
        <3>1. /\ \A j \in 1..Len(d) : d[j] # x
              /\ \A j \in 1..Len(t) : t[j] # x
            BY <1>31, <1>32, <2>2
        <3>2. f1[x].parent = f0[x].parent
            BY <1>26, <2>1, <3>1 DEF Filled
        <3>3. f2[x].parent = f1[x].parent
            BY <1>27, <2>1, <3>1 DEF Filled
        <3>4. QED
            BY <2>1, <3>2, <3>3
    <2>3. QED
        BY <2>1, <2>2
<1>36. f2[new].parent = p
    <2>1. /\ \A j \in 1..Len(d) : d[j] # new
          /\ \A j \in 1..Len(t) : t[j] # new
        BY <1>31, <1>32
    <2>2. f1[new].parent = f0[new].parent
        BY <1>26, <1>29, <2>1 DEF Filled
    <2>3. f2[new].parent = f1[new].parent
        BY <1>27, <1>29, <2>1 DEF Filled
    <2>4. QED
        BY <1>24, <2>2, <2>3
<1>37. ASSUME NEW j \in 1..Len(kids)
       PROVE  /\ kids[j] \in DOMAIN f2 /\ kids[j] # top
              /\ lw[kids[j]] + 1 = lw[p]
              /\ kids[j] \in S => j = 1 /\ p \in S
              /\ f2[kids[j]].parent = p
    <2>1. CASE kids[j] = new
        <3>1. new # top /\ lw[new] + 1 = lw[p]
            BY <1>3 DEF Tree, n
        <3>2. QED
            BY <1>29, <1>30, <1>36, <2>1, <3>1
    <2>2. CASE kids[j] # new
        <3>1. PICK x \in 1..Len(c) : kids[j] = c[x] /\ (x = 1 => j = 1)
            BY <1>18, <2>2 DEF WithOneMore
        <3>2. /\ c[x] \in DOMAIN h /\ c[x] # top /\ h[c[x]].parent = p
              /\ h[c[x]].position = x - 1 /\ lw[c[x]] + 1 = lw[p]
            BY <1>20
        <3>3. c[x] \in S => x - 1 = 0 /\ p \in S
            BY <3>2 DEF Tree, Placed
        <3>4. f2[c[x]].parent = p
            BY <1>4, <1>35, <3>2
        <3>5. QED
            BY <1>29, <3>1, <3>2, <3>3, <3>4
    <2>3. QED
        BY <2>1, <2>2
<1>38. ASSUME NEW x \in DOMAIN h, x # top, \A j \in 1..Len(kids) : kids[j] # x
       PROVE  f2[x].parent # p
    <2>1. CASE h[x].parent # n
        BY <1>22, <1>35, <1>38, <2>1
    <2>2. CASE h[x].parent = n
        <3>1. CASE \E j \in 1..Len(t) : t[j] = x
            <4>1. f2[x].parent = n
                BY <1>27, <1>35, <3>1 DEF Filled
            <4>2. QED
                BY <1>4, <4>1
        <3>2. CASE \A j \in 1..Len(t) : t[j] # x
            <4>1. \E j \in 1..Len(d) : d[j] = x
                BY <1>21, <1>38, <2>2, <3>2
            <4>2. f1[x].parent = new
                BY <1>26, <1>35, <4>1 DEF Filled
            <4>3. f2[x].parent = f1[x].parent
                BY <1>27, <1>35, <3>2 DEF Filled
            <4>4. QED
                BY <1>4, <4>2, <4>3
        <3>3. QED
            BY <3>1, <3>2
    <2>3. QED
        BY <2>1, <2>2
<1>39. Loose(g, top, lw, S, {}, {})
    <2>1. Kids(f2, top, lw, S, p, kids)
        BY <1>37 DEF Kids
    <2>2. Len(kids) = IF f2[p].leaf THEN 0 ELSE Len(above) + 1
        <3>1. Len(kids) = Len(c) + 1 /\ ~f2[p].leaf
            BY <1>3, <1>18, <1>29 DEF WithOneMore
        <3>2. QED
            BY <1>6, <1>14, <1>16, <3>1
    <2>3. Len(above) <= f2[p].max_count
        BY <1>6, <1>8, <1>14, <1>29, NodeValuesAssumption
    <2>4. p \in DOMAIN f2
        BY <1>29
    <2>5. \A m \in DOMAIN f2 : m \in {} \/ m = p
             \/ (m \notin {}
                 /\ (f2[m].leaf
                       \/ \A j \in 1..Len(kids) : f2[kids[j]].parent # m))
        BY <1>37
    <2>6. \E j \in 1..Len(kids) : kids[j] = new
        BY <1>18 DEF WithOneMore
    <2>7. \A x \in DOMAIN f2 : x \in {}
              \/ (\E j \in 1..Len(kids) : kids[j] = x)
             \/ x = top \/ (x \notin {new} /\ f2[x].parent # p)
        BY <1>29, <1>38, <2>6
    <2>8. \A m \in DOMAIN f2 : m \in {} /\ m \in {new} =>
             (m \in {} /\ m \in {}) \/ Sized(f2, top, lw, m)
        OBVIOUS
    <2>9. QED
        BY <1>28, <1>34, <2>1, <2>2, <2>3, <2>4, <2>5, <2>7, <2>8, FillLoose
<1>40. Tree(g, top, lw, S)
    <2>1. /\ top \in DOMAIN h /\ h[top].parent \in DOMAIN h
                /\ h[top].parent \in S
          /\ h[h[top].parent].leaf /\ top \in S
        BY DEF Tree
    <2>2. \A j \in 1..Len(kids) : kids[j] # top
        BY <1>37
    <2>3. g[top].parent = h[top].parent
        BY <1>28, <1>29, <1>35, <2>1, <2>2 DEF Filled
    <2>4. g[g[top].parent].leaf
        BY <1>29, <2>1, <2>3
    <2>5. S \subseteq DOMAIN g /\ top \in DOMAIN g
              /\ g[top].parent \in DOMAIN g
        BY <1>29, <1>30, <2>1, <2>3
    <2>6. QED
        BY <1>39, <2>1, <2>3, <2>4, <2>5, LooseIsTree
<1>41. Count(g, n) = k /\ g[n].children = t
    BY <1>1, <1>4, <1>12, <1>27, <1>28, <1>29 DEF Filled, Count
<1>42. /\ Count(g, new) = Count(h, n) - (k + 1) /\ g[new].children = d
       /\ g[new].leaf = h[n].leaf
    <2>1. Count(f1, new) = Len(right) /\ f1[new].children = d
        BY <1>26 DEF Filled, Count
    <2>2. /\ f2[new].values = f1[new].values
                /\ f2[new].children = f1[new].children
          /\ g[new].values = f2[new].values
                /\ g[new].children = f2[new].children
        BY <1>4, <1>27, <1>28, <1>29 DEF Filled
    <2>3. g[new].leaf = h[n].leaf
        BY <1>24, <1>29
    <2>4. QED
        BY <1>13, <2>1, <2>2, <2>3 DEF Count
<1>43. Count(g, p) = Count(h, p) + 1
    BY <1>14, <1>28, FilledCounts
<1>44. ASSUME NEW m \in DOMAIN h, m \notin {n, p}
       PROVE  Count(g, m) = Count(h, m) /\ g[m].children = h[m].children
    BY <1>26, <1>27, <1>28, <1>29, <1>44 DEF Filled, Count
<1>45. \A m \in DOMAIN h : g[m].leaf = h[m].leaf
    BY <1>29
<1>46. ASSUME ~h[n].leaf, NEW j \in 0..k PROVE Child(g, n, j) = Child(h, n, j)
    <2>1. Len(u) # 0
        BY <1>6, <1>16, <1>46
    <2>2. PICK x \in 1..Len(t) : x = j + 1
        BY <1>9, <1>17, <2>1 DEF Halves
    <2>3. t[x] = u[x]
        BY <1>17 DEF Halves
    <2>4. QED
        BY <1>41, <2>2, <2>3 DEF Child
<1>47. ASSUME ~h[n].leaf, NEW j \in 0..(Count(h, n) - (k + 1))
       PROVE  Child(g, new, j) = Child(h, n, j + (k + 1))
    <2>1. Len(u) = Count(h, n) + 1 /\ Len(u) # 0
        BY <1>6, <1>16, <1>47
    <2>2. Len(d) = Len(u) - (k + 1)
        BY <1>17, <2>1 DEF Halves
    <2>3. PICK x \in 1..Len(d) : x = j + 1
        BY <1>6, <1>9, <2>1, <2>2
    <2>4. x + (k + 1) = (j + (k + 1)) + 1
        BY <1>9, <2>3
    <2>5. d[x] = u[x + (k + 1)]
        BY <1>17 DEF Halves
    <2>6. QED
        BY <1>42, <2>3, <2>4, <2>5 DEF Child
<1>48. Parted(h, g, n, new, k)
    BY <1>2, <1>9, <1>29, <1>41, <1>42, <1>43, <1>44, <1>45, <1>46, <1>47
       DEF Parted
<1>49. SplitOff(h, g, n, new, k)
    <2>1. g[n].values = left /\ g[n].children = t
        BY <1>1, <1>4, <1>27, <1>28, <1>29, <1>41 DEF Filled
    <2>2. g[new].values = right /\ g[new].children = d
        BY <1>4, <1>26, <1>27, <1>28, <1>29, <1>42 DEF Filled
    <2>3. g[p].values = above /\ g[p].children = kids
        BY <1>28 DEF Filled
    <2>4. \A m \in DOMAIN h \ {n, p} :
              g[m].values = h[m].values /\ g[m].children = h[m].children
        BY <1>26, <1>27, <1>28, <1>29 DEF Filled
    <2>5. QED
        BY <1>2, <1>10, <2>1, <2>2, <2>3, <2>4
           DEF SplitOff, left, right, t, d, above, kids
<1>50. QED
    BY <1>40, <1>48, <1>49 DEF n, k

(***************************************************************************)
(* Merging a node with its right sibling                                   *)
(***************************************************************************)

\* g is h without the node r.
Freed(h, g, r) ==
    /\ Heap(g)
    /\ DOMAIN g = DOMAIN h \ {r}
    /\ \A m \in DOMAIN g : g[m] = h[m]

\* What Free does to the nodes.
LEMMA FreeIs ==
    ASSUME NEW h, Heap(h), NEW r, NEW g, g = Free(h, {r})
    PROVE  Freed(h, g, r)
<1>1. DOMAIN g = DOMAIN h \ {r} /\ \A m \in DOMAIN g : g[m] = h[m]
    BY DEF Free
<1>2. g = [m \in DOMAIN g |-> g[m]]
    BY DEF Free
<1>3. \A m \in DOMAIN g : g[m] \in Node
    BY <1>1, NodeIs
<1>4. IsFiniteSet(DOMAIN g)
    <2>1. IsFiniteSet(DOMAIN h) /\ DOMAIN g \subseteq DOMAIN h
        BY <1>1 DEF Heap
    <2>2. QED
        BY <2>1, FS_Subset
<1>5. DOMAIN g \subseteq Nat \ {NoNode}
    BY <1>1 DEF Heap
<1>6. QED
    BY <1>1, <1>2, <1>3, <1>4, <1>5 DEF Heap, Freed

\* A node that is nobody's child and nobody's parent can be freed.
LEMMA FreeLoose ==
    ASSUME NEW h, NEW top, NEW lv, NEW S, NEW r,
           Loose(h, top, lv, S, {r}, {r}),
           \A m \in DOMAIN h \ {r} : \A i \in 1..Len(h[m].children) :
               h[m].children[i] # r,
           \A x \in DOMAIN h \ {r} : x = top \/ h[x].parent # r,
           NEW g, g = Free(h, {r})
    PROVE  Loose(g, top, lv, S, {}, {})
<1>1. Heap(g) /\ DOMAIN g = DOMAIN h \ {r} /\ \A m \in DOMAIN g : g[m] = h[m]
    <2>1. Heap(h)
        BY DEF Loose
    <2>2. Freed(h, g, r)
        BY <2>1, FreeIs
    <2>3. QED
        BY <2>2 DEF Freed
<1>2. ASSUME NEW m \in DOMAIN g PROVE Children(g, top, lv, m)
    <2>1. Children(h, top, lv, m) /\ m \in DOMAIN h \ {r}
        BY <1>1 DEF Loose
    <2>2. g[m] = h[m] /\ Count(g, m) = Count(h, m)
        BY <1>1 DEF Count
    <2>3. ASSUME NEW i \in 1..Len(h[m].children)
          PROVE  /\ h[m].children[i] \in DOMAIN g /\ h[m].children[i] # top
                 /\ g[h[m].children[i]].parent = m
                 /\ g[h[m].children[i]].position = i - 1
                 /\ lv[h[m].children[i]] + 1 = lv[m]
        <3>1. PICK x \in DOMAIN h : /\ x = h[m].children[i] /\ x # top
                                    /\ h[x].parent = m /\ h[x].position = i - 1
                                    /\ lv[x] + 1 = lv[m]
            BY <2>1 DEF Children
        <3>2. x # r
            BY <2>1, <3>1
        <3>3. x \in DOMAIN g /\ g[x] = h[x]
            BY <1>1, <3>2
        <3>4. QED
            BY <3>1, <3>3
    <2>4. Len(h[m].children) = IF h[m].leaf THEN 0 ELSE Count(h, m) + 1
        BY <2>1 DEF Children
    <2>5. QED
        BY <2>2, <2>3, <2>4 DEF Children
<1>3. ASSUME NEW m \in DOMAIN g PROVE Placed(g, top, S, m)
    <2>1. Placed(h, top, S, m) /\ m \in DOMAIN h \ {r}
        BY <1>1 DEF Loose
    <2>2. m # top => h[m].parent \in DOMAIN g
        BY <1>1, <2>1 DEF Placed
    <2>3. QED
        BY <1>1, <2>1, <2>2 DEF Placed
<1>4. ASSUME NEW m \in DOMAIN g PROVE Sized(g, top, lv, m)
    <2>1. Sized(h, top, lv, m)
        BY <1>1 DEF Loose
    <2>2. QED
        BY <1>1, <2>1 DEF Sized, Count
<1>5. QED
    BY <1>1, <1>2, <1>3, <1>4 DEF Loose

\* kids are the children c without the one at place i.
WithOneLess(c, i, kids) ==
    /\ kids \in Seq(Nat) /\ Distinct(kids)
    /\ Len(kids) = Len(c) - 1
    /\ \A j \in 1..Len(kids) :
          \E x \in 1..Len(c) : kids[j] = c[x] /\ x # i /\ (x = 1 => j = 1)
    /\ \A x \in 1..Len(c) : x = i \/ \E j \in 1..Len(kids) : kids[j] = c[x]

\* t is s without what is at place i.
HasOneLess(s, i, t) ==
    /\ Len(t) = Len(s) - 1
    /\ \A j \in 1..(Len(s) - 1) : t[j] = IF j < i THEN s[j] ELSE s[j + 1]

\* RemoveAt takes a member out.
LEMMA RemoveAtGives ==
    ASSUME NEW T, NEW s \in Seq(T), NEW i \in 1..Len(s)
    PROVE  RemoveAt(s, i) \in Seq(T) /\ HasOneLess(s, i, RemoveAt(s, i))
BY RemoveAtIs DEF HasOneLess

\* RemoveAt takes a child other than the first one out.
LEMMA OneLessChild ==
    ASSUME NEW c \in Seq(Nat), Distinct(c), NEW i \in 2..Len(c)
    PROVE  WithOneLess(c, i, RemoveAt(c, i))
<1> DEFINE kids == RemoveAt(c, i)
<1>1. Len(c) \in Nat /\ i \in 1..Len(c)
    OBVIOUS
<1>2. kids \in Seq(Nat) /\ HasOneLess(c, i, kids)
    BY <1>1, RemoveAtGives
<1> HIDE DEF kids
<1>3. /\ Len(kids) = Len(c) - 1
      /\ \A j \in 1..(Len(c) - 1) : kids[j] = IF j < i THEN c[j] ELSE c[j + 1]
    BY <1>2 DEF HasOneLess
<1>4. ASSUME NEW j \in 1..Len(kids)
      PROVE  \E x \in 1..Len(c) : /\ kids[j] = c[x] /\ x # i
                                        /\ (x = 1 => j = 1)
                                  /\ x = IF j < i THEN j ELSE j + 1
    <2>1. CASE j < i
        <3>1. PICK x \in 1..Len(c) : x = j
            BY <1>1, <1>3, <2>1
        <3>2. QED
            BY <1>1, <1>3, <2>1, <3>1
    <2>2. CASE j >= i
        <3>1. PICK x \in 1..Len(c) : x = j + 1 /\ x # 1 /\ x # i /\ ~(j < i)
            BY <1>1, <1>3, <2>2
        <3>2. kids[j] = c[x]
            BY <1>1, <1>3, <2>2, <3>1
        <3>3. QED
            BY <3>1, <3>2
    <2>3. QED
        BY <1>1, <2>1, <2>2
<1>5. ASSUME NEW x \in 1..Len(c), x # i
        PROVE \E j \in 1..Len(kids) : kids[j] = c[x]
    <2>1. CASE x < i
        <3>1. x \in 1..Len(kids) /\ kids[x] = c[x]
            BY <1>1, <1>3, <2>1
        <3>2. QED
            BY <3>1
    <2>2. CASE x > i
        <3>1. PICK j \in 1..Len(kids) : j = x - 1 /\ j + 1 = x /\ ~(j < i)
            BY <1>1, <1>3, <2>2
        <3>2. kids[j] = c[x]
            BY <1>3, <3>1
        <3>3. QED
            BY <3>2
    <2>3. QED
        BY <1>1, <1>5, <2>1, <2>2
<1>6. ASSUME NEW a \in 1..Len(kids), NEW b \in 1..Len(kids), kids[a] = kids[b]
      PROVE  a = b
    <2>1. PICK x \in 1..Len(c) : kids[a] = c[x]
              /\ x = IF a < i THEN a ELSE a + 1
        BY <1>4
    <2>2. PICK y \in 1..Len(c) : kids[b] = c[y]
              /\ y = IF b < i THEN b ELSE b + 1
        BY <1>4
    <2>3. x = y
        BY <1>6, <2>1, <2>2 DEF Distinct
    <2>4. QED
        BY SMTT(30), <1>1, <2>1, <2>2, <2>3
<1>7. WithOneLess(c, i, kids)
    BY <1>2, <1>3, <1>4, <1>5, <1>6 DEF WithOneLess, Distinct
<1>8. QED
    BY <1>7 DEF kids

\* g is h after n took in its right sibling r and the value between them.
Merged(h, g, n, r) ==
    /\ DOMAIN g = DOMAIN h \ {r}
    /\ \A m \in DOMAIN g : g[m].leaf = h[m].leaf
    /\ Count(g, n) = Count(h, n) + 1 + Count(h, r)
    /\ Count(g, h[n].parent) + 1 = Count(h, h[n].parent)
    /\ \A m \in DOMAIN g \ {n, h[n].parent} : Count(g, m) = Count(h, m)

\* What the nodes of h have in g after n took in its right sibling r.
TakenIn(h, g, n, r, v, u) ==
    /\ g[n].values = v /\ g[n].children = u
    /\ g[h[n].parent].values =
          RemoveAt(h[h[n].parent].values, h[n].position + 1)
    /\ g[h[n].parent].children =
          RemoveAt(h[h[n].parent].children, (h[n].position + 1) + 1)
    /\ \A m \in DOMAIN h \ {n, r, h[n].parent} :
          g[m].values = h[m].values /\ g[m].children = h[m].children

\* Merging two siblings that fit on one node leaves a tree.
LEMMA MergeIs ==
    ASSUME NEW h, NEW top, NEW lv, NEW S, Tree(h, top, lv, S),
           NEW n \in DOMAIN h, n # top, HasRight(h, n),
           NEW r, r = Right(h, n),
           1 + Count(h, n) + Count(h, r) <= h[n].max_count,
           NEW g, g = Merge(h, n)
    PROVE  /\ Tree(g, top, lv, S) /\ Merged(h, g, n, r)
           /\ TakenIn(h, g, n, r, ValuesOfBoth(h, n, r), Both(h, n, r))
<1>1. /\ r \in DOMAIN h /\ r # top /\ r # n /\ lv[n] = lv[r] /\ r \notin S
      /\ h[r].parent = h[n].parent /\ h[r].position = h[n].position + 1
    BY RightIs
<1>2. PICK p \in DOMAIN h : p = h[n].parent
    BY ParentIs
<1>3. ~h[p].leaf /\ h[n].position \in 0..Count(h, p) /\ lv[p] = lv[n] + 1
    BY <1>2, ParentIs
<1>4. p # n /\ p # r
    <2>1. lv[n] \in Nat
        BY DEF Tree, Sized
    <2>2. QED
        BY <1>1, <1>3, <2>1
<1>5. /\ Heap(h) /\ h[p].values \in Seq(Values) /\ h[n].values \in Seq(Values)
      /\ h[r].values \in Seq(Values) /\ h[p].children \in Seq(Nat)
    BY <1>1, NodeIs DEF Tree
<1>6. Count(h, n) \in Nat /\ Count(h, r) \in Nat /\ Count(h, p) \in Nat
    BY <1>1, <1>5, CountIs
<1>7. /\ Count(h, p) = Len(h[p].values) /\ Count(h, n) = Len(h[n].values)
      /\ Count(h, r) = Len(h[r].values)
    BY DEF Count
<1>8. PICK i \in 1..Len(h[p].values) : i = h[n].position + 1
    BY <1>2, <1>3, <1>6, <1>7 DEF HasRight
<1>9. h[p].values[i] \in Values
    BY <1>5
<1> DEFINE v == (h[n].values \o <<h[p].values[i]>>) \o h[r].values
           u == h[n].children \o h[r].children
           c == h[p].children
           less == RemoveAt(h[p].values, i)
           kids == RemoveAt(c, i + 1)
           f1 == Fill(h, n, v, u)
           f2 == Fill(f1, p, less, kids)
<1>10. g = Free(f2, {r})
    BY <1>2, <1>8 DEF Merge
<1>11. v \in Seq(Values) /\ Len(v) = Count(h, n) + 1 + Count(h, r)
    BY <1>5, <1>7, <1>9, ValuesInARow
<1>12. less \in Seq(Values) /\ Len(less) = Count(h, p) - 1
    <2>1. less \in Seq(Values) /\ HasOneLess(h[p].values, i, less)
        BY <1>5, RemoveAtGives
    <2>2. QED
        BY <1>7, <2>1 DEF HasOneLess
<1>13. Gathered(h, top, lv, S, n, r, u)
    BY <1>1, BothIs DEF Both
<1>14. /\ u \in Seq(Nat) /\ Distinct(u)
       /\ h[n].leaf => Len(u) = 0
       /\ ~h[n].leaf => Len(u) = Count(h, n) + Count(h, r) + 2
    BY <1>13 DEF Gathered
<1> HIDE DEF v, less, u
<1>15. Children(h, top, lv, p)
    BY DEF Tree
<1>16. Len(c) = Count(h, p) + 1
    BY <1>3, <1>15 DEF Children
<1>17. \A j \in 1..Len(c) : /\ c[j] \in DOMAIN h /\ c[j] # top
                                  /\ h[c[j]].parent = p
                            /\ h[c[j]].position = j - 1 /\ lv[c[j]] + 1 = lv[p]
    BY <1>15 DEF Children
<1>18. WithOneLess(c, i + 1, kids)
    <2>1. Distinct(c)
        BY <1>15, KidsDistinct
    <2>2. i + 1 \in 2..Len(c)
        BY <1>6, <1>7, <1>16
    <2>3. QED
        BY <1>5, <2>1, <2>2, OneLessChild
<1> HIDE DEF kids
<1>19. \A x \in 1..Len(c) : c[x] = r <=> x = i + 1
    <2>1. PICK x \in 1..Len(c) : c[x] = r
        BY SMTT(30), <1>1, <1>2 DEF Tree, Placed
    <2>2. x - 1 = i
        BY <1>1, <1>8, <1>17, <2>1
    <2>3. x = i + 1
        BY <2>2
    <2>4. ASSUME NEW y \in 1..Len(c), c[y] = r PROVE y = i + 1
        <3>1. y - 1 = x - 1
            BY <1>17, <2>1, <2>4
        <3>2. QED
            BY <2>3, <3>1
    <2>5. QED
        BY <2>1, <2>3, <2>4
<1>20. ASSUME NEW j \in 1..Len(kids)
       PROVE  /\ kids[j] \in DOMAIN h /\ kids[j] # top /\ kids[j] # r
              /\ h[kids[j]].parent = p
              /\ lv[kids[j]] + 1 = lv[p]
              /\ kids[j] \in S => j = 1 /\ p \in S
    <2>1. PICK x \in 1..Len(c) : kids[j] = c[x] /\ x # i + 1
              /\ (x = 1 => j = 1)
        BY <1>18 DEF WithOneLess
    <2>2. /\ c[x] \in DOMAIN h /\ c[x] # top /\ h[c[x]].parent = p
          /\ h[c[x]].position = x - 1 /\ lv[c[x]] + 1 = lv[p]
        BY <1>17
    <2>3. c[x] \in S => x - 1 = 0 /\ p \in S
        BY <2>2 DEF Tree, Placed
    <2>4. c[x] # r
        BY <1>19, <2>1
    <2>5. QED
        BY <2>1, <2>2, <2>3, <2>4
<1>21. ASSUME NEW x \in DOMAIN h, x # top, h[x].parent = p
       PROVE  x = r \/ \E j \in 1..Len(kids) : kids[j] = x
    <2>1. PICK j \in 1..Len(c) : c[j] = x
        BY <1>21 DEF Tree, Placed
    <2>2. QED
        BY <1>18, <1>19, <2>1 DEF WithOneLess
<1>22. /\ \A j \in 1..Len(u) : /\ u[j] \in DOMAIN h /\ u[j] # top
                               /\ h[u[j]].parent \in {n, r}
                               /\ lv[u[j]] + 1 = lv[n]
                               /\ u[j] \in S => j = 1 /\ n \in S
    BY <1>13 DEF Gathered
<1>23. \A x \in DOMAIN h :
          x # top /\ h[x].parent \in {n, r} => \E j \in 1..Len(u) : u[j] = x
    BY <1>13 DEF Gathered
<1>24. Filled(h, f1, n, v, u)
    BY <1>5, <1>11, <1>14, FillIs
<1> HIDE DEF f1
<1>25. Filled(f1, f2, p, less, kids)
    <2>1. Heap(f1) /\ p \in DOMAIN f1
        BY <1>24 DEF Filled
    <2>2. QED
        BY <1>12, <1>18, <2>1, FillIs DEF WithOneLess
<1> HIDE DEF f2
<1>26. /\ DOMAIN f1 = DOMAIN h /\ DOMAIN f2 = DOMAIN h /\ Heap(f2)
       /\ \A m \in DOMAIN h : /\ f1[m].leaf = h[m].leaf
                                    /\ f2[m].leaf = h[m].leaf
                              /\ f1[m].max_count = h[m].max_count
    BY <1>24, <1>25 DEF Filled
<1>27. Loose(f1, top, lv, S, {r}, {r})
    <2>1. Loose(h, top, lv, S, {}, {})
        BY TreeIsLoose
    <2>2. Kids(h, top, lv, S, n, u)
        BY <1>22 DEF Kids
    <2>3. Len(u) = IF h[n].leaf THEN 0 ELSE Len(v) + 1
        <3>1. h[n].leaf \in BOOLEAN
            BY <1>5, NodeIs
        <3>2. QED
            BY SMTT(30), <1>6, <1>11, <1>14, <3>1
    <2>4. Len(v) <= h[n].max_count
        BY <1>6, <1>11
    <2>5. \A m \in DOMAIN h : m \in {r} \/ m = n
             \/ (m \notin {}
                 /\ (h[m].leaf \/ \A j \in 1..Len(u) : h[u[j]].parent # m))
        BY <1>22
    <2>6. \A x \in DOMAIN h : x \in {r} \/ (\E j \in 1..Len(u) : u[j] = x)
             \/ x = top \/ (x \notin {} /\ h[x].parent # n)
        BY <1>23
    <2>7. \A m \in DOMAIN h : m \in {} /\ m \in {} =>
             (m \in {r} /\ m \in {r}) \/ Sized(h, top, lv, m)
        OBVIOUS
    <2>8. QED
        BY <1>24, <2>1, <2>2, <2>3, <2>4, <2>5, <2>6, <2>7, FillLoose
<1>28. ASSUME NEW x \in DOMAIN h, x # top, h[x].parent \notin {n, r}
       PROVE  f1[x].parent = h[x].parent
    <2>1. \A j \in 1..Len(u) : u[j] # x
        BY <1>22, <1>28
    <2>2. QED
        BY <1>24, <2>1 DEF Filled
<1>29. ASSUME NEW x \in DOMAIN h, x # top, h[x].parent \in {n, r}
       PROVE  f1[x].parent = n
    BY <1>23, <1>24, <1>29 DEF Filled
<1>30. Loose(f2, top, lv, S, {r}, {r})
    <2>1. Kids(f1, top, lv, S, p, kids)
        BY <1>20, <1>26 DEF Kids
    <2>2. Len(kids) = IF f1[p].leaf THEN 0 ELSE Len(less) + 1
        <3>1. Len(kids) = Len(c) - 1 /\ ~f1[p].leaf
            BY <1>3, <1>18, <1>26 DEF WithOneLess
        <3>2. QED
            BY <1>6, <1>12, <1>16, <3>1
    <2>3. Len(less) <= f1[p].max_count
        <3>1. Count(h, p) <= h[p].max_count /\ h[p].max_count \in Int
            BY <1>5, NodeIs, NodeValuesAssumption DEF Tree, Sized
        <3>2. QED
            BY <1>6, <1>12, <1>26, <3>1
    <2>4. p \in DOMAIN f1
        BY <1>26
    <2>5. \A j \in 1..Len(kids) : f1[kids[j]].parent = p
        BY <1>4, <1>20, <1>28
    <2>6. \A m \in DOMAIN f1 : m \in {r} \/ m = p
             \/ (m \notin {r}
                 /\ (f1[m].leaf
                       \/ \A j \in 1..Len(kids) : f1[kids[j]].parent # m))
        BY <2>5
    <2>7. ASSUME NEW x \in DOMAIN h, x # r, x # top,
                 \A j \in 1..Len(kids) : kids[j] # x
          PROVE  f1[x].parent # p
        <3>1. h[x].parent # p
            BY <1>21, <2>7
        <3>2. QED
            BY <1>4, <1>28, <1>29, <2>7, <3>1
    <2>8. \A x \in DOMAIN f1 : x \in {r}
              \/ (\E j \in 1..Len(kids) : kids[j] = x)
             \/ x = top \/ (x \notin {r} /\ f1[x].parent # p)
        BY <1>26, <2>7
    <2>9. \A m \in DOMAIN f1 : m \in {r} /\ m \in {r} =>
             (m \in {r} /\ m \in {r}) \/ Sized(f1, top, lv, m)
        OBVIOUS
    <2>10. QED
        BY <1>25, <1>27, <2>1, <2>2, <2>3, <2>4, <2>6, <2>8, <2>9, FillLoose
<1>31. Loose(g, top, lv, S, {}, {})
    <2>1. ASSUME NEW m \in DOMAIN f2 \ {r}, NEW j \in 1..Len(f2[m].children)
          PROVE  f2[m].children[j] # r
        <3>1. CASE m = p
            BY <1>20, <1>25, <3>1 DEF Filled
        <3>2. CASE m = n
            <4>1. f2[n].children = u
                BY <1>4, <1>24, <1>25, <1>26 DEF Filled
            <4>2. \A x \in 1..Len(u) : u[x] # r
                BY <1>1, <1>2, <1>4, <1>22
            <4>3. QED
                BY <3>2, <4>1, <4>2
        <3>3. CASE m # p /\ m # n
            <4>1. f2[m].children = h[m].children /\ m \in DOMAIN h
                BY <1>24, <1>25, <1>26, <3>3 DEF Filled
            <4>2. Children(h, top, lv, m)
                BY <4>1 DEF Tree
            <4>3. h[h[m].children[j]].parent = m
                BY <4>1, <4>2 DEF Children
            <4>4. QED
                BY <1>1, <1>2, <3>3, <4>1, <4>3
        <3>4. QED
            BY <3>1, <3>2, <3>3
    <2>2. ASSUME NEW x \in DOMAIN f2 \ {r}, x # top PROVE f2[x].parent # r
        <3>1. CASE \E j \in 1..Len(kids) : kids[j] = x
            <4>1. f2[x].parent = p
                BY <1>25, <1>26, <3>1 DEF Filled
            <4>2. QED
                BY <1>4, <4>1
        <3>2. CASE \A j \in 1..Len(kids) : kids[j] # x
            <4>1. f2[x].parent = f1[x].parent
                BY <1>25, <1>26, <3>2 DEF Filled
            <4>2. f1[x].parent # r
                BY <1>1, <1>26, <1>28, <1>29, <2>2
            <4>3. QED
                BY <4>1, <4>2
        <3>3. QED
            BY <3>1, <3>2
    <2>3. QED
        BY <1>10, <1>30, <2>1, <2>2, FreeLoose
<1>32. /\ Heap(g) /\ DOMAIN g = DOMAIN h \ {r}
       /\ \A m \in DOMAIN g : g[m] = f2[m]
    <2>1. Heap(f2)
        BY <1>26
    <2>2. Freed(f2, g, r)
        BY <1>10, <2>1, FreeIs
    <2>3. QED
        BY <1>26, <2>2 DEF Freed
<1>33. Tree(g, top, lv, S)
    <2>1. /\ top \in DOMAIN h /\ h[top].parent \in DOMAIN h
                /\ h[top].parent \in S
          /\ h[h[top].parent].leaf /\ S \subseteq DOMAIN h /\ top \in S
        BY DEF Tree
    <2>2. f1[top].parent = h[top].parent
        BY <1>22, <1>24, <2>1 DEF Filled
    <2>3. f2[top].parent = f1[top].parent
        BY <1>20, <1>25, <1>26, <2>1 DEF Filled
    <2>4. top \in DOMAIN g /\ g[top].parent = h[top].parent
        BY <1>1, <1>32, <2>1, <2>2, <2>3
    <2>5. h[top].parent \in DOMAIN g /\ S \subseteq DOMAIN g
        BY <1>1, <1>32, <2>1
    <2>6. g[h[top].parent].leaf
        BY <1>26, <1>32, <2>1, <2>5
    <2>7. QED
        BY <1>31, <2>1, <2>4, <2>5, <2>6, LooseIsTree
<1>34. ASSUME NEW m \in DOMAIN g
       PROVE  g[m].leaf = h[m].leaf /\ Count(g, m) = Count(f2, m)
    BY <1>26, <1>32 DEF Count
<1>35. n \in DOMAIN g /\ p \in DOMAIN g
    BY <1>1, <1>4, <1>32
<1>36. Count(g, n) = Count(h, n) + 1 + Count(h, r)
    <2>1. Count(f2, n) = Len(v)
        BY <1>4, <1>24, <1>25, <1>26 DEF Filled, Count
    <2>2. QED
        BY <1>11, <1>34, <1>35, <2>1
<1>37. Count(g, p) + 1 = Count(h, p)
    <2>1. Count(f2, p) = Len(less)
        BY <1>25, FilledCounts
    <2>2. QED
        BY <1>6, <1>12, <1>34, <1>35, <2>1
<1>38. ASSUME NEW m \in DOMAIN g, m \notin {n, p}
         PROVE Count(g, m) = Count(h, m)
    <2>1. m \in DOMAIN h
        BY <1>32
    <2>2. f2[m].values = h[m].values
        BY <1>24, <1>25, <1>26, <1>38, <2>1 DEF Filled
    <2>3. QED
        BY <1>34, <2>2 DEF Count
<1>39. Merged(h, g, n, r)
    BY <1>2, <1>32, <1>34, <1>36, <1>37, <1>38 DEF Merged
<1>40. TakenIn(h, g, n, r, v, u)
    <2>1. g[n].values = v /\ g[n].children = u
        BY <1>4, <1>24, <1>25, <1>26, <1>32, <1>35 DEF Filled
    <2>2. g[p].values = less /\ g[p].children = kids
        BY <1>25, <1>32, <1>35 DEF Filled
    <2>3. \A m \in DOMAIN h \ {n, r, p} :
              g[m].values = h[m].values /\ g[m].children = h[m].children
        BY <1>24, <1>25, <1>26, <1>32 DEF Filled
    <2>4. QED
        BY <1>2, <1>8, <2>1, <2>2, <2>3 DEF TakenIn, less, kids
<1>41. v = ValuesOfBoth(h, n, r) /\ u = Both(h, n, r)
    BY <1>2, <1>8 DEF v, u, ValuesOfBoth, Both
<1>42. QED
    BY <1>33, <1>39, <1>40, <1>41

(***************************************************************************)
(* A leaf alone, and other values on a node                                *)
(***************************************************************************)

\* A root that is a leaf is the only node.
LEMMA LoneLeaf ==
    ASSUME NEW h, NEW top, NEW lv, NEW S, Tree(h, top, lv, S), h[top].leaf
    PROVE  DOMAIN h = {top} /\ h[top].parent = top
<1>1. lv[top] = 0
    BY DEF Tree, Sized
<1>2. ASSUME NEW n \in DOMAIN h, n # top PROVE FALSE
    <2>1. lv[n] \in Nat /\ lv[n] < lv[top]
        BY <1>2 DEF Tree, Sized
    <2>2. QED
        BY <1>1, <2>1
<1>3. QED
    BY <1>2 DEF Tree

\* A leaf alone is a tree.
LEMMA LoneTree ==
    ASSUME NEW g, Heap(g), NEW n, DOMAIN g = {n}, g[n].leaf, g[n].parent = n,
           Len(g[n].children) = 0, Count(g, n) <= g[n].max_count,
           NEW lv, lv[n] = 0
    PROVE  Tree(g, n, lv, {n})
<1>1. Children(g, n, lv, n)
    BY DEF Children
<1>2. Placed(g, n, {n}, n) /\ Sized(g, n, lv, n)
    BY DEF Placed, Sized
<1>3. QED
    BY <1>1, <1>2 DEF Tree

\* The node of g that alone is a tree.
Lone(g, n, max, held) ==
    /\ \E lv : Tree(g, n, lv, {n})
    /\ DOMAIN g = {n} /\ g[n].leaf
    /\ g[n].max_count = max /\ Count(g, n) = held

\* n has in h the values that m has in g.
SameValues(h, n, g, m) == g[m].values = h[n].values

\* The first node of a tree is a leaf for one value.
LEMMA FirstRootIs ==
    ASSUME NEW h, Heap(h), DOMAIN h = {}, NEW new, new = Fresh(h),
           NEW g, g = Allocate(h, new, NewNode(TRUE, new, 1))
    PROVE  Lone(g, new, 1, 0)
<1>1. new \in Nat /\ new # NoNode /\ new \notin DOMAIN h
    BY FreshIsNew
<1>2. 1 \in 1..NodeValues
    BY NodeValuesAssumption
<1> DEFINE node == NewNode(TRUE, new, 1)
<1>3. /\ node \in Node /\ node.leaf = TRUE /\ node.parent = new
      /\ node.max_count = 1 /\ node.values = <<>> /\ node.children = <<>>
    <2>1. PICK leaf \in BOOLEAN : leaf = TRUE
        OBVIOUS
    <2>2. PICK max \in 1..NodeValues : max = 1
        BY <1>2
    <2>3. /\ NewNode(leaf, new, max) \in Node
          /\ NewNode(leaf, new, max).leaf = leaf
          /\ NewNode(leaf, new, max).parent = new
          /\ NewNode(leaf, new, max).max_count = max
          /\ NewNode(leaf, new, max).values = <<>>
          /\ NewNode(leaf, new, max).children = <<>>
        BY <1>1, NewNodeIs
    <2>4. QED
        BY <2>1, <2>2, <2>3
<1>4. Grown(h, g, new, node)
    <2>1. node \in Node
        BY <1>3
    <2>2. g = Allocate(h, new, node)
        OBVIOUS
    <2> HIDE DEF node
    <2>3. QED
        BY <1>1, <2>1, <2>2, AllocateIs
<1> HIDE DEF node
<1>5. Heap(g) /\ DOMAIN g = {new} /\ g[new] = node
    BY <1>4 DEF Grown
<1>6. Count(g, new) = 0
    <2>1. g[new].values = <<>>
        BY <1>3, <1>5
    <2>2. QED
        BY <2>1 DEF Count
<1> DEFINE lv == [m \in {new} |-> 0]
<1>7. lv[new] = 0
    OBVIOUS
<1> HIDE DEF lv
<1>8. Tree(g, new, lv, {new})
    <2>1. g[new].leaf /\ g[new].parent = new
        BY <1>3, <1>5
    <2>2. Len(g[new].children) = 0
        BY <1>3, <1>5
    <2>3. Count(g, new) <= g[new].max_count
        <3>1. g[new].max_count = 1
            BY <1>3, <1>5
        <3>2. 0 <= 1
            OBVIOUS
        <3>3. QED
            BY <1>6, <3>1, <3>2, Zenon
    <2>4. QED
        BY <1>5, <1>7, <2>1, <2>2, <2>3, LoneTree
<1>9. QED
    BY <1>3, <1>5, <1>6, <1>8 DEF Lone

\* g is f after n got other values.
Revalued(f, g, n, values) ==
    /\ Heap(g) /\ DOMAIN g = DOMAIN f
    /\ \A m \in DOMAIN f \ {n} : g[m] = f[m]
    /\ g[n].values = values
    /\ g[n].leaf = f[n].leaf /\ g[n].max_count = f[n].max_count
    /\ g[n].parent = f[n].parent /\ g[n].position = f[n].position
    /\ g[n].children = f[n].children

\* What an assignment to the values of a node does to the nodes.
LEMMA RevaluedIs ==
    ASSUME NEW f, Heap(f), NEW n \in DOMAIN f, NEW values \in Seq(Values),
           NEW g, g = [f EXCEPT ![n].values = values]
    PROVE  Revalued(f, g, n, values)
<1>1. f[n] \in Node
    BY NodeIs
<1>2. g[n] = [f[n] EXCEPT !.values = values] /\ DOMAIN g = DOMAIN f
    BY DEF Heap
<1>3. \A m \in DOMAIN f \ {n} : g[m] = f[m]
    OBVIOUS
<1>4. g[n] \in Node
    BY <1>1, <1>2 DEF Node
<1>5. /\ g[n].values = values
      /\ g[n].leaf = f[n].leaf /\ g[n].max_count = f[n].max_count
      /\ g[n].parent = f[n].parent /\ g[n].position = f[n].position
      /\ g[n].children = f[n].children
    BY <1>1, <1>2 DEF Node
<1>6. Heap(g)
    BY <1>2, <1>3, <1>4 DEF Heap
<1>7. QED
    BY <1>2, <1>3, <1>5, <1>6 DEF Revalued

\* Only n counts its values anew.
LEMMA RevaluedCounts ==
    ASSUME NEW f, NEW g, NEW n, NEW values, Revalued(f, g, n, values)
    PROVE  /\ Count(g, n) = Len(values)
           /\ \A m \in DOMAIN f \ {n} : Count(g, m) = Count(f, m)
BY DEF Revalued, Count

\* The same number of values, or others on a leaf: it is still a tree.
LEMMA RevaluedTree ==
    ASSUME NEW f, NEW top, NEW lv, NEW S, Tree(f, top, lv, S),
           NEW n \in DOMAIN f,
           NEW values, NEW g, Revalued(f, g, n, values),
           f[n].leaf \/ Len(values) = Count(f, n),
               Len(values) <= f[n].max_count
    PROVE  Tree(g, top, lv, S)
<1>1. DOMAIN g = DOMAIN f /\ Heap(g)
    BY DEF Revalued
<1>2. ASSUME NEW m \in DOMAIN f
      PROVE  /\ g[m].leaf = f[m].leaf /\ g[m].max_count = f[m].max_count
             /\ g[m].parent = f[m].parent /\ g[m].position = f[m].position
             /\ g[m].children = f[m].children
    BY DEF Revalued
<1>3. ASSUME NEW m \in DOMAIN f
      PROVE  f[m].leaf \/ Count(g, m) = Count(f, m)
    BY RevaluedCounts
<1>4. ASSUME NEW m \in DOMAIN f
      PROVE  Count(g, m) <= f[m].max_count
    <2>1. Count(f, m) <= f[m].max_count
        BY DEF Tree, Sized
    <2>2. QED
        BY <2>1, RevaluedCounts
<1>5. QED
    BY <1>1, <1>2, <1>3, <1>4, ValuesMayChange

\* An unfinished node may get any values.
LEMMA RevaluedLoose ==
    ASSUME NEW f, NEW top, NEW lv, NEW S, NEW X,
           NEW Y, Loose(f, top, lv, S, X, Y),
           NEW n \in DOMAIN f, NEW values, NEW g, Revalued(f, g, n, values),
           n \in X, n \in Y \/ Len(values) <= f[n].max_count
    PROVE  Loose(g, top, lv, S, X, Y)
<1>1. DOMAIN g = DOMAIN f /\ Heap(g)
    BY DEF Revalued
<1>2. ASSUME NEW m \in DOMAIN f
      PROVE  /\ g[m].leaf = f[m].leaf /\ g[m].max_count = f[m].max_count
             /\ g[m].parent = f[m].parent /\ g[m].position = f[m].position
             /\ g[m].children = f[m].children
    BY DEF Revalued
<1>3. ASSUME NEW m \in DOMAIN f, m \notin X PROVE Children(g, top, lv, m)
    <2>1. Children(f, top, lv, m)
        BY <1>3 DEF Loose
    <2>2. Count(g, m) = Count(f, m)
        BY <1>3, RevaluedCounts
    <2>3. ASSUME NEW i \in 1..Len(f[m].children)
          PROVE  /\ f[m].children[i] \in DOMAIN f /\ f[m].children[i] # top
                 /\ g[f[m].children[i]].parent = m
                 /\ g[f[m].children[i]].position = i - 1
                 /\ lv[f[m].children[i]] + 1 = lv[m]
        <3>1. PICK x \in DOMAIN f : /\ x = f[m].children[i] /\ x # top
                                    /\ f[x].parent = m /\ f[x].position = i - 1
                                    /\ lv[x] + 1 = lv[m]
            BY <2>1 DEF Children
        <3>2. g[x].parent = f[x].parent /\ g[x].position = f[x].position
            BY <1>2
        <3>3. QED
            BY <3>1, <3>2
    <2>4. Len(f[m].children) = IF f[m].leaf THEN 0 ELSE Count(f, m) + 1
        BY <2>1 DEF Children
    <2>5. g[m].children = f[m].children /\ g[m].leaf = f[m].leaf
        BY <1>2
    <2>6. QED
        BY <1>1, <2>2, <2>3, <2>4, <2>5 DEF Children
<1>4. ASSUME NEW m \in DOMAIN f, m \notin Y PROVE Placed(g, top, S, m)
    <2>1. Placed(f, top, S, m)
        BY <1>4 DEF Loose
    <2>2. CASE m = top
        BY <2>2 DEF Placed
    <2>3. CASE m # top
        <3>1. PICK p \in DOMAIN f : p = f[m].parent
            BY <2>1, <2>3 DEF Placed
        <3>2. /\ g[m].parent = f[m].parent /\ g[m].position = f[m].position
              /\ g[p].children = f[p].children
            BY <1>2
        <3>3. QED
            BY <1>1, <2>1, <3>1, <3>2 DEF Placed
    <2>4. QED
        BY <2>2, <2>3
<1>5. ASSUME NEW m \in DOMAIN f, ~(m \in X /\ m \in Y)
        PROVE Sized(g, top, lv, m)
    <2>1. Sized(f, top, lv, m)
        BY <1>5 DEF Loose
    <2>2. Count(g, m) <= f[m].max_count
        BY <1>5, <2>1, RevaluedCounts DEF Sized
    <2>3. QED
        BY <1>2, <2>1, <2>2 DEF Sized
<1>6. QED
    BY <1>1, <1>3, <1>4, <1>5 DEF Loose

\* A value at a place of a leaf that is not full.
LEMMA InsertValueIs ==
    ASSUME NEW h, NEW top, NEW lv, NEW S, Tree(h, top, lv, S),
           NEW s, s.node \in DOMAIN h, h[s.node].leaf, ~IsFull(h, s.node),
           s.position \in 0..Count(h, s.node), NEW v \in Values,
           NEW g, g = InsertValue(h, s, v)
    PROVE  \E values : /\ Revalued(h, g, s.node, values)
                       /\ Tree(g, top, lv, S)
                       /\ Count(g, s.node) = Count(h, s.node) + 1
<1>1. PICK n \in DOMAIN h : n = s.node
    OBVIOUS
<1>2. /\ Heap(h) /\ h[n].values \in Seq(Values)
      /\ Count(h, n) \in Nat /\ Count(h, n) = Len(h[n].values)
      /\ h[n].max_count \in Nat
    BY NodeIs, CountIs DEF Tree
<1>3. PICK i \in 1..(Len(h[n].values) + 1) : i = s.position + 1
    BY <1>1, <1>2
<1>4. PICK values : values = InsertAt(h[n].values, i, v)
    OBVIOUS
<1>5. values \in Seq(Values) /\ Len(values) = Len(h[n].values) + 1
    <2>1. h[n].values \in Seq(Values)
        BY <1>2
    <2>2. values \in Seq(Values) /\ HasOneMore(h[n].values, i, v, values)
        BY <1>3, <1>4, <2>1, InsertAtGives
    <2>3. QED
        BY <2>2 DEF HasOneMore
<1>6. g = [h EXCEPT ![n].values = values]
    BY <1>1, <1>3, <1>4 DEF InsertValue
<1>7. Revalued(h, g, n, values)
    BY <1>2, <1>5, <1>6, RevaluedIs
<1>8. Count(g, n) = Count(h, n) + 1
    <2>1. Count(g, n) = Len(values)
        BY <1>7, RevaluedCounts
    <2>2. QED
        BY <1>2, <1>5, <2>1
<1>9. Len(values) <= h[n].max_count
    <2>1. Count(h, n) <= h[n].max_count
        BY DEF Tree, Sized
    <2>2. Count(h, n) # h[n].max_count
        BY <1>1 DEF IsFull
    <2>3. Count(h, n) + 1 <= h[n].max_count
        BY <1>2, <2>1, <2>2
    <2>4. QED
        BY <1>2, <1>5, <2>3
<1>10. h[n].leaf
    BY <1>1
<1>11. Tree(g, top, lv, S)
    BY <1>7, <1>9, <1>10, RevaluedTree
<1>12. QED
    BY <1>1, <1>7, <1>8, <1>11

\* The root becomes larger.
LEMMA GrowIs ==
    ASSUME NEW h, NEW top, NEW lv, NEW S, Tree(h, top, lv, S), h[top].leaf,
           NEW max \in 1..NodeValues, Count(h, top) <= max,
           NEW new, new = Fresh(h),
           NEW grown, grown = Allocate(h, new, NewNode(TRUE, new, max)),
           NEW g, g = Free(MoveContents(grown, top, new), {top})
    PROVE  Lone(g, new, max, Count(h, top)) /\ SameValues(h, top, g, new)
<1>1. DOMAIN h = {top} /\ Heap(h)
    BY LoneLeaf DEF Tree
<1>2. new \in Nat /\ new # NoNode /\ new \notin DOMAIN h /\ new # top
    BY <1>1, FreshIsNew
<1>3. PICK leaf \in BOOLEAN : leaf = TRUE
    OBVIOUS
<1>4. PICK node \in Node :
         /\ node = NewNode(leaf, new, max)
         /\ node.leaf = leaf /\ node.parent = new /\ node.max_count = max
         /\ node.values = <<>> /\ node.children = <<>>
    BY <1>2, NewNodeIs
<1>5. Grown(h, grown, new, node)
    <2>1. grown = Allocate(h, new, node)
        BY <1>3, <1>4
    <2>2. QED
        BY <1>1, <1>2, <2>1, AllocateIs
<1>6. /\ Heap(grown) /\ DOMAIN grown = {top, new}
      /\ grown[new] = node /\ grown[top] = h[top]
    BY <1>1, <1>5 DEF Grown
<1>7. /\ h[top].values \in Seq(Values) /\ h[top].children \in Seq(Nat)
      /\ Len(h[top].children) = 0
    <2>1. Children(h, top, lv, top)
        BY <1>1 DEF Tree
    <2>2. QED
        BY <1>1, <2>1, NodeIs DEF Children
<1>8. Distinct(h[top].children)
    BY <1>7 DEF Distinct
<1>9. PICK f : f = Fill(grown, new, h[top].values, h[top].children)
    OBVIOUS
<1>10. Filled(grown, f, new, h[top].values, h[top].children)
    BY <1>2, <1>6, <1>7, <1>8, <1>9, FillIs
<1>11. /\ Heap(f) /\ DOMAIN f = {top, new}
       /\ f[new].leaf = leaf /\ f[new].max_count = max
       /\ f[new].values = h[top].values /\ f[new].children = h[top].children
       /\ f[new].parent = new
    <2>1. \A i \in 1..Len(h[top].children) : h[top].children[i] # new
        BY <1>7
    <2>2. f[new].parent = grown[new].parent
        BY <1>6, <1>10, <2>1 DEF Filled
    <2>3. /\ Heap(f) /\ DOMAIN f = {top, new}
          /\ f[new].leaf = grown[new].leaf
          /\ f[new].max_count = grown[new].max_count
          /\ f[new].values = h[top].values /\ f[new].children = h[top].children
        <3>1. new \in DOMAIN grown
            BY <1>6
        <3>2. QED
            BY <1>6, <1>10, <3>1 DEF Filled
    <2>4. grown[new].leaf = leaf /\ grown[new].max_count = max
              /\ grown[new].parent = new
        BY <1>4, <1>6
    <2>5. QED
        BY <2>2, <2>3, <2>4
<1>12. <<>> \in Seq(Values)
    OBVIOUS
<1>13. PICK e : e = [f EXCEPT ![top].values = <<>>]
    OBVIOUS
<1>14. Revalued(f, e, top, <<>>)
    BY <1>11, <1>12, <1>13, RevaluedIs
<1>15. g = Free(e, {top})
    BY <1>6, <1>9, <1>13 DEF MoveContents
<1>16. Heap(e) /\ DOMAIN e = {top, new} /\ e[new] = f[new]
    BY <1>2, <1>11, <1>14 DEF Revalued
<1>17. Freed(e, g, top)
    <2>1. Heap(e)
        BY <1>16
    <2>2. QED
        BY <1>15, <2>1, FreeIs
<1>18. Heap(g) /\ DOMAIN g = {new} /\ g[new] = f[new]
    BY <1>2, <1>16, <1>17 DEF Freed
<1>19. Count(g, new) = Count(h, top)
    BY <1>11, <1>18 DEF Count
<1> DEFINE lw == [m \in {new} |-> 0]
<1>20. lw[new] = 0
    OBVIOUS
<1> HIDE DEF lw
<1>21. /\ g[new].leaf /\ g[new].max_count = max /\ g[new].parent = new
    BY <1>3, <1>11, <1>18
<1>22. Len(g[new].children) = 0
    BY <1>7, <1>11, <1>18
<1>23. Count(g, new) <= g[new].max_count
    BY <1>19, <1>21
<1>24. Tree(g, new, lw, {new})
    BY <1>18, <1>20, <1>21, <1>22, <1>23, LoneTree
<1>25. QED
    BY <1>11, <1>18, <1>19, <1>21, <1>24 DEF Lone, SameValues

(***************************************************************************)
(* A root above the root                                                   *)
(***************************************************************************)

\* A new internal node below parent.
InternalNode(parent) == NewNode(FALSE, parent, NodeValues)

\* A new internal node.
LEMMA InternalIs ==
    ASSUME NEW h, Heap(h), NEW parent \in Nat, NEW new, new = Fresh(h),
           NEW g, g = Allocate(h, new, InternalNode(parent))
    PROVE  \E node \in Node :
              /\ Grown(h, g, new, node)
              /\ ~node.leaf /\ node.parent = parent
                    /\ node.max_count = NodeValues
              /\ node.values = <<>> /\ node.children = <<>>
<1>1. new \in Nat /\ new # NoNode /\ new \notin DOMAIN h
    BY FreshIsNew
<1>2. PICK leaf \in BOOLEAN : leaf = FALSE
    OBVIOUS
<1>3. NodeValues \in 1..NodeValues
    BY NodeValuesAssumption
<1>4. PICK node \in Node :
         /\ node = NewNode(leaf, parent, NodeValues)
         /\ node.leaf = leaf /\ node.parent = parent
         /\ node.max_count = NodeValues
         /\ node.values = <<>> /\ node.children = <<>>
    BY <1>3, NewNodeIs
<1>5. g = Allocate(h, new, node)
    BY <1>2, <1>4 DEF InternalNode
<1>6. Grown(h, g, new, node)
    BY <1>1, <1>5, AllocateIs
<1>7. QED
    BY <1>2, <1>4, <1>6

\* A sequence of one child.
LEMMA OneChild ==
    ASSUME NEW n \in Nat
    PROVE  /\ <<n>> \in Seq(Nat) /\ Distinct(<<n>>) /\ Len(<<n>>) = 1
           /\ <<n>>[1] = n
           /\ \A i \in 1..Len(<<n>>) : <<n>>[i] = n /\ i = 1
BY DEF Distinct

\* g is h with a root above the leaf that was the root.
Raised(h, g, top, new) ==
    /\ DOMAIN g = {top, new} /\ new # top
    /\ ~g[new].leaf /\ g[top].leaf
    /\ g[top].parent = new
    /\ g[top].max_count = h[top].max_count
    /\ g[new].max_count = NodeValues
    /\ Count(g, new) = 0 /\ Count(g, top) = Count(h, top)
    /\ g[top].values = h[top].values /\ Child(g, new, 0) = top

\* Filling the new root with the leaf makes a tree.
LEMMA RaisedTree ==
    ASSUME NEW h, NEW top, NEW lv, NEW S, Tree(h, top, lv, S), h[top].leaf,
           h[top].max_count = NodeValues, NEW new, new \notin DOMAIN h,
           NEW lw, lw[top] = 0, lw[new] = 1,
           NEW grown, NEW node, Grown(h, grown, new, node),
           ~node.leaf, node.parent = top, node.max_count = NodeValues,
           Len(node.values) = 0,
           NEW none, Len(none) = 0, NEW kids, Len(kids) = 1, kids[1] = top,
           NEW g, Filled(grown, g, new, none, kids)
    PROVE  Tree(g, new, lw, {top, new}) /\ Raised(h, g, top, new)
<1>1. DOMAIN h = {top} /\ h[top].parent = top /\ Heap(h) /\ new # top
    BY LoneLeaf DEF Tree
<1>2. /\ Heap(grown) /\ DOMAIN grown = {top, new}
      /\ grown[new] = node /\ grown[top] = h[top]
    BY <1>1 DEF Grown
<1>3. 1 \in 1..Len(kids) /\ \A i \in 1..Len(kids) : kids[i] = top /\ i = 1
    OBVIOUS
<1>4. PICK T : T = {top, new}
    OBVIOUS
<1>5. PICK X : X = {new}
    OBVIOUS
<1>6. PICK Y : Y = {top}
    OBVIOUS
<1>7. PICK E : E = {}
    OBVIOUS
<1>8. Loose(h, new, lw, T, E, Y)
    <2>1. Children(h, new, lw, top)
        <3>1. Children(h, top, lv, top)
            BY <1>1 DEF Tree
        <3>2. Len(h[top].children) = 0
            BY <3>1 DEF Children
        <3>3. QED
            BY <3>2 DEF Children
    <2>2. Sized(h, new, lw, top)
        <3>1. Sized(h, top, lv, top)
            BY <1>1 DEF Tree
        <3>2. lw[top] \in Nat /\ lw[top] < lw[new]
            OBVIOUS
        <3>3. QED
            BY <3>1, <3>2 DEF Sized
    <2>3. QED
        BY <1>1, <1>6, <2>1, <2>2 DEF Loose
<1>9. Loose(grown, new, lw, T, X, T)
    <2>1. Loose(grown, new, lw, T, E \cup {new}, Y \cup {new})
        BY <1>8, GrownLoose
    <2>2. E \cup {new} = X /\ Y \cup {new} = T
        BY <1>4, <1>5, <1>6, <1>7
    <2>3. QED
        BY <2>1, <2>2
<1>10. Kids(grown, new, lw, T, new, kids)
    <2>1. lw[top] + 1 = lw[new]
        OBVIOUS
    <2>2. top \in DOMAIN grown /\ top # new /\ new \in T
        BY <1>1, <1>2, <1>4
    <2>3. QED
        BY <1>3, <2>1, <2>2 DEF Kids
<1>11. grown[new].max_count = NodeValues /\ ~grown[new].leaf
    BY <1>2
<1>12. Len(none) <= grown[new].max_count
    BY <1>11, NodeValuesAssumption
<1>13. Sized(grown, new, lw, new)
    <2>1. Count(grown, new) = 0
        BY <1>2 DEF Count
    <2>2. lw[new] \in Nat /\ lw[new] # 0
        OBVIOUS
    <2>3. 0 <= NodeValues
        BY NodeValuesAssumption
    <2>4. Count(grown, new) <= grown[new].max_count
        BY <1>11, <2>1, <2>3
    <2>5. QED
        BY <1>11, <2>2, <2>4 DEF Sized
<1>14. Loose(g, new, lw, T, E, E)
    <2>1. Len(kids) = IF grown[new].leaf THEN 0 ELSE Len(none) + 1
        BY <1>11
    <2>2. ASSUME NEW m \in DOMAIN grown, m \in X, m \in T
          PROVE  (m \in E /\ m \in E) \/ Sized(grown, new, lw, m)
        BY <1>5, <1>13, <2>2
    <2>3. ASSUME NEW m \in DOMAIN grown
          PROVE  m \in E \/ m = new
                    \/ (m \notin X /\ (grown[m].leaf
                          \/ \A i \in 1..Len(kids) :
                                grown[kids[i]].parent # m))
        BY <1>2, <1>5
    <2>4. ASSUME NEW x \in DOMAIN grown
          PROVE  x \in E \/ (\E i \in 1..Len(kids) : kids[i] = x)
                    \/ x = new \/ (x \notin T /\ grown[x].parent # new)
        BY <1>2, <1>3
    <2>5. new \in DOMAIN grown
        BY <1>2
    <2>6. QED
        BY <1>9, <1>10, <1>12, <2>1, <2>2, <2>3, <2>4, <2>5, FillLoose
<1>15. /\ DOMAIN g = DOMAIN grown
       /\ g[top].leaf = grown[top].leaf /\ g[new].leaf = grown[new].leaf
       /\ g[top].max_count = grown[top].max_count
       /\ g[new].max_count = grown[new].max_count
    <2>1. top \in DOMAIN grown /\ new \in DOMAIN grown
        BY <1>2
    <2>2. QED
        BY <2>1 DEF Filled
<1>16. g[top].values = grown[top].values
    <2>1. top \in DOMAIN grown \ {new}
        BY <1>1, <1>2
    <2>2. QED
        BY <2>1 DEF Filled
<1>17. g[new].parent = grown[new].parent
    <2>1. new \in DOMAIN grown /\ \A i \in 1..Len(kids) : kids[i] # new
        BY <1>1, <1>2, <1>3
    <2>2. QED
        BY <2>1 DEF Filled
<1>18. g[top].parent = new
    <2>1. PICK i \in 1..Len(kids) : kids[i] = top /\ kids[i] \in DOMAIN grown
        BY <1>2, <1>3
    <2>2. g[kids[i]].parent = new
        BY <2>1 DEF Filled
    <2>3. QED
        BY <2>1, <2>2
<1>19. /\ g[top].leaf /\ ~g[new].leaf
       /\ g[new].parent = top /\ DOMAIN g = {top, new}
       /\ g[top].max_count = h[top].max_count /\ g[new].max_count = NodeValues
    BY <1>2, <1>15, <1>17
<1>20. Tree(g, new, lw, T)
    <2>1. /\ new \in DOMAIN g /\ g[new].parent \in DOMAIN g
                /\ g[new].parent \in T
          /\ g[g[new].parent].leaf /\ T \subseteq DOMAIN g /\ new \in T
        BY <1>4, <1>19
    <2>2. Loose(g, new, lw, T, {}, {})
        BY <1>7, <1>14
    <2>3. QED
        BY <2>1, <2>2, LooseIsTree
<1>21. Count(g, new) = 0 /\ Count(g, top) = Count(h, top)
    <2>1. Count(g, new) = Len(none)
        BY FilledCounts
    <2>2. g[top].values = h[top].values
        BY <1>2, <1>16
    <2>3. QED
        BY <2>1, <2>2 DEF Count
<1>22. Raised(h, g, top, new)
    <2>1. g[top].values = h[top].values
        BY <1>2, <1>16
    <2>2. Child(g, new, 0) = top
        <3>1. g[new].children = kids
            BY <1>2 DEF Filled
        <3>2. QED
            BY <1>3, <3>1 DEF Child
    <2>3. QED
        BY <1>1, <1>18, <1>19, <1>21, <2>1, <2>2 DEF Raised
<1>23. QED
    BY <1>4, <1>20, <1>22

\* What NewRootAboveLeaf makes of the heap.
GrownAbove(h, top, new) ==
    Allocate(h, new, NewNode(FALSE, h[top].parent, NodeValues))

\* The root that NewRootAboveLeaf makes.
RootAbove(h, top, new) == Fill(GrownAbove(h, top, new), new, <<>>, <<top>>)

\* NewRootAboveLeaf leaves a tree.
LEMMA NewAboveIs ==
    ASSUME NEW h, NEW top, NEW lv, NEW S, Tree(h, top, lv, S), h[top].leaf,
           h[top].max_count = NodeValues, NEW new, new = Fresh(h),
           NEW lw, lw[top] = 0, lw[new] = 1,
           NEW g, g = RootAbove(h, top, new)
    PROVE  Tree(g, new, lw, {top, new}) /\ Raised(h, g, top, new)
<1>1. DOMAIN h = {top} /\ h[top].parent = top /\ Heap(h)
    BY LoneLeaf DEF Tree
<1>2. new \notin DOMAIN h /\ top \in Nat
    BY <1>1, FreshIsNew, NodeIs
<1>3. PICK grown : grown = GrownAbove(h, top, new)
    OBVIOUS
<1>4. PICK node \in Node :
         /\ Grown(h, grown, new, node)
         /\ ~node.leaf /\ node.parent = top /\ node.max_count = NodeValues
         /\ node.values = <<>> /\ node.children = <<>>
    <2>1. grown = Allocate(h, new, InternalNode(top))
        BY <1>1, <1>3 DEF GrownAbove, InternalNode
    <2>2. Heap(h) /\ top \in Nat
        BY <1>1, <1>2
    <2>3. \E node \in Node :
             /\ Grown(h, grown, new, node)
             /\ ~node.leaf /\ node.parent = top /\ node.max_count = NodeValues
             /\ node.values = <<>> /\ node.children = <<>>
        BY <2>1, <2>2, InternalIs
    <2>4. QED
        BY <2>3
<1>5. Len(node.values) = 0
    BY <1>4
<1>6. Heap(grown) /\ new \in DOMAIN grown
    BY <1>4 DEF Grown
<1>7. PICK none \in Seq(Values) : none = <<>>
    <2>1. <<>> \in Seq(Values)
        OBVIOUS
    <2>2. QED
        BY <2>1
<1>8. PICK kids \in Seq(Nat) : kids = <<top>> /\ Len(kids) = 1 /\ kids[1] = top
                               /\ Distinct(kids)
    BY <1>2, OneChild
<1>9. g = Fill(grown, new, none, kids)
    BY <1>3, <1>7, <1>8 DEF RootAbove
<1>10. Filled(grown, g, new, none, kids)
    BY <1>6, <1>8, <1>9, FillIs
<1>11. Len(none) = 0
    BY <1>7
<1>12. Grown(h, grown, new, node) /\ ~node.leaf /\ node.parent = top
       /\ node.max_count = NodeValues
    BY <1>4
<1>13. Len(kids) = 1 /\ kids[1] = top
    BY <1>8
<1>14. QED
    BY ZenonT(30), <1>2, <1>5, <1>10, <1>11, <1>12, <1>13, RaisedTree

\* The root of a tree moved up one level is loose.
LEMMA TopMovesUp ==
    ASSUME NEW h, NEW top, NEW lv, NEW S, Tree(h, top, lv, S), ~h[top].leaf,
           NEW new, new \notin DOMAIN h,
           NEW lw, lw[top] = lv[top] + 1, \A m \in DOMAIN h \ {top} :
               lw[m] = lv[m],
           NEW T, T = S \cup {new}, NEW X, X = {top}, NEW Y, Y = {}
    PROVE  Loose(h, top, lw, T, X, Y)
<1>1. Heap(h) /\ top \in DOMAIN h
    BY DEF Tree
<1>2. lv[top] \in Nat /\ lv[top] # 0
    BY <1>1 DEF Tree, Sized
<1>3. ASSUME NEW m \in DOMAIN h, m \notin X PROVE Children(h, top, lw, m)
    <2>1. Children(h, top, lv, m)
        BY DEF Tree
    <2>2. ASSUME NEW i \in 1..Len(h[m].children)
          PROVE  lw[h[m].children[i]] + 1 = lw[m]
        <3>1. PICK x \in DOMAIN h : /\ x = h[m].children[i]
                                          /\ lv[x] + 1 = lv[m]
                                    /\ x # top
            BY <2>1 DEF Children
        <3>2. lw[x] = lv[x] /\ lw[m] = lv[m]
            BY <1>3, <3>1
        <3>3. QED
            BY <3>1, <3>2
    <2>3. QED
        BY <2>1, <2>2 DEF Children
<1>4. ASSUME NEW m \in DOMAIN h PROVE Placed(h, top, T, m)
    <2>1. Placed(h, top, S, m)
        BY DEF Tree
    <2>2. m \in T => m \in S
        OBVIOUS
    <2>3. QED
        BY <2>1, <2>2 DEF Placed
<1>5. ASSUME NEW m \in DOMAIN h PROVE Sized(h, top, lw, m)
    <2>1. Sized(h, top, lv, m)
        BY DEF Tree
    <2>2. CASE m = top
        <3>1. lw[m] \in Nat /\ lw[m] # 0
            BY <1>2, <2>2
        <3>2. ~h[m].leaf
            BY <2>2
        <3>3. QED
            BY <2>1, <2>2, <3>1, <3>2 DEF Sized
    <2>3. CASE m # top
        <3>1. lv[m] \in Nat /\ lv[m] < lv[top] /\ lw[m] = lv[m]
            BY <2>1, <2>3 DEF Sized
        <3>2. lw[m] < lw[top]
            BY <1>2, <3>1
        <3>3. QED
            BY <2>1, <2>3, <3>1, <3>2 DEF Sized
    <2>4. QED
        BY <2>2, <2>3
<1>6. QED
    BY <1>1, <1>3, <1>4, <1>5 DEF Loose

\* Its contents go to the node new.
LEMMA ContentsGoBelow ==
    ASSUME NEW h, NEW top, NEW lv, NEW S, Tree(h, top, lv, S), ~h[top].leaf,
           NEW new, new \notin DOMAIN h,
           NEW lw, lw[top] = lv[top] + 1, lw[new] = lv[top],
           \A m \in DOMAIN h \ {top} : lw[m] = lv[m],
           NEW grown, NEW node, Grown(h, grown, new, node),
           ~node.leaf, node.max_count = NodeValues, Len(node.values) = 0,
           NEW values, Len(values) = Count(h, top),
           NEW kids, kids = h[top].children,
           NEW f, Filled(grown, f, new, values, kids),
           NEW T, T = S \cup {new}
    PROVE  Loose(f, top, lw, T, {top}, {new})
<1>1. PICK X : X = {top}
    OBVIOUS
<1>2. PICK E : E = {}
    OBVIOUS
<1>3. PICK N : N = {new}
    OBVIOUS
<1>4. PICK XN : XN = {top, new}
    OBVIOUS
<1>5. Loose(h, top, lw, T, X, E)
    BY <1>1, <1>2, TopMovesUp
<1>6. Loose(grown, top, lw, T, XN, N)
    <2>1. Loose(grown, top, lw, T, X \cup {new}, E \cup {new})
        BY <1>5, GrownLoose
    <2>2. X \cup {new} = XN /\ E \cup {new} = N
        BY <1>1, <1>2, <1>3, <1>4
    <2>3. QED
        BY <2>1, <2>2
<1>7. /\ top \in DOMAIN h /\ top # new
      /\ lv[top] \in Nat /\ lv[top] # 0 /\ Count(h, top) <= NodeValues
    <2>1. top \in DOMAIN h /\ top # new
        BY DEF Tree
    <2>2. Sized(h, top, lv, top)
        BY <2>1 DEF Tree
    <2>3. QED
        BY <2>1, <2>2 DEF Sized
<1>8. /\ DOMAIN grown = DOMAIN h \cup {new} /\ grown[new] = node
      /\ \A m \in DOMAIN h : grown[m] = h[m]
    BY DEF Grown
<1>9. grown[new].max_count = NodeValues /\ ~grown[new].leaf
    BY <1>8
<1>10. /\ Len(kids) = Len(values) + 1
       /\ \A i \in 1..Len(kids) :
             /\ kids[i] \in DOMAIN h /\ kids[i] # top
             /\ h[kids[i]].parent = top
             /\ h[kids[i]].position = i - 1
             /\ lv[kids[i]] + 1 = lv[top]
    <2>1. Children(h, top, lv, top)
        BY <1>7 DEF Tree
    <2>2. QED
        BY <2>1 DEF Children
<1>11. Kids(grown, top, lw, T, new, kids)
    <2>1. ASSUME NEW i \in 1..Len(kids)
          PROVE  /\ kids[i] \in DOMAIN grown /\ kids[i] # top
                 /\ lw[kids[i]] + 1 = lw[new]
                 /\ kids[i] \in T => i = 1 /\ new \in T
        <3>1. PICK x \in DOMAIN h : /\ x = kids[i] /\ x # top
                                    /\ h[x].position = i - 1
                                    /\ lv[x] + 1 = lv[top]
            BY <1>10
        <3>2. lw[x] = lv[x]
            BY <3>1
        <3>3. x \in S => h[x].position = 0
            <4>1. Placed(h, top, S, x)
                BY DEF Tree
            <4>2. QED
                BY <3>1, <4>1 DEF Placed
        <3>4. x \in T => i = 1
            BY <3>1, <3>3
        <3>5. QED
            BY <1>8, <3>1, <3>2, <3>4
    <2>2. QED
        BY <2>1 DEF Kids
<1>12. Sized(grown, top, lw, new)
    <2>1. Count(grown, new) = 0
        BY <1>8 DEF Count
    <2>2. lw[new] \in Nat /\ lw[new] # 0 /\ lw[new] < lw[top]
        BY <1>7
    <2>3. 0 <= NodeValues
        BY NodeValuesAssumption
    <2>4. Count(grown, new) <= grown[new].max_count
        BY <1>9, <2>1, <2>3
    <2>5. QED
        BY <1>9, <2>2, <2>4 DEF Sized
<1>13. Loose(f, top, lw, T, X, N)
    <2>1. Len(kids) = IF grown[new].leaf THEN 0 ELSE Len(values) + 1
        BY <1>9, <1>10
    <2>2. Len(values) <= grown[new].max_count
        BY <1>7, <1>9
    <2>3. ASSUME NEW m \in DOMAIN grown, m \in XN, m \in N
          PROVE  (m \in X /\ m \in N) \/ Sized(grown, top, lw, m)
        BY <1>3, <1>12, <2>3
    <2>4. ASSUME NEW m \in DOMAIN grown
          PROVE  m \in X \/ m = new
                    \/ (m \notin XN /\ (grown[m].leaf
                          \/ \A i \in 1..Len(kids) :
                                grown[kids[i]].parent # m))
        <3>1. ASSUME NEW i \in 1..Len(kids) PROVE grown[kids[i]].parent = top
            <4>1. PICK x \in DOMAIN h : x = kids[i] /\ h[x].parent = top
                BY <1>10
            <4>2. QED
                BY <1>8, <4>1
        <3>2. QED
            BY <1>1, <1>4, <3>1
    <2>5. ASSUME NEW x \in DOMAIN grown
          PROVE  x \in N \/ (\E i \in 1..Len(kids) : kids[i] = x)
                    \/ x = top \/ (x \notin N /\ grown[x].parent # new)
        <3>1. CASE x \in DOMAIN h /\ x # top
            <4>1. Placed(h, top, S, x)
                BY <3>1 DEF Tree
            <4>2. grown[x].parent \in DOMAIN h
                BY <1>8, <3>1, <4>1 DEF Placed
            <4>3. QED
                BY <4>2
        <3>2. QED
            BY <1>3, <1>8, <3>1
    <2>6. new \in DOMAIN grown
        BY <1>8
    <2>7. QED
        BY <1>6, <1>11, <2>1, <2>2, <2>3, <2>4, <2>5, <2>6, FillLoose
<1>14. QED
    BY <1>1, <1>3, <1>13

\* g is h after the contents of its internal root went to a new node below it.
Lowered(h, g, top, new) ==
    /\ DOMAIN g = DOMAIN h \cup {new}
    /\ \A m \in DOMAIN h : g[m].leaf = h[m].leaf
          /\ g[m].max_count = h[m].max_count
    /\ ~g[new].leaf /\ g[new].max_count = NodeValues /\ g[new].parent = top
    /\ Count(g, top) = 0 /\ Count(g, new) = Count(h, top)
    /\ g[new].children = h[top].children
    /\ \A m \in DOMAIN h \ {top} :
          Count(g, m) = Count(h, m) /\ g[m].children = h[m].children
    /\ g[new].values = h[top].values /\ Child(g, top, 0) = new
    /\ \A m \in DOMAIN h \ {top} : g[m].values = h[m].values

\* f is h after its new node got the contents of the root.
Moved(h, f, top, new) ==
    /\ DOMAIN f = DOMAIN h \cup {new}
    /\ \A m \in DOMAIN h : /\ f[m].leaf = h[m].leaf
                           /\ f[m].max_count = h[m].max_count
                           /\ f[m].values = h[m].values
                           /\ f[m].children = h[m].children
    /\ ~f[new].leaf /\ f[new].max_count = NodeValues
    /\ f[new].values = h[top].values /\ f[new].children = h[top].children
    /\ f[top].parent = h[top].parent /\ f[new].parent = h[top].parent
    /\ \A x \in DOMAIN h \ {top} : f[x].parent # top

\* Filling the new node with the contents of the root moves them.
LEMMA ContentsAreMoved ==
    ASSUME NEW h, NEW top, NEW lv, NEW S, Tree(h, top, lv, S), ~h[top].leaf,
           NEW new, new \notin DOMAIN h,
           NEW grown, NEW node, Grown(h, grown, new, node),
           ~node.leaf, node.max_count = NodeValues,
               node.parent = h[top].parent,
           NEW values, values = h[top].values,
           NEW kids, kids = h[top].children,
           NEW f, Filled(grown, f, new, values, kids)
    PROVE  Moved(h, f, top, new)
<1>1. /\ Heap(h) /\ top \in DOMAIN h /\ top # new
      /\ lv[top] \in Nat /\ lv[top] # 0
      /\ S \subseteq DOMAIN h /\ top \in S
      /\ h[top].parent \in DOMAIN h /\ h[top].parent \in S
      /\ h[h[top].parent].leaf /\ h[top].parent # top
      /\ h[top].max_count = NodeValues
    <2>1. top \in DOMAIN h
        BY DEF Tree
    <2>2. Sized(h, top, lv, top)
        BY <2>1 DEF Tree
    <2>3. QED
        BY <2>1, <2>2 DEF Tree, Sized
<1>2. /\ DOMAIN grown = DOMAIN h \cup {new} /\ grown[new] = node
      /\ \A m \in DOMAIN h : grown[m] = h[m]
    BY DEF Grown
<1>3. \A i \in 1..Len(kids) : /\ kids[i] \in DOMAIN h /\ kids[i] # top
                              /\ h[kids[i]].parent = top
    <2>1. Children(h, top, lv, top)
        BY <1>1 DEF Tree
    <2>2. QED
        BY <2>1 DEF Children
<1>4. /\ DOMAIN f = DOMAIN h \cup {new}
      /\ \A m \in DOMAIN h : /\ f[m].leaf = h[m].leaf
                             /\ f[m].max_count = h[m].max_count
                             /\ f[m].values = h[m].values
                             /\ f[m].children = h[m].children
      /\ ~f[new].leaf /\ f[new].max_count = NodeValues
      /\ f[new].values = values /\ f[new].children = kids
    <2>1. ASSUME NEW m \in DOMAIN h
          PROVE  m \in DOMAIN grown \ {new} /\ m \in DOMAIN grown
        BY <1>2
    <2>2. new \in DOMAIN grown
        BY <1>2
    <2>3. DOMAIN f = DOMAIN grown
        BY DEF Filled
    <2>4. ASSUME NEW m \in DOMAIN h
          PROVE  /\ f[m].leaf = h[m].leaf /\ f[m].max_count = h[m].max_count
                 /\ f[m].values = h[m].values /\ f[m].children = h[m].children
        BY <1>2, <2>1 DEF Filled
    <2>5. f[new].leaf = grown[new].leaf
              /\ f[new].max_count = grown[new].max_count
        BY <2>2 DEF Filled
    <2>6. f[new].values = values /\ f[new].children = kids
        BY DEF Filled
    <2>7. QED
        BY <1>2, <2>3, <2>4, <2>5, <2>6
<1>5. /\ f[top].parent = h[top].parent /\ f[new].parent = h[top].parent
    <2>1. ASSUME NEW m \in DOMAIN grown, m \in {top, new}
          PROVE  f[m].parent = grown[m].parent
        <3>1. \A i \in 1..Len(kids) : kids[i] # m
            BY <1>3, <2>1
        <3>2. QED
            BY <3>1 DEF Filled
    <2>2. top \in DOMAIN grown /\ new \in DOMAIN grown
        BY <1>1, <1>2
    <2>3. f[top].parent = grown[top].parent
              /\ f[new].parent = grown[new].parent
        BY <2>1, <2>2
    <2>4. QED
        BY <1>1, <1>2, <2>3
<1>6. ASSUME NEW x \in DOMAIN h, x # top
      PROVE  f[x].parent # top
    <2>1. CASE \E i \in 1..Len(kids) : kids[i] = x
        <3>1. PICK i \in 1..Len(kids) : kids[i] = x /\ kids[i] \in DOMAIN grown
            BY <1>2, <2>1
        <3>2. f[kids[i]].parent = new
            BY <3>1 DEF Filled
        <3>3. QED
            BY <1>1, <3>1, <3>2
    <2>2. CASE \A i \in 1..Len(kids) : kids[i] # x
        <3>1. Placed(h, top, S, x)
            BY DEF Tree
        <3>2. h[x].parent # top
            BY <1>6, <2>2, <3>1 DEF Placed
        <3>3. f[x].parent = grown[x].parent
            BY <1>2, <2>2 DEF Filled
        <3>4. QED
            BY <1>2, <3>2, <3>3
    <2>3. QED
        BY <2>1, <2>2
<1>7. QED
    BY <1>4, <1>5, <1>6 DEF Moved

\* The nodes the tree hangs on.
LEMMA RootOfTree ==
    ASSUME NEW h, NEW top, NEW lv, NEW S, Tree(h, top, lv, S), ~h[top].leaf
    PROVE  /\ top \in DOMAIN h /\ lv[top] \in Nat /\ lv[top] # 0
           /\ S \subseteq DOMAIN h /\ top \in S
           /\ h[top].parent \in DOMAIN h /\ h[top].parent \in S
           /\ h[h[top].parent].leaf /\ h[top].parent # top
           /\ h[top].max_count = NodeValues
<1>1. top \in DOMAIN h
    BY DEF Tree
<1>2. Sized(h, top, lv, top)
    BY <1>1 DEF Tree
<1>3. QED
    BY <1>1, <1>2 DEF Tree, Sized

\* Nothing in it.
Void(s) == Len(s) = 0

\* The root gets the new node as its only child.
LEMMA RootGetsChild ==
    ASSUME NEW e, NEW top, NEW lw, NEW T, NEW new,
           NEW X, X = {top}, NEW N, N = {new}, Loose(e, top, lw, T, X, N),
           new \in DOMAIN e, top \in DOMAIN e, new # top, top \in T,
           lw[new] \in Nat, lw[top] = lw[new] + 1,
           ~e[top].leaf, e[e[new].parent].leaf,
           \A x \in DOMAIN e \ {top, new} : e[x].parent # top,
           NEW none, Void(none), NEW one, Len(one) = 1, one[1] = new,
           NEW g, Filled(e, g, top, none, one)
    PROVE  Loose(g, top, lw, T, {}, {})
<1>1. PICK E : E = {}
    OBVIOUS
<1>2. 1 \in 1..Len(one) /\ \A i \in 1..Len(one) : one[i] = new /\ i = 1
    OBVIOUS
<1>3. Kids(e, top, lw, T, top, one)
    <2>1. lw[new] + 1 = lw[top]
        OBVIOUS
    <2>2. QED
        BY <1>2, <2>1 DEF Kids
<1>4. Len(one) = IF e[top].leaf THEN 0 ELSE Len(none) + 1
    BY DEF Void
<1>5. Len(none) <= e[top].max_count
    <2>1. e[top].max_count \in Nat
        BY NodeIs DEF Loose
    <2>2. QED
        BY <2>1 DEF Void
<1>6. ASSUME NEW m \in DOMAIN e, m \in X, m \in N
      PROVE  (m \in E /\ m \in E) \/ Sized(e, top, lw, m)
    BY <1>6
<1>7. ASSUME NEW m \in DOMAIN e
      PROVE  m \in E \/ m = top
                \/ (m \notin X /\ (e[m].leaf
                      \/ \A i \in 1..Len(one) : e[one[i]].parent # m))
    BY <1>2
<1>8. ASSUME NEW x \in DOMAIN e
      PROVE  x \in E \/ (\E i \in 1..Len(one) : one[i] = x)
                \/ x = top \/ (x \notin N /\ e[x].parent # top)
    BY <1>2
<1>9. Loose(g, top, lw, T, E, E)
    BY <1>3, <1>4, <1>5, <1>6, <1>7, <1>8, FillLoose
<1>10. QED
    BY <1>1, <1>9

\* With the new node as its only child the root is a tree again.
LEMMA LoweredTree ==
    ASSUME NEW h, NEW top, NEW lv, NEW S, Tree(h, top, lv, S), ~h[top].leaf,
           NEW new, new \notin DOMAIN h,
           NEW lw, lw[top] = lv[top] + 1, lw[new] = lv[top],
           NEW f, Moved(h, f, top, new), NEW T, T = S \cup {new},
           Loose(f, top, lw, T, {top}, {new}),
           NEW none, Len(none) = 0, NEW e, Revalued(f, e, top, none),
           NEW one, Len(one) = 1, one[1] = new,
           NEW g, Filled(e, g, top, none, one)
    PROVE  Tree(g, top, lw, T) /\ Lowered(h, g, top, new)
<1>1. /\ top \in DOMAIN h /\ lv[top] \in Nat /\ top # new
      /\ S \subseteq DOMAIN h /\ top \in S
      /\ h[top].parent \in DOMAIN h /\ h[top].parent \in S
      /\ h[h[top].parent].leaf /\ h[top].parent # top
      /\ h[top].max_count = NodeValues
    BY RootOfTree
<1>2. /\ Heap(e) /\ DOMAIN e = DOMAIN f
      /\ \A m \in DOMAIN f : /\ e[m].leaf = f[m].leaf
                             /\ e[m].max_count = f[m].max_count
                             /\ e[m].parent = f[m].parent
                             /\ e[m].children = f[m].children
      /\ \A m \in DOMAIN f \ {top} : e[m].values = f[m].values
    BY DEF Revalued
<1>3. Loose(e, top, lw, T, {top}, {new})
    <2>1. Len(none) <= f[top].max_count
        BY <1>1, NodeValuesAssumption DEF Moved
    <2>2. top \in {top} /\ top \in DOMAIN f
        BY <1>1 DEF Moved
    <2>3. QED
        BY <2>1, <2>2, RevaluedLoose
<1>4. Loose(g, top, lw, T, {}, {})
    <2>1. new \in DOMAIN e /\ top \in DOMAIN e /\ new # top /\ top \in T
        BY <1>1, <1>2 DEF Moved
    <2>2. lw[new] \in Nat /\ lw[top] = lw[new] + 1
        BY <1>1
    <2>3. ~e[top].leaf
        BY <1>1, <1>2 DEF Moved
    <2>4. e[e[new].parent].leaf
        <3>1. e[new].parent = h[top].parent
            BY <1>2 DEF Moved
        <3>2. f[h[top].parent].leaf /\ h[top].parent \in DOMAIN f
            BY <1>1 DEF Moved
        <3>3. QED
            BY <1>2, <3>1, <3>2
    <2>5. ASSUME NEW x \in DOMAIN e \ {top, new} PROVE e[x].parent # top
        BY <1>2 DEF Moved
    <2>6. Void(none)
        BY DEF Void
    <2>7. QED
        BY <1>3, <2>1, <2>2, <2>3, <2>4, <2>5, <2>6, RootGetsChild
<1>5. /\ DOMAIN g = DOMAIN e
      /\ \A m \in DOMAIN e : g[m].leaf = e[m].leaf
            /\ g[m].max_count = e[m].max_count
      /\ \A m \in DOMAIN e \ {top} :
            g[m].values = e[m].values /\ g[m].children = e[m].children
      /\ g[top].values = none
    BY DEF Filled
<1>6. 1 \in 1..Len(one) /\ \A i \in 1..Len(one) : one[i] = new
    OBVIOUS
<1>7. new \in DOMAIN e /\ top \in DOMAIN e
    BY <1>1, <1>2 DEF Moved
<1>8. g[top].parent = h[top].parent
    <2>1. \A i \in 1..Len(one) : one[i] # top
        BY <1>1, <1>6
    <2>2. g[top].parent = e[top].parent
        BY <1>7, <2>1 DEF Filled
    <2>3. e[top].parent = f[top].parent
        BY <1>2, <1>7
    <2>4. QED
        BY <2>2, <2>3 DEF Moved
<1>9. g[new].parent = top
    <2>1. PICK i \in 1..Len(one) : one[i] = new /\ one[i] \in DOMAIN e
        BY <1>6, <1>7
    <2>2. g[one[i]].parent = top
        BY <2>1 DEF Filled
    <2>3. QED
        BY <2>1, <2>2
<1>10. /\ DOMAIN g = DOMAIN h \cup {new}
       /\ \A m \in DOMAIN h : g[m].leaf = h[m].leaf
             /\ g[m].max_count = h[m].max_count
       /\ ~g[new].leaf /\ g[new].max_count = NodeValues
       /\ g[new].values = h[top].values /\ g[new].children = h[top].children
       /\ \A m \in DOMAIN h \ {top} :
             g[m].values = h[m].values /\ g[m].children = h[m].children
    BY <1>1, <1>2, <1>5 DEF Moved
<1>11. Tree(g, top, lw, T)
    <2>1. /\ top \in DOMAIN g /\ g[top].parent \in DOMAIN g
                /\ g[top].parent \in T
          /\ g[g[top].parent].leaf /\ T \subseteq DOMAIN g /\ top \in T
        BY <1>1, <1>8, <1>10
    <2>2. QED
        BY <1>4, <2>1, LooseIsTree
<1>12. Lowered(h, g, top, new)
    <2>1. Count(g, top) = 0
        BY <1>5 DEF Count
    <2>2. Count(g, new) = Count(h, top)
        BY <1>10 DEF Count
    <2>3. \A m \in DOMAIN h \ {top} : Count(g, m) = Count(h, m)
        BY <1>10 DEF Count
    <2>4. Child(g, top, 0) = new
        <3>1. g[top].children = one
            BY <1>7 DEF Filled
        <3>2. QED
            BY <1>6, <3>1 DEF Child
    <2>5. QED
        BY <1>9, <1>10, <2>1, <2>2, <2>3, <2>4 DEF Lowered
<1>13. QED
    BY <1>11, <1>12

\* What NewNodeBelowRoot makes of the heap.
RootBelow(h, top, new) ==
    Fill(MoveContents(GrownAbove(h, top, new), top, new), top, <<>>, <<new>>)

\* NewNodeBelowRoot leaves a tree, one level higher.
LEMMA NewBelowIs ==
    ASSUME NEW h, NEW top, NEW lv, NEW S, Tree(h, top, lv, S), ~h[top].leaf,
           NEW new, new = Fresh(h),
           NEW lw, lw[top] = lv[top] + 1, lw[new] = lv[top],
           \A m \in DOMAIN h \ {top} : lw[m] = lv[m],
           NEW g, g = RootBelow(h, top, new)
    PROVE  Tree(g, top, lw, S \cup {new}) /\ Lowered(h, g, top, new)
<1>1. Heap(h) /\ top \in DOMAIN h /\ h[top].parent \in Nat
    BY NodeIs DEF Tree
<1>2. new \notin DOMAIN h /\ new \in Nat
    BY <1>1, FreshIsNew
<1>3. PICK grown : grown = GrownAbove(h, top, new)
    OBVIOUS
<1>4. PICK node \in Node :
         /\ Grown(h, grown, new, node)
         /\ ~node.leaf /\ node.parent = h[top].parent
               /\ node.max_count = NodeValues
         /\ node.values = <<>> /\ node.children = <<>>
    <2>1. PICK parent \in Nat : parent = h[top].parent
        BY <1>1
    <2>2. grown = Allocate(h, new, InternalNode(parent))
        BY <1>3, <2>1 DEF GrownAbove, InternalNode
    <2>3. \E node \in Node :
             /\ Grown(h, grown, new, node)
             /\ ~node.leaf /\ node.parent = parent
                   /\ node.max_count = NodeValues
             /\ node.values = <<>> /\ node.children = <<>>
        BY <1>1, <2>2, InternalIs
    <2>4. QED
        BY <2>1, <2>3
<1>5. Len(node.values) = 0
    BY <1>4
<1>6. /\ Heap(grown) /\ new \in DOMAIN grown /\ top \in DOMAIN grown
      /\ grown[top] = h[top]
    BY <1>1, <1>4 DEF Grown
<1>7. PICK none \in Seq(Values) : none = <<>>
    <2>1. <<>> \in Seq(Values)
        OBVIOUS
    <2>2. QED
        BY <2>1
<1>8. PICK one \in Seq(Nat) : one = <<new>> /\ Len(one) = 1 /\ one[1] = new
                              /\ Distinct(one)
    BY <1>2, OneChild
<1>9. PICK values \in Seq(Values) : values = h[top].values
    BY <1>1, NodeIs
<1>10. PICK kids \in Seq(Nat) : kids = h[top].children
    BY <1>1, NodeIs
<1>11. Distinct(kids)
    <2>1. Children(h, top, lv, top)
        BY <1>1 DEF Tree
    <2>2. QED
        BY <1>10, <2>1, KidsDistinct
<1>12. PICK f : f = Fill(grown, new, values, kids)
    OBVIOUS
<1>13. Filled(grown, f, new, values, kids)
    BY <1>6, <1>11, <1>12, FillIs
<1>14. Heap(f) /\ top \in DOMAIN f
    BY <1>6, <1>13 DEF Filled
<1>15. PICK e : e = [f EXCEPT ![top].values = none]
    OBVIOUS
<1>16. Revalued(f, e, top, none)
    BY <1>14, <1>15, RevaluedIs
<1>17. Heap(e) /\ top \in DOMAIN e
    BY <1>14, <1>16 DEF Revalued
<1>18. g = Fill(e, top, none, one)
    <2>1. MoveContents(grown, top, new) = [f EXCEPT ![top].values = none]
        BY <1>6, <1>7, <1>9, <1>10, <1>12 DEF MoveContents
    <2>2. QED
        BY <1>3, <1>7, <1>8, <1>15, <2>1 DEF RootBelow
<1>19. Filled(e, g, top, none, one)
    BY <1>8, <1>17, <1>18, FillIs
<1>20. Len(values) = Count(h, top) /\ Len(none) = 0 /\ values = h[top].values
    BY <1>7, <1>9 DEF Count
<1>21. Grown(h, grown, new, node) /\ ~node.leaf /\ node.max_count = NodeValues
       /\ node.parent = h[top].parent
    BY <1>4
<1>22. Len(one) = 1 /\ one[1] = new
    BY <1>8
<1>23. Moved(h, f, top, new)
    BY <1>2, <1>10, <1>13, <1>20, <1>21, ContentsAreMoved
<1>24. PICK T : T = S \cup {new}
    OBVIOUS
<1>25. Loose(f, top, lw, T, {top}, {new})
    BY <1>2, <1>5, <1>10, <1>13, <1>20, <1>21, <1>24, ContentsGoBelow
<1>26. Tree(g, top, lw, T) /\ Lowered(h, g, top, new)
    BY <1>2, <1>16, <1>19, <1>20, <1>22, <1>23, <1>24, <1>25, LoweredTree
<1>27. QED
    BY <1>24, <1>26

(***************************************************************************)
(* The root goes                                                           *)
(***************************************************************************)

\* c is the child of a root without values.
OnlyKid(h, top, c) == Count(h, top) = 0 /\ c = Child(h, top, 0)

\* An internal root without values has one child.
LEMMA OnlyChild ==
    ASSUME NEW h, NEW top, NEW lv, NEW S, Tree(h, top, lv, S), ~h[top].leaf,
           NEW c, OnlyKid(h, top, c)
    PROVE  /\ c \in DOMAIN h /\ c # top /\ h[c].parent = top
                 /\ h[c].position = 0
           /\ lv[c] \in Nat /\ lv[top] = lv[c] + 1
           /\ Len(h[top].children) = 1 /\ h[top].children[1] = c
           /\ \A n \in DOMAIN h : n # top /\ h[n].parent = top => n = c
           /\ \A n \in DOMAIN h : n # top /\ n # c => lv[n] < lv[c]
<1>1. Heap(h) /\ top \in DOMAIN h
    BY DEF Tree
<1>2. PICK i \in 0..Count(h, top) : i = 0 /\ c = Child(h, top, i)
    BY DEF OnlyKid
<1>3. /\ c \in DOMAIN h /\ c # top /\ h[c].parent = top /\ h[c].position = i
      /\ lv[c] + 1 = lv[top]
    BY <1>1, <1>2, ChildIs
<1>4. Len(h[top].children) = 1
    <2>1. Children(h, top, lv, top)
        BY <1>1 DEF Tree
    <2>2. QED
        BY <2>1 DEF Children, OnlyKid
<1>5. lv[c] \in Nat
    BY <1>3 DEF Tree, Sized
<1>6. h[top].children[1] = c
    BY DEF Child, OnlyKid
<1>7. ASSUME NEW n \in DOMAIN h, n # top, h[n].parent = top PROVE n = c
    <2>1. h[n].position \in 0..Count(h, top)
              /\ Child(h, top, h[n].position) = n
        BY <1>7, ParentIs
    <2>2. h[n].position = 0
        BY <2>1 DEF OnlyKid
    <2>3. QED
        BY <2>1, <2>2 DEF OnlyKid
<1>8. ASSUME NEW n \in DOMAIN h, n # top, n # c PROVE lv[n] < lv[c]
    <2>1. lv[n] \in Nat /\ lv[n] < lv[top]
        BY <1>8 DEF Tree, Sized
    <2>2. PICK q \in DOMAIN h : q = h[n].parent /\ lv[q] = lv[n] + 1
        BY <1>8, ParentIs
    <2>3. q # top
        BY <1>7, <1>8, <2>2
    <2>4. lv[q] < lv[top]
        BY <2>3 DEF Tree, Sized
    <2>5. QED
        BY <1>3, <1>5, <2>1, <2>2, <2>4
<1>9. QED
    BY <1>2, <1>3, <1>4, <1>5, <1>6, <1>7, <1>8

\* What LeafBecomesRoot makes of the heap.
RootDropped(h, top, c) == Free([h EXCEPT ![c].parent = h[@].parent], {top})

\* LeafBecomesRoot leaves the leaf alone.
LEMMA LeafRootIs ==
    ASSUME NEW h, NEW top, NEW lv, NEW S, Tree(h, top, lv, S), ~h[top].leaf,
           NEW c, OnlyKid(h, top, c), h[c].leaf,
           NEW g, g = RootDropped(h, top, c)
    PROVE  /\ Lone(g, c, NodeValues, Count(h, c)) /\ DOMAIN h = {top, c}
           /\ SameValues(h, c, g, c)
<1>1. /\ Heap(h) /\ top \in DOMAIN h
      /\ h[top].parent \in DOMAIN h /\ h[h[top].parent].leaf
    BY DEF Tree
<1>2. /\ c \in DOMAIN h /\ c # top /\ h[c].parent = top
      /\ \A n \in DOMAIN h : n # top /\ n # c => lv[n] < lv[c]
    BY OnlyChild
<1>3. /\ lv[c] = 0 /\ h[c].max_count = NodeValues
      /\ Count(h, c) <= h[c].max_count
    BY <1>2 DEF Tree, Sized
<1>4. DOMAIN h = {top, c}
    <2>1. ASSUME NEW n \in DOMAIN h, n # top, n # c PROVE FALSE
        <3>1. lv[n] \in Nat /\ lv[n] < lv[c]
            BY <1>2, <2>1 DEF Tree, Sized
        <3>2. QED
            BY <1>3, <3>1
    <2>2. QED
        BY <1>1, <1>2, <2>1
<1>5. h[top].parent = c
    BY <1>1, <1>4
<1>6. Len(h[c].children) = 0
    <2>1. Children(h, top, lv, c)
        BY <1>2 DEF Tree
    <2>2. QED
        BY <2>1 DEF Children
<1>7. PICK f : f = [h EXCEPT ![c].parent = c]
    OBVIOUS
<1>8. g = Free(f, {top})
    BY <1>2, <1>5, <1>7 DEF RootDropped, Heap
<1>9. h[c] \in Node /\ c \in Nat
    BY <1>1, <1>2, NodeIs
<1>10. /\ DOMAIN f = DOMAIN h /\ f[c] = [h[c] EXCEPT !.parent = c]
       /\ \A m \in DOMAIN h \ {c} : f[m] = h[m]
    BY <1>2, <1>7 DEF Heap
<1>11. /\ f[c] \in Node /\ f[c].parent = c
       /\ f[c].leaf = h[c].leaf /\ f[c].max_count = h[c].max_count
       /\ f[c].values = h[c].values /\ f[c].children = h[c].children
    BY <1>9, <1>10 DEF Node
<1>12. Heap(f)
    <2>1. f = [m \in DOMAIN h |-> f[m]]
        BY <1>7
    <2>2. \A m \in DOMAIN h : f[m] \in Node
        BY <1>1, <1>10, <1>11, NodeIs
    <2>3. QED
        BY <1>1, <1>10, <2>1, <2>2 DEF Heap
<1>13. Freed(f, g, top)
    BY <1>8, <1>12, FreeIs
<1>14. Heap(g) /\ DOMAIN g = {c} /\ g[c] = f[c]
    BY <1>2, <1>4, <1>10, <1>13 DEF Freed
<1>15. Count(g, c) = Count(h, c)
    BY <1>11, <1>14 DEF Count
<1>16. /\ g[c].leaf /\ g[c].parent = c /\ g[c].max_count = NodeValues
       /\ Len(g[c].children) = 0
    BY <1>3, <1>6, <1>11, <1>14
<1>17. Count(g, c) <= g[c].max_count
    BY <1>3, <1>15, <1>16
<1>18. Tree(g, c, lv, {c})
    BY <1>3, <1>14, <1>16, <1>17, LoneTree
<1>19. QED
    BY <1>4, <1>11, <1>14, <1>15, <1>16, <1>18 DEF Lone, SameValues

\* The tree when the root and its only child are one level too far apart.
LEMMA TopMovesDown ==
    ASSUME NEW h, NEW top, NEW lv, NEW S, Tree(h, top, lv, S), ~h[top].leaf,
           NEW c, OnlyKid(h, top, c), ~h[c].leaf,
           NEW lw, lw[top] = lv[c], \A m \in DOMAIN h \ {top} : lw[m] = lv[m],
           NEW T, T = S \ {c}, NEW X, X = {top, c},
           NEW Y, Y = {c} \cup {m \in DOMAIN h : h[m].parent = c}
    PROVE  Loose(h, top, lw, T, X, Y)
<1>1. Heap(h) /\ top \in DOMAIN h
    BY DEF Tree
<1>2. /\ c \in DOMAIN h /\ c # top
      /\ lv[c] \in Nat /\ lv[top] = lv[c] + 1
      /\ \A n \in DOMAIN h : n # top /\ n # c => lv[n] < lv[c]
    BY OnlyChild
<1>3. ASSUME NEW m \in DOMAIN h, m \notin X PROVE Children(h, top, lw, m)
    <2>1. Children(h, top, lv, m)
        BY DEF Tree
    <2>2. ASSUME NEW i \in 1..Len(h[m].children)
          PROVE  lw[h[m].children[i]] + 1 = lw[m]
        <3>1. PICK x \in DOMAIN h : /\ x = h[m].children[i]
                                          /\ lv[x] + 1 = lv[m]
                                    /\ x # top
            BY <2>1 DEF Children
        <3>2. lw[x] = lv[x] /\ lw[m] = lv[m]
            BY <1>3, <3>1
        <3>3. QED
            BY <3>1, <3>2
    <2>3. QED
        BY <2>1, <2>2 DEF Children
<1>4. ASSUME NEW m \in DOMAIN h, m \notin Y PROVE Placed(h, top, T, m)
    <2>1. Placed(h, top, S, m)
        BY DEF Tree
    <2>2. (m \in T => m \in S) /\ h[m].parent # c
        BY <1>4
    <2>3. h[m].parent \in S => h[m].parent \in T
        BY <2>2
    <2>4. QED
        BY <2>1, <2>2, <2>3 DEF Placed
<1>5. ASSUME NEW m \in DOMAIN h, m # c PROVE Sized(h, top, lw, m)
    <2>1. Sized(h, top, lv, m)
        BY DEF Tree
    <2>2. CASE m = top
        <3>1. Sized(h, top, lv, c)
            BY <1>2 DEF Tree
        <3>2. lw[m] \in Nat /\ lw[m] # 0
            BY <1>2, <2>2, <3>1 DEF Sized
        <3>3. ~h[m].leaf
            BY <2>2
        <3>4. QED
            BY <2>1, <2>2, <3>2, <3>3 DEF Sized
    <2>3. CASE m # top
        <3>1. lv[m] \in Nat /\ lw[m] = lv[m]
            BY <2>1, <2>3 DEF Sized
        <3>2. lw[m] < lw[top]
            BY <1>2, <1>5, <2>3, <3>1
        <3>3. QED
            BY <2>1, <2>3, <3>1, <3>2 DEF Sized
    <2>4. QED
        BY <2>2, <2>3
<1>6. c \in X /\ c \in Y
    OBVIOUS
<1>7. QED
    BY <1>1, <1>3, <1>4, <1>5, <1>6 DEF Loose

\* Filling the root with the contents of its only child leaves that child
\* unfinished.
LEMMA ContentsGoUp ==
    ASSUME NEW h, NEW top, NEW lv, NEW S, Tree(h, top, lv, S), ~h[top].leaf,
           NEW c, OnlyKid(h, top, c), ~h[c].leaf,
           NEW lw, lw[top] = lv[c], \A m \in DOMAIN h \ {top} : lw[m] = lv[m],
           NEW T, T = S \ {c},
           NEW values, values = h[c].values, NEW kids, kids = h[c].children,
           NEW f, Filled(h, f, top, values, kids), NEW C, C = {c}
    PROVE  Loose(f, top, lw, T, C, C)
<1>1. /\ Heap(h) /\ top \in DOMAIN h
      /\ h[top].max_count = NodeValues /\ top \in S /\ h[h[top].parent].leaf
    BY RootOfTree DEF Tree
<1>2. /\ c \in DOMAIN h /\ c # top /\ lv[c] \in Nat
      /\ \A n \in DOMAIN h : n # top /\ h[n].parent = top => n = c
    BY OnlyChild
<1>3. PICK X : X = {top, c}
    OBVIOUS
<1>4. PICK Y : Y = {c} \cup {m \in DOMAIN h : h[m].parent = c}
    OBVIOUS
<1>5. Loose(h, top, lw, T, X, Y)
    BY <1>3, <1>4, TopMovesDown
<1>6. \A i \in 1..Len(kids) :
         /\ kids[i] \in DOMAIN h /\ kids[i] # top
         /\ h[kids[i]].parent = c
         /\ h[kids[i]].position = i - 1
         /\ lv[kids[i]] + 1 = lv[c]
    <2>1. Children(h, top, lv, c)
        BY <1>2 DEF Tree
    <2>2. QED
        BY <2>1 DEF Children
<1>7. Kids(h, top, lw, T, top, kids)
    <2>1. ASSUME NEW i \in 1..Len(kids)
          PROVE  /\ kids[i] \in DOMAIN h /\ kids[i] # top
                 /\ lw[kids[i]] + 1 = lw[top]
                 /\ kids[i] \in T => i = 1 /\ top \in T
        <3>1. PICK x \in DOMAIN h : /\ x = kids[i] /\ x # top
                                    /\ h[x].position = i - 1
                                    /\ lv[x] + 1 = lv[c]
            BY <1>6
        <3>2. lw[x] = lv[x]
            BY <3>1
        <3>3. x \in S => h[x].position = 0
            <4>1. Placed(h, top, S, x)
                BY DEF Tree
            <4>2. QED
                BY <3>1, <4>1 DEF Placed
        <3>4. x \in T => i = 1
            BY <3>1, <3>3
        <3>5. top \in T
            BY <1>1, <1>2
        <3>6. QED
            BY <3>1, <3>2, <3>4, <3>5
    <2>2. QED
        BY <2>1 DEF Kids
<1>8. Len(kids) = IF h[top].leaf THEN 0 ELSE Len(values) + 1
    <2>1. Children(h, top, lv, c)
        BY <1>2 DEF Tree
    <2>2. Len(kids) = Len(values) + 1
        BY <2>1 DEF Children, Count
    <2>3. QED
        BY <2>2
<1>9. Len(values) <= h[top].max_count
    <2>1. Sized(h, top, lv, c)
        BY <1>2 DEF Tree
    <2>2. Count(h, c) <= NodeValues
        BY <1>2, <2>1 DEF Sized
    <2>3. QED
        BY <1>1, <2>2 DEF Count
<1>10. ASSUME NEW m \in DOMAIN h, m \in X, m \in Y
       PROVE  (m \in C /\ m \in C) \/ Sized(h, top, lw, m)
    <2>1. m = c
        BY <1>1, <1>3, <1>4, <1>10
    <2>2. QED
        BY <2>1
<1>11. ASSUME NEW m \in DOMAIN h
       PROVE  m \in C \/ m = top
                 \/ (m \notin X /\ (h[m].leaf
                       \/ \A i \in 1..Len(kids) : h[kids[i]].parent # m))
    BY <1>3, <1>6
<1>12. ASSUME NEW x \in DOMAIN h
       PROVE  x \in C \/ (\E i \in 1..Len(kids) : kids[i] = x)
                 \/ x = top \/ (x \notin Y /\ h[x].parent # top)
    <2>1. CASE x # c /\ x # top /\ h[x].parent = c
        <3>1. Placed(h, top, S, x)
            BY DEF Tree
        <3>2. QED
            BY <2>1, <3>1 DEF Placed
    <2>2. QED
        BY <1>2, <1>4, <2>1
<1>13. QED
    BY <1>1, <1>5, <1>7, <1>8, <1>9, <1>10, <1>11, <1>12, FillLoose

\* g is h after the only child of the root was put in its place.
Sunk(h, g, top, c) ==
    /\ DOMAIN g = DOMAIN h \ {c}
    /\ \A m \in DOMAIN g : g[m].leaf = h[m].leaf
          /\ g[m].max_count = h[m].max_count
    /\ Count(g, top) = Count(h, c)
    /\ \A m \in DOMAIN g \ {top} : Count(g, m) = Count(h, m)
    /\ g[top].values = h[c].values /\ g[top].children = h[c].children
    /\ \A m \in DOMAIN g \ {top} :
          g[m].values = h[m].values /\ g[m].children = h[m].children

\* Freeing the child makes a tree again.
LEMMA SunkTree ==
    ASSUME NEW h, NEW top, NEW lv, NEW S, Tree(h, top, lv, S), ~h[top].leaf,
           NEW c, OnlyKid(h, top, c), ~h[c].leaf,
           NEW lw, NEW T, T = S \ {c},
           NEW values, values = h[c].values, NEW kids, kids = h[c].children,
           NEW f, Filled(h, f, top, values, kids),
           NEW C, C = {c}, Loose(f, top, lw, T, C, C),
           NEW none, NEW e, Revalued(f, e, c, none), NEW g, g = Free(e, {c})
    PROVE  Tree(g, top, lw, T) /\ Sunk(h, g, top, c)
<1>1. /\ Heap(h) /\ top \in DOMAIN h /\ S \subseteq DOMAIN h /\ top \in S
      /\ h[top].parent \in DOMAIN h /\ h[top].parent \in S
      /\ h[h[top].parent].leaf /\ h[top].parent # top
    BY RootOfTree DEF Tree
<1>2. c \in DOMAIN h /\ c # top /\ h[c].parent = top
    BY OnlyChild
<1>3. /\ DOMAIN f = DOMAIN h
      /\ \A m \in DOMAIN h : f[m].leaf = h[m].leaf
            /\ f[m].max_count = h[m].max_count
      /\ f[top].values = values /\ f[top].children = kids
      /\ \A m \in DOMAIN h \ {top} :
            f[m].values = h[m].values /\ f[m].children = h[m].children
    BY DEF Filled
<1>4. /\ DOMAIN e = DOMAIN f
      /\ \A m \in DOMAIN f : /\ e[m].leaf = f[m].leaf
                             /\ e[m].max_count = f[m].max_count
                             /\ e[m].parent = f[m].parent
                             /\ e[m].children = f[m].children
      /\ \A m \in DOMAIN f \ {c} : e[m].values = f[m].values
    BY DEF Revalued
<1>5. Loose(e, top, lw, T, C, C)
    <2>1. c \in C /\ c \in DOMAIN f
        BY <1>2, <1>3
    <2>2. QED
        BY <2>1, RevaluedLoose
<1>6. \A i \in 1..Len(kids) : /\ kids[i] \in DOMAIN h /\ kids[i] # top
                              /\ h[kids[i]].parent = c
    <2>1. Children(h, top, lv, c)
        BY <1>2 DEF Tree
    <2>2. QED
        BY <2>1 DEF Children
<1>7. ASSUME NEW m \in DOMAIN e \ {c}, NEW i \in 1..Len(e[m].children)
      PROVE  e[m].children[i] # c
    <2>1. CASE m = top
        <3>1. e[m].children = kids
            BY <1>1, <1>3, <1>4, <2>1
        <3>2. QED
            BY <1>2, <1>6, <3>1
    <2>2. CASE m # top
        <3>1. m \in DOMAIN h /\ e[m].children = h[m].children
            BY <1>3, <1>4, <1>7, <2>2
        <3>2. Children(h, top, lv, m)
            BY <3>1 DEF Tree
        <3>3. h[h[m].children[i]].parent = m
            BY <3>1, <3>2 DEF Children
        <3>4. QED
            BY <1>2, <2>2, <3>1, <3>3
    <2>3. QED
        BY <2>1, <2>2
<1>8. ASSUME NEW x \in DOMAIN e \ {c}
      PROVE  x = top \/ e[x].parent # c
    <2>1. CASE \E i \in 1..Len(kids) : kids[i] = x
        <3>1. PICK i \in 1..Len(kids) : kids[i] = x /\ kids[i] \in DOMAIN h
            BY <1>6, <2>1
        <3>2. f[kids[i]].parent = top
            BY <3>1 DEF Filled
        <3>3. QED
            BY <1>2, <1>3, <1>4, <3>1, <3>2
    <2>2. CASE x # top /\ \A i \in 1..Len(kids) : kids[i] # x
        <3>1. x \in DOMAIN h
            BY <1>3, <1>4
        <3>2. Placed(h, top, S, x)
            BY <3>1 DEF Tree
        <3>3. h[x].parent # c
            BY <2>2, <3>2 DEF Placed
        <3>4. f[x].parent = h[x].parent
            BY <2>2, <3>1 DEF Filled
        <3>5. QED
            BY <1>3, <1>4, <3>1, <3>3, <3>4
    <2>3. QED
        BY <2>1, <2>2
<1>9. Loose(g, top, lw, T, {}, {})
    <2>1. Loose(e, top, lw, T, {c}, {c})
        BY <1>5
    <2>2. QED
        BY <1>7, <1>8, <2>1, FreeLoose
<1>10. Freed(e, g, c)
    <2>1. Heap(e)
        BY <1>5 DEF Loose
    <2>2. QED
        BY <2>1, FreeIs
<1>11. /\ DOMAIN g = DOMAIN h \ {c} /\ top \in DOMAIN g
       /\ \A m \in DOMAIN g : g[m].leaf = h[m].leaf
             /\ g[m].max_count = h[m].max_count
       /\ \A m \in DOMAIN g \ {top} :
             g[m].values = h[m].values /\ g[m].children = h[m].children
       /\ g[top].values = h[c].values /\ g[top].children = h[c].children
    <2>1. DOMAIN g = DOMAIN e \ {c} /\ \A m \in DOMAIN g : g[m] = e[m]
        BY <1>10 DEF Freed
    <2>2. DOMAIN g = DOMAIN h \ {c} /\ top \in DOMAIN g
        BY <1>1, <1>2, <1>3, <1>4, <2>1
    <2>3. ASSUME NEW m \in DOMAIN g
          PROVE  /\ g[m].leaf = h[m].leaf /\ g[m].max_count = h[m].max_count
                 /\ m # top => /\ g[m].values = h[m].values
                               /\ g[m].children = h[m].children
        <3>1. m \in DOMAIN h /\ m # c /\ g[m] = e[m]
            BY <2>1, <2>2
        <3>2. /\ e[m].leaf = f[m].leaf /\ e[m].max_count = f[m].max_count
              /\ e[m].values = f[m].values /\ e[m].children = f[m].children
            BY <1>3, <1>4, <3>1
        <3>3. QED
            BY <1>3, <3>1, <3>2
    <2>4. g[top].values = h[c].values /\ g[top].children = h[c].children
        <3>1. g[top].values = e[top].values /\ g[top].children = e[top].children
            BY <2>1, <2>2
        <3>2. e[top].values = f[top].values /\ e[top].children = f[top].children
            BY <1>1, <1>2, <1>3, <1>4
        <3>3. QED
            BY <1>3, <3>1, <3>2
    <2>5. QED
        BY <2>2, <2>3, <2>4
<1>12. g[top].parent = h[top].parent
    <2>1. g[top].parent = f[top].parent
        <3>1. top \in DOMAIN g /\ g[top] = e[top]
            BY <1>10, <1>11 DEF Freed
        <3>2. QED
            BY <1>1, <1>3, <1>4, <3>1
    <2>2. \A i \in 1..Len(kids) : kids[i] # top
        BY <1>6
    <2>3. f[top].parent = h[top].parent
        BY <1>1, <2>2 DEF Filled
    <2>4. QED
        BY <2>1, <2>3
<1>13. Tree(g, top, lw, T)
    <2>1. PICK q \in DOMAIN h : q = h[top].parent /\ q \in S /\ h[q].leaf
              /\ q # c
        BY <1>1
    <2>2. g[top].parent = q /\ q \in DOMAIN g /\ g[q].leaf
        BY <1>11, <1>12, <2>1
    <2>3. T \subseteq DOMAIN g /\ top \in T /\ q \in T
        BY <1>1, <1>2, <1>11, <2>1
    <2>4. top \in DOMAIN g
        BY <1>11
    <2>5. QED
        BY <1>9, <2>2, <2>3, <2>4, LooseIsTree
<1>14. Sunk(h, g, top, c)
    <2>1. Count(g, top) = Count(h, c)
        BY <1>11 DEF Count
    <2>2. \A m \in DOMAIN g \ {top} : Count(g, m) = Count(h, m)
        BY <1>11 DEF Count
    <2>3. QED
        BY <1>11, <2>1, <2>2 DEF Sunk
<1>15. QED
    BY <1>13, <1>14

\* What ChildMovesIntoRoot makes of the heap.
RootReplaced(h, top, c) == Free(MoveContents(h, c, top), {c})

\* ChildMovesIntoRoot leaves a tree, one level lower.
LEMMA SunkIs ==
    ASSUME NEW h, NEW top, NEW lv, NEW S, Tree(h, top, lv, S), ~h[top].leaf,
           NEW c, OnlyKid(h, top, c), ~h[c].leaf,
           NEW lw, lw[top] = lv[c], \A m \in DOMAIN h \ {top} : lw[m] = lv[m],
           NEW g, g = RootReplaced(h, top, c)
    PROVE  Tree(g, top, lw, S \ {c}) /\ Sunk(h, g, top, c)
<1>1. Heap(h) /\ top \in DOMAIN h
    BY DEF Tree
<1>2. c \in DOMAIN h
    BY OnlyChild
<1>3. PICK values : values = h[c].values
    OBVIOUS
<1>4. PICK kids : kids = h[c].children
    OBVIOUS
<1>5. Distinct(kids)
    <2>1. Children(h, top, lv, c)
        BY <1>2 DEF Tree
    <2>2. QED
        BY <1>4, <2>1, KidsDistinct
<1>6. PICK f : f = Fill(h, top, values, kids)
    OBVIOUS
<1>7. Filled(h, f, top, values, kids)
    <2>1. values \in Seq(Values) /\ kids \in Seq(Nat)
        BY <1>1, <1>2, <1>3, <1>4, NodeIs
    <2>2. QED
        BY <1>1, <1>5, <1>6, <2>1, FillIs
<1>8. PICK none : none = <<>>
    OBVIOUS
<1>9. PICK e : e = [f EXCEPT ![c].values = none]
    OBVIOUS
<1>10. Heap(f) /\ c \in DOMAIN f
    BY <1>2, <1>7 DEF Filled
<1>11. Revalued(f, e, c, none)
    <2>1. none \in Seq(Values)
        BY <1>8
    <2>2. QED
        BY <1>9, <1>10, <2>1, RevaluedIs
<1>12. g = Free(e, {c})
    BY <1>3, <1>4, <1>6, <1>8, <1>9 DEF RootReplaced, MoveContents
<1>13. PICK T : T = S \ {c}
    OBVIOUS
<1>14. PICK C : C = {c}
    OBVIOUS
<1>15. Loose(f, top, lw, T, C, C)
    BY <1>3, <1>4, <1>7, <1>13, <1>14, ContentsGoUp
<1>16. Tree(g, top, lw, T) /\ Sunk(h, g, top, c)
    BY <1>3, <1>4, <1>7, <1>11, <1>12, <1>13, <1>14, <1>15, SunkTree
<1>17. QED
    BY <1>13, <1>16

(***************************************************************************)
(* Walking over nodes                                                      *)
(***************************************************************************)

(***************************************************************************)
(* Walks: from node to node until one is reached that answers.             *)
(***************************************************************************)

\* f goes on with next[m] until it comes to a node of stop, where it gives what
\* base has.
IsWalk(f, D, stop, base, next) ==
    f = [m \in D |-> IF m \in stop THEN base[m] ELSE f[next[m]]]

\* The walk, as the operators of BTreeNodes choose it.
TheWalk(D, stop, base, next) == CHOOSE f : IsWalk(f, D, stop, base, next)

\* A walk to nodes of lower rank ends, with a member of V.
LEMMA WalkEnds ==
    ASSUME NEW D, NEW rank, NEW N \in Nat, Ranked(rank, D, N), NEW V, NEW stop,
           NEW base, \A m \in D : m \in stop => base[m] \in V,
           NEW next,
           \A m \in D : m \notin stop
               => next[m] \in D /\ rank[next[m]] < rank[m],
           NEW n \in D
    PROVE  TheWalk(D, stop, base, next)[n] \in V
<1> DEFINE Walk(f) == IsWalk(f, D, stop, base, next)
           W == CHOOSE f : Walk(f)
<1>1. ASSUME NEW f, Walk(f) PROVE \A m \in D : f[m] \in V
    <2> DEFINE P == {m \in D : f[m] \in V}
    <2>1. ASSUME NEW m \in D, \A e \in D : rank[e] < rank[m] => e \in P
          PROVE  m \in P
        <3>1. f[m] = IF m \in stop THEN base[m] ELSE f[next[m]]
            BY <1>1 DEF IsWalk
        <3>2. QED
            BY <2>1, <3>1
    <2> HIDE DEF P
    <2>2. D \subseteq P
        BY <2>1, RankInduction
    <2>3. QED
        BY <2>2 DEF P
<1>2. V # {}
    <2> DEFINE P == {m \in D : V # {}}
    <2>1. ASSUME NEW m \in D, \A e \in D : rank[e] < rank[m] => e \in P
          PROVE  m \in P
        BY <2>1
    <2> HIDE DEF P
    <2>2. D \subseteq P
        BY <2>1, RankInduction
    <2>3. QED
        BY <2>2 DEF P
<1>3. \E f : Walk(f)
    <2> DEFINE G == [m \in D |-> [f \in Maps(D, V) |->
                        IF m \in stop THEN base[m] ELSE f[next[m]]]]
    <2>1. \A m \in D, f \in Maps(D, V) :
             G[m][f] = IF m \in stop THEN base[m] ELSE f[next[m]]
        OBVIOUS
    <2> HIDE DEF G
    <2>2. ASSUME NEW m \in D, NEW f \in Maps(D, V) PROVE G[m][f] \in V
        <3>1. f \in [D -> V]
            BY DEF Maps
        <3>2. QED
            BY <2>1, <3>1
    <2>3. Rules(G, D, V, rank)
        BY <2>1, <2>2 DEF Rules
    <2>4. PICK f \in Maps(D, V) : \A m \in D : f[m] = G[m][f]
        BY <1>2, <2>3, Recursion
    <2>5. f = [m \in D |-> f[m]]
        BY <2>4 DEF Maps
    <2>6. \A m \in D : f[m] = IF m \in stop THEN base[m] ELSE f[next[m]]
        BY <2>1, <2>4
    <2>7. Walk(f)
        BY <2>5, <2>6 DEF IsWalk
    <2>8. QED
        BY <2>7
<1> HIDE DEF Walk
<1>4. Walk(W)
    BY <1>3
<1> HIDE DEF W
<1>5. W[n] \in V
    BY <1>1, <1>4
<1>6. QED
    BY <1>5 DEF W, Walk, TheWalk

\* Levels rank the nodes from the leaves up, and from the root down.
UpRank(h, lv) == [m \in DOMAIN h |-> lv[m]]

\* Levels rank the nodes from the root down.
DownRank(h, top, lv) == [m \in DOMAIN h |-> lv[top] - lv[m]]

\* There are finitely many ranks.
LEMMA LevelsRank ==
    ASSUME NEW h, NEW top, NEW lv, NEW S, Tree(h, top, lv, S)
    PROVE  /\ lv[top] + 1 \in Nat
           /\ Ranked(UpRank(h, lv), DOMAIN h, lv[top] + 1)
           /\ Ranked(DownRank(h, top, lv), DOMAIN h, lv[top] + 1)
<1>1. top \in DOMAIN h
    BY DEF Tree
<1>2. lv[top] \in Nat
    BY <1>1 DEF Tree, Sized
<1>3. ASSUME NEW m \in DOMAIN h
      PROVE  lv[m] \in Nat /\ lv[m] <= lv[top]
    <2>1. Sized(h, top, lv, m)
        BY DEF Tree
    <2>2. QED
        BY <1>2, <2>1 DEF Sized
<1>4. Ranked(UpRank(h, lv), DOMAIN h, lv[top] + 1)
    BY <1>2, <1>3 DEF Ranked, UpRank
<1>5. Ranked(DownRank(h, top, lv), DOMAIN h, lv[top] + 1)
    BY <1>2, <1>3 DEF Ranked, DownRank
<1>6. QED
    BY <1>2, <1>4, <1>5

\* An allocated leaf.
LeafOf(h, n) == n \in DOMAIN h /\ h[n].leaf

\* The way along first children ends in a leaf.
LEMMA FirstLeafIs ==
    ASSUME NEW h, NEW top, NEW lv, NEW S, Tree(h, top, lv, S),
           NEW n \in DOMAIN h
    PROVE  LeafOf(h, FirstLeaf(h, n))
<1> DEFINE D == DOMAIN h
           stop == {m \in D : h[m].leaf}
           base == [m \in D |-> m]
           next == [m \in D |-> Child(h, m, 0)]
           rank == UpRank(h, lv)
           IsDown(f) ==
               f = [m \in D |-> IF h[m].leaf THEN m ELSE f[Child(h, m, 0)]]
           Walk(f) == IsWalk(f, D, stop, base, next)
<1>1. FirstLeaf(h, n) = (CHOOSE f : IsDown(f))[n]
    BY DEF FirstLeaf
<1>2. ASSUME NEW f PROVE IsDown(f) <=> Walk(f)
    BY DEF IsWalk
<1>3. (CHOOSE f : IsDown(f)) = TheWalk(D, stop, base, next)
    <2>1. (CHOOSE f : Walk(f)) = TheWalk(D, stop, base, next)
        BY DEF TheWalk
    <2> HIDE DEF IsDown, Walk
    <2>2. (CHOOSE f : IsDown(f)) = (CHOOSE f : Walk(f))
        BY <1>2
    <2>3. QED
        BY <2>1, <2>2
<1>4. ASSUME NEW m \in D, m \notin stop
      PROVE  next[m] \in D /\ rank[next[m]] < rank[m]
    <2>1. Count(h, m) \in Nat
        BY CountIs DEF Tree
    <2>2. PICK i \in 0..Count(h, m) : i = 0
        BY <2>1
    <2>3. PICK x \in D : x = next[m] /\ lv[x] + 1 = lv[m]
        <3>1. ~h[m].leaf
            BY <1>4
        <3>2. Child(h, m, i) \in DOMAIN h /\ lv[Child(h, m, i)] + 1 = lv[m]
            BY <3>1, ChildIs
        <3>3. QED
            BY <2>2, <3>2
    <2>4. lv[x] \in Nat
        BY <2>3 DEF Tree, Sized
    <2>5. QED
        BY <2>3, <2>4 DEF UpRank
<1>5. \A m \in D : m \in stop => base[m] \in stop
    OBVIOUS
<1>6. lv[top] + 1 \in Nat /\ Ranked(rank, D, lv[top] + 1)
    BY LevelsRank
<1>7. TheWalk(D, stop, base, next)[n] \in stop
    <2> HIDE DEF D, stop, base, next, rank
    <2>1. n \in D
        BY DEF D
    <2>2. QED
        BY <1>4, <1>5, <1>6, <2>1, WalkEnds
<1>8. QED
    <2> HIDE DEF IsDown
    <2>1. FirstLeaf(h, n) \in stop
        BY <1>1, <1>3, <1>7
    <2>2. QED
        BY <2>1 DEF LeafOf

\* The way along last children ends in a leaf.
LEMMA LastLeafIs ==
    ASSUME NEW h, NEW top, NEW lv, NEW S, Tree(h, top, lv, S),
           NEW n \in DOMAIN h
    PROVE  LeafOf(h, LastLeaf(h, n))
<1> DEFINE D == DOMAIN h
           stop == {m \in D : h[m].leaf}
           base == [m \in D |-> m]
           next == [m \in D |-> Child(h, m, Count(h, m))]
           rank == UpRank(h, lv)
           IsDown(f) ==
               f = [m \in D |-> IF h[m].leaf THEN m
                   ELSE f[Child(h, m, Count(h, m))]]
           Walk(f) == IsWalk(f, D, stop, base, next)
<1>1. LastLeaf(h, n) = (CHOOSE f : IsDown(f))[n]
    BY DEF LastLeaf
<1>2. ASSUME NEW f PROVE IsDown(f) <=> Walk(f)
    BY DEF IsWalk
<1>3. (CHOOSE f : IsDown(f)) = TheWalk(D, stop, base, next)
    <2>1. (CHOOSE f : Walk(f)) = TheWalk(D, stop, base, next)
        BY DEF TheWalk
    <2> HIDE DEF IsDown, Walk
    <2>2. (CHOOSE f : IsDown(f)) = (CHOOSE f : Walk(f))
        BY <1>2
    <2>3. QED
        BY <2>1, <2>2
<1>4. ASSUME NEW m \in D, m \notin stop
      PROVE  next[m] \in D /\ rank[next[m]] < rank[m]
    <2>1. Count(h, m) \in Nat
        BY CountIs DEF Tree
    <2>2. PICK i \in 0..Count(h, m) : i = Count(h, m)
        BY <2>1
    <2>3. PICK x \in D : x = next[m] /\ lv[x] + 1 = lv[m]
        <3>1. ~h[m].leaf
            BY <1>4
        <3>2. Child(h, m, i) \in DOMAIN h /\ lv[Child(h, m, i)] + 1 = lv[m]
            BY <3>1, ChildIs
        <3>3. QED
            BY <2>2, <3>2
    <2>4. lv[x] \in Nat
        BY <2>3 DEF Tree, Sized
    <2>5. QED
        BY <2>3, <2>4 DEF UpRank
<1>5. \A m \in D : m \in stop => base[m] \in stop
    OBVIOUS
<1>6. lv[top] + 1 \in Nat /\ Ranked(rank, D, lv[top] + 1)
    BY LevelsRank
<1>7. TheWalk(D, stop, base, next)[n] \in stop
    <2> HIDE DEF D, stop, base, next, rank
    <2>1. n \in D
        BY DEF D
    <2>2. QED
        BY <1>4, <1>5, <1>6, <2>1, WalkEnds
<1>8. QED
    <2> HIDE DEF IsDown
    <2>1. LastLeaf(h, n) \in stop
        BY <1>1, <1>3, <1>7
    <2>2. QED
        BY <2>1 DEF LeafOf

\* A place in a leaf, and one where there is a value.
LeafPlaceOf(h, s) ==
    \E n \in DOMAIN h, i \in Nat : s = Slot(n, i) /\ h[n].leaf
        /\ i <= Count(h, n)

\* A place where there is a value.
ValuePlaceOf(h, s) ==
    \E n \in DOMAIN h, i \in Nat : s = Slot(n, i) /\ i < Count(h, n)

\* The root is the node whose parent is a leaf.
LEMMA RootIs ==
    ASSUME NEW h, NEW top, NEW lv, NEW S, Tree(h, top, lv, S),
           NEW n \in DOMAIN h
    PROVE  IsRoot(h, n) <=> n = top
<1>1. h[h[top].parent].leaf
    BY DEF Tree
<1>2. CASE n = top
    BY <1>1, <1>2 DEF IsRoot
<1>3. CASE n # top
    <2>1. ~h[h[n].parent].leaf
        BY <1>3, ParentIs
    <2>2. QED
        BY <1>3, <2>1 DEF IsRoot
<1>4. QED
    BY <1>2, <1>3

\* What comes after a node is a value or nothing.
LEMMA AfterIs ==
    ASSUME NEW h, NEW top, NEW lv, NEW S, Tree(h, top, lv, S),
           NEW n \in DOMAIN h
    PROVE  After(h, n) = NoSlot \/ ValuePlaceOf(h, After(h, n))
<1> DEFINE D == DOMAIN h
           V == {NoSlot} \cup {Slot(m, i) : m \in D, i \in Nat}
           W == {s \in V : s = NoSlot \/ ValuePlaceOf(h, s)}
           stop == {m \in D : IsRoot(h, m) \/ HasRight(h, m)}
           base == [m \in D |-> IF IsRoot(h, m) THEN NoSlot
                                ELSE Slot(h[m].parent, h[m].position)]
           next == [m \in D |-> h[m].parent]
           rank == DownRank(h, top, lv)
           IsUp(f) == f = [m \in D |->
                         IF IsRoot(h, m) THEN NoSlot
                         ELSE IF HasRight(h, m) THEN Slot(h[m].parent,
                             h[m].position)
                         ELSE f[h[m].parent]]
           Walk(f) == IsWalk(f, D, stop, base, next)
<1>1. After(h, n) = (CHOOSE f : IsUp(f))[n]
    BY DEF After
<1>2. ASSUME NEW f PROVE IsUp(f) <=> Walk(f)
    <2>1. ASSUME NEW m \in D
          PROVE  (IF IsRoot(h, m) THEN NoSlot
                  ELSE IF HasRight(h, m) THEN Slot(h[m].parent, h[m].position)
                  ELSE f[h[m].parent])
                    = IF m \in stop THEN base[m] ELSE f[next[m]]
        OBVIOUS
    <2>2. QED
        BY <2>1 DEF IsWalk
<1>3. (CHOOSE f : IsUp(f)) = TheWalk(D, stop, base, next)
    <2>1. (CHOOSE f : Walk(f)) = TheWalk(D, stop, base, next)
        BY DEF TheWalk
    <2> HIDE DEF IsUp, Walk
    <2>2. (CHOOSE f : IsUp(f)) = (CHOOSE f : Walk(f))
        BY <1>2
    <2>3. QED
        BY <2>1, <2>2
<1>4. ASSUME NEW m \in D, m # top
      PROVE  /\ h[m].parent \in D /\ h[m].position \in Nat
             /\ lv[h[m].parent] = lv[m] + 1
    <2>1. h[m].position \in Nat
        BY NodeIs DEF Tree
    <2>2. QED
        BY <1>4, <2>1, ParentIs
<1>5. ASSUME NEW m \in D, m \notin stop
      PROVE  next[m] \in D /\ rank[next[m]] < rank[m]
    <2>1. m # top
        BY <1>5, RootIs
    <2>2. PICK x \in D : x = next[m] /\ lv[x] = lv[m] + 1
        BY <1>4, <2>1
    <2>3. lv[x] \in Nat /\ lv[m] \in Nat /\ lv[top] \in Nat
        <3>1. top \in D
            BY DEF Tree
        <3>2. QED
            BY <3>1 DEF Tree, Sized
    <2>4. QED
        BY <2>2, <2>3 DEF DownRank
<1>6. ASSUME NEW m \in D, m \in stop PROVE base[m] \in W
    <2>1. CASE IsRoot(h, m)
        BY <2>1
    <2>2. CASE ~IsRoot(h, m)
        <3>1. h[m].parent \in D /\ h[m].position \in Nat
            BY <1>4, <2>2, RootIs
        <3>2. h[m].position < Count(h, h[m].parent)
            BY <1>6, <2>2 DEF HasRight
        <3>3. ValuePlaceOf(h, Slot(h[m].parent, h[m].position))
            BY <3>1, <3>2 DEF ValuePlaceOf
        <3>4. QED
            BY <2>2, <3>1, <3>3
    <2>3. QED
        BY <2>1, <2>2
<1>7. lv[top] + 1 \in Nat /\ Ranked(rank, D, lv[top] + 1)
    BY LevelsRank
<1>8. TheWalk(D, stop, base, next)[n] \in W
    <2> HIDE DEF D, stop, base, next, rank, W
    <2>1. n \in D
        BY DEF D
    <2>2. QED
        BY <1>5, <1>6, <1>7, <2>1, WalkEnds
<1>9. QED
    <2> HIDE DEF D, V, W, stop, base, next, rank, IsUp
    <2>1. After(h, n) \in W
        BY <1>1, <1>3, <1>8
    <2>2. QED
        BY <2>1 DEF W

\* A search for a leaf ends in one, at a place it has.
LEMMA DescendIs ==
    ASSUME NEW h, NEW top, NEW lv, NEW S, Tree(h, top, lv, S),
           NEW n \in DOMAIN h,
           NEW passed
    PROVE  LeafPlaceOf(h, Descend(h, n, passed))
<1> DEFINE D == DOMAIN h
           Passed(m) == Cardinality({i \in DOMAIN h[m].values :
                                        h[m].values[i] \in passed})
           W == {s \in {Slot(m, i) : m \in D, i \in Nat} : LeafPlaceOf(h, s)}
           stop == {m \in D : h[m].leaf}
           base == [m \in D |-> Slot(m, Passed(m))]
           next == [m \in D |-> Child(h, m, Passed(m))]
           rank == UpRank(h, lv)
           IsDown(f) == f = [m \in D |-> IF h[m].leaf THEN Slot(m, Passed(m))
                                        ELSE f[Child(h, m, Passed(m))]]
           Walk(f) == IsWalk(f, D, stop, base, next)
<1>1. Descend(h, n, passed) = (CHOOSE f : IsDown(f))[n]
    <2>1. n # NoNode
        BY NodeIs DEF Tree
    <2>2. QED
        BY <2>1 DEF Descend
<1>2. ASSUME NEW m \in D PROVE Passed(m) \in 0..Count(h, m)
    <2>1. h[m].values \in Seq(Values) /\ Count(h, m) \in Nat
          /\ Count(h, m) = Len(h[m].values)
        BY NodeIs, CountIs DEF Tree
    <2>2. DOMAIN h[m].values = 1..Count(h, m)
        BY <2>1
    <2> DEFINE A == {i \in DOMAIN h[m].values : h[m].values[i] \in passed}
    <2>3. A \subseteq 1..Count(h, m)
        BY <2>2
    <2>4. IsFiniteSet(1..Count(h, m))
              /\ Cardinality(1..Count(h, m)) = Count(h, m)
        <3>1. PICK c \in Nat : c = Count(h, m)
            BY <2>1
        <3>2. IsFiniteSet(1..c) /\ Cardinality(1..c) = c
            BY FS_Interval
        <3>3. QED
            BY <3>1, <3>2
    <2> HIDE DEF A
    <2>5. IsFiniteSet(A) /\ Cardinality(A) <= Count(h, m)
        BY <2>3, <2>4, FS_Subset
    <2>6. Cardinality(A) \in Nat
        BY <2>5, FS_CardinalityType
    <2>7. Cardinality(A) \in 0..Count(h, m)
        BY <2>1, <2>5, <2>6
    <2>8. QED
        BY <2>7 DEF A
<1> HIDE DEF Passed
<1>3. ASSUME NEW f PROVE IsDown(f) <=> Walk(f)
    BY DEF IsWalk
<1>4. (CHOOSE f : IsDown(f)) = TheWalk(D, stop, base, next)
    <2>1. (CHOOSE f : Walk(f)) = TheWalk(D, stop, base, next)
        BY DEF TheWalk
    <2> HIDE DEF IsDown, Walk
    <2>2. (CHOOSE f : IsDown(f)) = (CHOOSE f : Walk(f))
        BY <1>3
    <2>3. QED
        BY <2>1, <2>2
<1>5. ASSUME NEW m \in D, m \notin stop
      PROVE  next[m] \in D /\ rank[next[m]] < rank[m]
    <2>1. PICK i \in 0..Count(h, m) : i = Passed(m)
        BY <1>2
    <2>2. PICK x \in D : x = next[m] /\ lv[x] + 1 = lv[m]
        <3>1. ~h[m].leaf
            BY <1>5
        <3>2. Child(h, m, i) \in DOMAIN h /\ lv[Child(h, m, i)] + 1 = lv[m]
            BY <3>1, ChildIs
        <3>3. QED
            BY <2>1, <3>2
    <2>3. lv[x] \in Nat
        BY <2>2 DEF Tree, Sized
    <2>4. QED
        BY <2>2, <2>3 DEF UpRank
<1>6. ASSUME NEW m \in D, m \in stop PROVE base[m] \in W
    <2>1. PICK i \in 0..Count(h, m) : i = Passed(m)
        BY <1>2
    <2>2. Count(h, m) \in Nat
        BY CountIs DEF Tree
    <2>3. i \in Nat /\ i <= Count(h, m)
        BY <2>1, <2>2
    <2>4. base[m] = Slot(m, i) /\ h[m].leaf
        BY <1>6, <2>1
    <2>5. LeafPlaceOf(h, Slot(m, i))
        BY <2>3, <2>4 DEF LeafPlaceOf
    <2>6. QED
        BY <2>3, <2>4, <2>5
<1>7. lv[top] + 1 \in Nat /\ Ranked(rank, D, lv[top] + 1)
    BY LevelsRank
<1>8. TheWalk(D, stop, base, next)[n] \in W
    <2> HIDE DEF D, stop, base, next, rank, W
    <2>1. n \in D
        BY DEF D
    <2>2. QED
        BY <1>5, <1>6, <1>7, <2>1, WalkEnds
<1>9. QED
    <2> HIDE DEF D, W, stop, base, next, rank, IsDown
    <2>1. Descend(h, n, passed) \in W
        BY <1>1, <1>4, <1>8
    <2>2. QED
        BY <2>1 DEF W

\* A place in a leaf or one with a value.
PlaceIn(h, s) == LeafPlaceOf(h, s) \/ ValuePlaceOf(h, s)

\* The fields of a slot.
LEMMA SlotIs ==
    ASSUME NEW n, NEW i
    PROVE  Slot(n, i).node = n /\ Slot(n, i).position = i
BY DEF Slot

\* ++ leads from a place, or from the one before a leaf, to a place.
LEMMA IncrementIs ==
    ASSUME NEW h, NEW top, NEW lv, NEW S, Tree(h, top, lv, S),
           NEW n \in DOMAIN h, NEW i \in Int, i + 1 >= 0,
           h[n].leaf \/ (0 <= i /\ i < Count(h, n))
    PROVE  PlaceIn(h, Increment(h, Slot(n, i)))
<1>1. Count(h, n) \in Nat
    BY CountIs DEF Tree
<1>2. CASE ~h[n].leaf
    <2>1. PICK j \in 0..Count(h, n) : j = i + 1
        BY <1>1, <1>2
    <2>2. PICK c \in DOMAIN h : c = Child(h, n, j)
        BY <1>2, ChildIs
    <2>3. PICK l : l = FirstLeaf(h, c)
        OBVIOUS
    <2>4. LeafOf(h, l)
        BY <2>3, FirstLeafIs
    <2>5. Increment(h, Slot(n, i)) = Slot(l, 0)
        BY <1>2, <2>1, <2>2, <2>3, SlotIs DEF Increment
    <2>6. 0 <= Count(h, l)
        BY <2>4, CountIs DEF Tree, LeafOf
    <2>7. PICK z \in Nat : z = 0
        OBVIOUS
    <2>8. LeafPlaceOf(h, Slot(l, z))
        BY <2>4, <2>6, <2>7 DEF LeafPlaceOf, LeafOf
    <2>9. QED
        BY <2>5, <2>7, <2>8 DEF PlaceIn
<1>3. CASE h[n].leaf /\ i + 1 < Count(h, n)
    <2>1. PICK j \in Nat : j = i + 1
        OBVIOUS
    <2>2. Increment(h, Slot(n, i)) = Slot(n, j)
        BY <1>3, <2>1, SlotIs DEF Increment
    <2>3. ValuePlaceOf(h, Slot(n, j))
        BY <1>3, <2>1 DEF ValuePlaceOf
    <2>4. QED
        BY <2>2, <2>3 DEF PlaceIn
<1>4. CASE h[n].leaf /\ ~(i + 1 < Count(h, n))
    <2>1. PICK a : a = After(h, n)
        OBVIOUS
    <2>2. a = NoSlot \/ ValuePlaceOf(h, a)
        BY <2>1, AfterIs
    <2>3. PICK j \in Nat : j = Count(h, n)
        BY <1>1
    <2>4. Increment(h, Slot(n, i)) = IF a = NoSlot THEN Slot(n, j) ELSE a
        BY <1>4, <2>1, <2>3, SlotIs DEF Increment, OrStay
    <2>5. LeafPlaceOf(h, Slot(n, j))
        BY <1>4, <2>3 DEF LeafPlaceOf
    <2>6. QED
        BY <2>2, <2>4, <2>5 DEF PlaceIn
<1>5. QED
    BY <1>2, <1>3, <1>4

\* -- leads from a value on an internal node to the last one on a leaf.
LEMMA DecrementIs ==
    ASSUME NEW h, NEW top, NEW lv, NEW S, Tree(h, top, lv, S),
           NEW n \in DOMAIN h, ~h[n].leaf, NEW i \in Nat, i < Count(h, n)
    PROVE  \E l \in DOMAIN h :
              h[l].leaf /\ Decrement(h, Slot(n, i)) = Slot(l, Count(h, l) - 1)
<1>1. Count(h, n) \in Nat
    BY CountIs DEF Tree
<1>2. PICK j \in 0..Count(h, n) : j = i
    BY <1>1
<1>3. PICK c \in DOMAIN h : c = Child(h, n, i)
    BY <1>2, ChildIs
<1>4. PICK l : l = LastLeaf(h, c)
    OBVIOUS
<1>5. LeafOf(h, l)
    BY <1>4, LastLeafIs
<1>6. Decrement(h, Slot(n, i)) = Slot(l, Count(h, l) - 1)
    BY <1>3, <1>4, SlotIs DEF Decrement
<1>7. QED
    BY <1>5, <1>6 DEF LeafOf

\* From a place in a leaf internal_last leads to a value or nothing.
LEMMA BoundIs ==
    ASSUME NEW h, NEW top, NEW lv, NEW S, Tree(h, top, lv, S), NEW passed,
           NEW n \in DOMAIN h,
           NEW s, s = InternalLast(h, Descend(h, n, passed))
    PROVE  s = NoSlot \/ ValuePlaceOf(h, s)
<1>1. PICK d : d = Descend(h, n, passed)
    OBVIOUS
<1>2. LeafPlaceOf(h, d)
    BY <1>1, DescendIs
<1>3. PICK l \in DOMAIN h, i \in Nat : d = Slot(l, i) /\ i <= Count(h, l)
    BY <1>2 DEF LeafPlaceOf
<1>4. d.node = l /\ d.position = i
    BY <1>3, SlotIs
<1>5. l # NoNode
    BY NodeIs DEF Tree
<1>6. CASE i = Count(h, l)
    <2>1. s = After(h, l)
        BY <1>1, <1>4, <1>5, <1>6 DEF InternalLast
    <2>2. QED
        BY <2>1, AfterIs
<1>7. CASE i # Count(h, l)
    <2>1. s = d
        BY <1>1, <1>4, <1>7 DEF InternalLast
    <2>2. i < Count(h, l)
        BY <1>3, <1>7, CountIs DEF Tree
    <2>3. QED
        BY <1>3, <2>1, <2>2 DEF ValuePlaceOf
<1>8. QED
    BY <1>6, <1>7

\* Searches give a value or nothing.
LEMMA BoundsAre ==
    ASSUME NEW h, NEW top, NEW lv, NEW S, Tree(h, top, lv, S), NEW k
    PROVE  /\ LowerBound(h, top, k) = NoSlot
                 \/ ValuePlaceOf(h, LowerBound(h, top, k))
           /\ UpperBound(h, top, k) = NoSlot
                 \/ ValuePlaceOf(h, UpperBound(h, top, k))
           /\ Find(h, top, k) = NoSlot \/ ValuePlaceOf(h, Find(h, top, k))
           /\ LeafPlaceOf(h, Locate(h, top, k))
<1>1. top \in DOMAIN h
    BY DEF Tree
<1>2. PICK passed : passed = {v \in Values : KeyOf[v] < k}
    OBVIOUS
<1>3. PICK most : most = {v \in Values : KeyOf[v] <= k}
    OBVIOUS
<1>4. PICK s : s = LowerBound(h, top, k)
    OBVIOUS
<1>5. s = InternalLast(h, Descend(h, top, passed))
    BY <1>2, <1>4 DEF LowerBound, Locate
<1>6. s = NoSlot \/ ValuePlaceOf(h, s)
    BY <1>1, <1>5, BoundIs
<1>7. PICK t : t = UpperBound(h, top, k)
    OBVIOUS
<1>8. t = InternalLast(h, Descend(h, top, most))
    BY <1>3, <1>7 DEF UpperBound
<1>9. t = NoSlot \/ ValuePlaceOf(h, t)
    BY <1>1, <1>8, BoundIs
<1>10. Find(h, top, k) = NoSlot \/ Find(h, top, k) = s
    BY <1>4 DEF Find
<1>11. Locate(h, top, k) = Descend(h, top, passed)
    BY <1>2 DEF Locate
<1>12. LeafPlaceOf(h, Locate(h, top, k))
    BY <1>1, <1>11, DescendIs
<1>13. QED
    BY <1>4, <1>6, <1>7, <1>9, <1>10, <1>12

(***************************************************************************)
(* Sequences that hold each member of a set once                           *)
(***************************************************************************)

(***************************************************************************)
(* Sequences that name each member of a set once.                          *)
(***************************************************************************)

\* s holds each member of A once.
Enum(s, A) ==
    /\ s \in Seq(A)
    /\ Distinct(s)
    /\ \A x \in A : \E i \in 1..Len(s) : s[i] = x

\* No common member.
Disjoint(A, B) == \A x \in A : x \notin B

\* Nothing enumerates the empty set.
LEMMA EnumNone == Enum(<<>>, {})
BY DEF Enum, Distinct

\* One member enumerates a set of one.
LEMMA EnumOne ==
    ASSUME NEW x
    PROVE  Enum(<<x>>, {x})
<1>1. <<x>> \in Seq({x}) /\ Len(<<x>>) = 1 /\ <<x>>[1] = x
    OBVIOUS
<1>2. QED
    BY <1>1 DEF Enum, Distinct

\* One sequence after the other, of sets without a common member.
LEMMA EnumConcat ==
    ASSUME NEW s, NEW A, Enum(s, A), NEW t, NEW B, Enum(t, B), Disjoint(A, B),
           NEW u, u = s \o t, NEW C, C = A \cup B
    PROVE  Enum(u, C)
<1>1. s \in Seq(C) /\ t \in Seq(C)
    BY DEF Enum
<1>2. PICK a \in Nat : a = Len(s)
    BY DEF Enum
<1>3. PICK b \in Nat : b = Len(t)
    BY DEF Enum
<1>4. u \in Seq(C)
    BY <1>1, ConcatIs
<1>5. Len(u) = a + b
    BY <1>1, <1>2, <1>3, ConcatIs
<1>6. \A j \in 1..a : u[j] = s[j]
    BY <1>1, <1>2, ConcatIs
<1>7. \A j \in (a + 1)..(a + b) : u[j] = t[j - a]
    BY <1>1, <1>2, <1>3, ConcatIs
<1>8. \A j \in 1..a : s[j] \in A
    BY <1>2 DEF Enum
<1>9. \A j \in 1..b : t[j] \in B
    BY <1>3 DEF Enum
<1>10. ASSUME NEW i \in 1..(a + b), NEW j \in 1..(a + b), u[i] = u[j]
       PROVE  i = j
    <2>1. CASE i <= a /\ j <= a
        <3>1. i \in 1..a /\ j \in 1..a
            BY <2>1
        <3>2. s[i] = s[j]
            BY <1>6, <1>10, <3>1
        <3>3. QED
            BY <1>2, <3>1, <3>2 DEF Enum, Distinct
    <2>2. CASE i > a /\ j > a
        <3>1. /\ i \in (a + 1)..(a + b) /\ j \in (a + 1)..(a + b)
              /\ i - a \in 1..b /\ j - a \in 1..b
            BY <1>2, <1>3, <2>2
        <3>2. t[i - a] = t[j - a]
            BY <1>7, <1>10, <3>1
        <3>3. i - a = j - a
            BY <1>3, <3>1, <3>2 DEF Enum, Distinct
        <3>4. QED
            BY <1>2, <3>3
    <2>3. ASSUME NEW x \in 1..a, NEW y \in (a + 1)..(a + b) PROVE u[x] # u[y]
        <3>1. y - a \in 1..b
            BY <1>2, <1>3
        <3>2. u[x] \in A /\ u[y] \in B
            BY <1>6, <1>7, <1>8, <1>9, <3>1
        <3>3. QED
            BY <3>2 DEF Disjoint
    <2>4. CASE i <= a /\ j > a
        <3>1. i \in 1..a /\ j \in (a + 1)..(a + b)
            BY <1>2, <1>3, <2>4
        <3>2. QED
            BY <1>10, <2>3, <3>1
    <2>5. CASE i > a /\ j <= a
        <3>1. j \in 1..a /\ i \in (a + 1)..(a + b)
            BY <1>2, <1>3, <2>5
        <3>2. QED
            BY <1>10, <2>3, <3>1
    <2>6. QED
        BY <1>2, <2>1, <2>2, <2>4, <2>5
<1>11. ASSUME NEW x \in C PROVE \E i \in 1..(a + b) : u[i] = x
    <2>1. CASE x \in A
        <3>1. PICK i \in 1..a : s[i] = x
            BY <1>2, <2>1 DEF Enum
        <3>2. i \in 1..(a + b)
            BY <1>2, <1>3
        <3>3. QED
            BY <1>6, <3>1, <3>2
    <2>2. CASE x \in B
        <3>1. PICK i \in 1..b : t[i] = x
            BY <1>3, <2>2 DEF Enum
        <3>2. PICK j \in (a + 1)..(a + b) : j = i + a
            BY <1>2, <1>3
        <3>3. j \in 1..(a + b) /\ j - a = i
            BY <1>2, <1>3, <3>2
        <3>4. u[j] = x
            BY <1>7, <3>1, <3>2, <3>3
        <3>5. QED
            BY <3>3, <3>4
    <2>3. QED
        BY <2>1, <2>2
<1>12. Distinct(u)
    BY <1>5, <1>10 DEF Distinct
<1>13. QED
    BY <1>4, <1>5, <1>11, <1>12 DEF Enum

\* As many as the set has members.
LEMMA EnumCounts ==
    ASSUME NEW s, NEW A, Enum(s, A)
    PROVE  IsFiniteSet(A) /\ Cardinality(A) = Len(s)
<1>1. PICK n \in Nat : n = Len(s)
    BY DEF Enum
<1>2. s \in [1..n -> A]
    BY <1>1 DEF Enum
<1>3. /\ \A i, j \in 1..n : s[i] = s[j] => i = j
      /\ \A x \in A : \E i \in 1..n : s[i] = x
    BY <1>1 DEF Enum, Distinct
<1>4. s \in Bijection(1..n, A)
    BY <1>2, <1>3 DEF Bijection, Injection, Surjection, IsInjective
<1>5. ExistsBijection(1..n, A)
    BY <1>4 DEF ExistsBijection
<1>6. PICK one \in Int : one = 1
    OBVIOUS
<1>7. IsFiniteSet(one..n)
          /\ Cardinality(one..n) = IF one > n THEN 0 ELSE n - one + 1
    BY FS_Interval
<1>8. IsFiniteSet(1..n) /\ Cardinality(1..n) = n
    BY <1>6, <1>7
<1>9. QED
    BY <1>1, <1>5, <1>8, FS_Bijection

(***************************************************************************)
(* Rows: one sequence after the other.                                     *)
(***************************************************************************)

\* s[i] is base with the first i pieces behind it.
IsRow(s, L, base, piece) ==
    s = [i \in 0..L |-> IF i = 0 THEN base ELSE s[i - 1] \o piece[i]]

\* The row, as the operators of BTreeNodes choose it.
TheRow(L, base, piece) == CHOOSE s : IsRow(s, L, base, piece)

\* Places by their number.
ByNumber(L) == [i \in 0..L |-> i]

\* Numbers rank themselves.
LEMMA NumbersRank ==
    ASSUME NEW L \in Nat
    PROVE  L + 1 \in Nat /\ Ranked(ByNumber(L), 0..L, L + 1)
BY DEF Ranked, ByNumber

\* There is such a row.
LEMMA RowIs ==
    ASSUME NEW L \in Nat, NEW V, NEW base \in Seq(V),
           NEW piece, \A i \in 1..L : piece[i] \in Seq(V)
    PROVE  IsRow(TheRow(L, base, piece), L, base, piece)
<1> DEFINE Row(s) == IsRow(s, L, base, piece)
           I == 0..L
           Q == Seq(V)
           rank == ByNumber(L)
           G == [i \in I |-> [f \in Maps(I, Q) |->
                    IF i = 0 THEN base ELSE f[i - 1] \o piece[i]]]
<1>1. \A i \in I, f \in Maps(I, Q) :
         G[i][f] = IF i = 0 THEN base ELSE f[i - 1] \o piece[i]
    OBVIOUS
<1> HIDE DEF G
<1>2. \A i \in I : i # 0 => i - 1 \in I /\ i \in 1..L
    OBVIOUS
<1>3. \A i \in I : rank[i] = i
    BY DEF ByNumber
<1>4. \A i \in I : i \in Int
    OBVIOUS
<1>5. base \in Q /\ \A i \in 1..L : piece[i] \in Q
    OBVIOUS
<1>6. \A p, q \in Q : p \o q \in Q
    OBVIOUS
<1>7. L + 1 \in Nat /\ Ranked(rank, I, L + 1)
    BY NumbersRank
<1> HIDE DEF I, Q, rank
<1>8. ASSUME NEW i \in I, NEW f \in Maps(I, Q) PROVE G[i][f] \in Q
    <2>1. CASE i = 0
        BY <1>1, <1>5, <2>1
    <2>2. CASE i # 0
        <3>1. f[i - 1] \in Q
            BY <1>2, <2>2 DEF Maps
        <3>2. piece[i] \in Q
            BY <1>2, <1>5, <2>2
        <3>3. QED
            BY <1>1, <1>6, <2>2, <3>1, <3>2
    <2>3. QED
        BY <2>1, <2>2
<1>9. ASSUME NEW i \in I, NEW f \in Maps(I, Q), NEW g \in Maps(I, Q),
             \A e \in I : rank[e] < rank[i] => f[e] = g[e]
      PROVE  G[i][f] = G[i][g]
    <2>1. CASE i = 0
        BY <1>1, <2>1
    <2>2. CASE i # 0
        <3>1. i - 1 \in I /\ rank[i - 1] < rank[i]
            BY <1>2, <1>3, <1>4, <2>2
        <3>2. f[i - 1] = g[i - 1]
            BY <1>9, <3>1
        <3>3. QED
            BY <1>1, <2>2, <3>2
    <2>3. QED
        BY <2>1, <2>2
<1>10. Rules(G, I, Q, rank)
    BY <1>8, <1>9 DEF Rules
<1>11. PICK f \in Maps(I, Q) : \A i \in I : f[i] = G[i][f]
    <2>1. Q # {}
        BY <1>5
    <2>2. QED
        BY <1>7, <1>10, <2>1, Recursion
<1>12. Row(f)
    <2>1. f = [i \in I |-> f[i]]
        BY <1>11 DEF Maps
    <2>2. \A i \in I : f[i] = IF i = 0 THEN base ELSE f[i - 1] \o piece[i]
        BY <1>1, <1>11
    <2>3. QED
        BY <2>1, <2>2 DEF IsRow, I
<1> HIDE DEF Row
<1>13. Row(CHOOSE s : Row(s))
    BY <1>12
<1>14. QED
    BY <1>13 DEF Row, TheRow

\* u is t behind s.
Joined(s, t, u) == u = s \o t

\* The first of a row and the ones after it.
LEMMA RowValue ==
    ASSUME NEW L \in Nat, NEW base, NEW piece, NEW s, IsRow(s, L, base, piece)
    PROVE  /\ s[0] = base
           /\ \A i \in 1..L : Joined(s[i - 1], piece[i], s[i])
<1>1. \A i \in 0..L : s[i] = IF i = 0 THEN base ELSE s[i - 1] \o piece[i]
    BY DEF IsRow
<1>2. 0 \in 0..L /\ \A i \in 1..L : i \in 0..L /\ i # 0
    OBVIOUS
<1>3. QED
    BY <1>1, <1>2 DEF Joined

\* A row of sequences over V ends in one.
LEMMA RowIsSeq ==
    ASSUME NEW L \in Nat, NEW V, NEW base \in Seq(V),
           NEW piece, \A i \in 1..L : piece[i] \in Seq(V)
    PROVE  TheRow(L, base, piece)[L] \in Seq(V)
<1> DEFINE s == TheRow(L, base, piece)
<1>1. IsRow(s, L, base, piece)
    BY RowIs
<1> HIDE DEF s
<1>2. /\ s[0] = base
      /\ \A i \in 1..L : Joined(s[i - 1], piece[i], s[i])
    BY <1>1, RowValue
<1> DEFINE P == {i \in 0..L : s[i] \in Seq(V)}
<1>3. \A p, q \in Seq(V) : \A u : Joined(p, q, u) => u \in Seq(V)
    BY DEF Joined
<1>4. ASSUME NEW i \in 0..L,
             \A e \in 0..L : ByNumber(L)[e] < ByNumber(L)[i] => e \in P
      PROVE  i \in P
    <2>1. CASE i = 0
        BY <1>2, <2>1
    <2>2. CASE i # 0
        <3>1. i - 1 \in 0..L /\ i \in 1..L
            BY <2>2
        <3>2. i - 1 \in P
            BY <1>4, <3>1 DEF ByNumber
        <3>3. Joined(s[i - 1], piece[i], s[i])
            BY <1>2, <3>1
        <3>4. s[i - 1] \in Seq(V) /\ piece[i] \in Seq(V)
            BY <3>1, <3>2
        <3>5. QED
            BY <1>3, <3>3, <3>4
    <2>3. QED
        BY <2>1, <2>2
<1> HIDE DEF P
<1>5. 0..L \subseteq P
    <2> DEFINE I == 0..L
    <2>1. Ranked(ByNumber(L), I, L + 1)
        BY NumbersRank
    <2>2. ASSUME NEW i \in I,
                 \A e \in I : ByNumber(L)[e] < ByNumber(L)[i] => e \in P
          PROVE  i \in P
        BY <1>4, <2>2
    <2> HIDE DEF I
    <2>3. I \subseteq P
        BY <2>1, <2>2, RankInduction
    <2>4. QED
        BY <2>3 DEF I
<1>6. QED
    BY <1>5 DEF P, s

\* What enumerates the parts of a set one after the other enumerates the set.
LEMMA RowEnumerates ==
    ASSUME NEW L \in Nat, NEW A, NEW base, Enum(base, A[0]),
           NEW piece, \A i \in 1..L : Enum(piece[i], A[i]),
           \A i, j \in 0..L : i # j => Disjoint(A[i], A[j]),
           NEW C, \A x : x \in C <=> \E i \in 0..L : x \in A[i]
    PROVE  Enum(TheRow(L, base, piece)[L], C)
<1> DEFINE s == TheRow(L, base, piece)
           Upto(i) == {x \in C : \E j \in 0..i : x \in A[j]}
<1>1. IsRow(s, L, base, piece)
    <2>1. A[0] \subseteq C /\ \A i \in 1..L : A[i] \subseteq C
        <3>1. 0 \in 0..L /\ \A i \in 1..L : i \in 0..L
            OBVIOUS
        <3>2. \A i \in 0..L : A[i] \subseteq C
            OBVIOUS
        <3>3. QED
            BY <3>1, <3>2
    <2>2. base \in Seq(C)
        BY <2>1 DEF Enum
    <2>3. ASSUME NEW i \in 1..L PROVE piece[i] \in Seq(C)
        <3>1. piece[i] \in Seq(A[i]) /\ A[i] \subseteq C
            BY <2>1 DEF Enum
        <3>2. QED
            BY <3>1
    <2>4. QED
        BY <2>2, <2>3, RowIs
<1> HIDE DEF s
<1>2. /\ s[0] = base
      /\ \A i \in 1..L : Joined(s[i - 1], piece[i], s[i])
    BY <1>1, RowValue
<1> DEFINE P == {i \in 0..L : Enum(s[i], Upto(i))}
<1>3. ASSUME NEW i \in 0..L,
             \A e \in 0..L : ByNumber(L)[e] < ByNumber(L)[i] => e \in P
      PROVE  i \in P
    <2>1. CASE i = 0
        <3>1. Upto(i) = A[0]
            <4>1. 0 \in 0..L /\ \A j \in 0..i : j = 0
                BY <2>1
            <4>2. QED
                BY <2>1, <4>1
        <3> HIDE DEF Upto
        <3>2. Enum(s[i], Upto(i))
            BY <1>2, <2>1, <3>1
        <3>3. QED
            BY <3>2
    <2>2. CASE i # 0
        <3>1. PICK e \in 0..L : e = i - 1
            BY <2>2
        <3>2. i \in 1..L
            BY <2>2
        <3>3. e \in P
            <4>1. ByNumber(L)[e] < ByNumber(L)[i]
                BY <3>1 DEF ByNumber
            <4>2. QED
                BY <1>3, <4>1
        <3>4. Joined(s[e], piece[i], s[i])
            BY <1>2, <3>1, <3>2
        <3>5. Upto(i) = Upto(e) \cup A[i]
            <4>1. \A j \in 0..i : j = i \/ j \in 0..e
                BY <3>1
            <4>2. i \in 0..i /\ \A j \in 0..e : j \in 0..i
                BY <3>1
            <4>3. QED
                BY <4>1, <4>2
        <3>6. Disjoint(Upto(e), A[i])
            <4>1. \A j \in 0..e : j \in 0..L /\ j # i
                BY <3>1
            <4>2. QED
                BY <4>1 DEF Disjoint
        <3>7. Enum(s[e], Upto(e)) /\ Enum(piece[i], A[i])
            BY <3>2, <3>3
        <3> HIDE DEF Upto
        <3>8. Enum(s[i], Upto(i))
            BY <3>4, <3>5, <3>6, <3>7, EnumConcat DEF Joined
        <3>9. QED
            BY <3>8
    <2>3. QED
        BY <2>1, <2>2
<1> HIDE DEF P
<1>4. 0..L \subseteq P
    <2> DEFINE I == 0..L
    <2>1. Ranked(ByNumber(L), I, L + 1)
        BY NumbersRank
    <2>2. ASSUME NEW i \in I,
                 \A e \in I : ByNumber(L)[e] < ByNumber(L)[i] => e \in P
          PROVE  i \in P
        BY <1>3, <2>2
    <2> HIDE DEF I
    <2>3. I \subseteq P
        BY <2>1, <2>2, RankInduction
    <2>4. QED
        BY <2>3 DEF I
<1>5. Enum(s[L], Upto(L))
    <2>1. L \in 0..L
        OBVIOUS
    <2>2. QED
        BY <1>4, <2>1 DEF P
<1>6. Upto(L) = C
    OBVIOUS
<1> HIDE DEF Upto
<1>7. QED
    BY <1>5, <1>6 DEF s

(***************************************************************************)
(* The nodes in the order of a walk                                        *)
(***************************************************************************)

(***************************************************************************)
(* Which nodes are above which.                                            *)
(***************************************************************************)

\* anc[x] are the nodes from x up to the root.
Ancestry(h, top, anc) ==
    \A x \in DOMAIN h :
       /\ anc[x] \subseteq DOMAIN h
       /\ \A m : m \in anc[x] <=> m = x \/ (x # top /\ m \in anc[h[x].parent])

\* What the proofs below need to know of levels.
LEMMA LevelsAre ==
    ASSUME NEW h, NEW top, NEW lv, NEW S, Tree(h, top, lv, S),
           NEW x \in DOMAIN h
    PROVE  /\ lv[x] \in Nat
           /\ DownRank(h, top, lv)[x] = lv[top] - lv[x]
           /\ UpRank(h, lv)[x] = lv[x]
           /\ lv[top] \in Nat
           /\ x # top => /\ h[x].parent \in DOMAIN h
                         /\ lv[h[x].parent] = lv[x] + 1
                         /\ DownRank(h, top, lv)[h[x].parent] < DownRank(h,
                               top, lv)[x]
<1>1. lv[x] \in Nat
    BY DEF Tree, Sized
<1>2. lv[top] \in Nat
    BY DEF Tree, Sized
<1>3. DownRank(h, top, lv)[x] = lv[top] - lv[x] /\ UpRank(h, lv)[x] = lv[x]
    BY DEF DownRank, UpRank
<1>4. ASSUME x # top
      PROVE  /\ h[x].parent \in DOMAIN h
             /\ lv[h[x].parent] = lv[x] + 1
             /\ DownRank(h, top, lv)[h[x].parent] < DownRank(h, top, lv)[x]
    <2>1. PICK p \in DOMAIN h : p = h[x].parent /\ lv[p] = lv[x] + 1
        BY <1>4, ParentIs
    <2>2. DownRank(h, top, lv)[p] = lv[top] - lv[p]
        BY DEF DownRank
    <2>3. lv[top] - lv[p] < lv[top] - lv[x]
        BY <1>1, <1>2, <2>1
    <2>4. QED
        BY <1>3, <2>1, <2>2, <2>3
<1>5. QED
    BY <1>1, <1>2, <1>3, <1>4

\* Each node has ancestors.
LEMMA AncestryIs ==
    ASSUME NEW h, NEW top, NEW lv, NEW S, Tree(h, top, lv, S)
    PROVE  \E anc : Ancestry(h, top, anc)
<1> DEFINE D == DOMAIN h
           V == SUBSET D
           rank == DownRank(h, top, lv)
           G == [x \in D |-> [f \in Maps(D, V) |->
                    {m \in D : m = x \/ (x # top /\ m \in f[h[x].parent])}]]
<1>1. \A x \in D, f \in Maps(D, V) :
         G[x][f] = {m \in D : m = x \/ (x # top /\ m \in f[h[x].parent])}
    OBVIOUS
<1> HIDE DEF G
<1>2. ASSUME NEW x \in D, x # top
      PROVE  h[x].parent \in D /\ rank[h[x].parent] < rank[x]
    BY <1>2, LevelsAre
<1>3. lv[top] + 1 \in Nat /\ Ranked(rank, D, lv[top] + 1)
    BY LevelsRank
<1> HIDE DEF rank
<1>4. Rules(G, D, V, rank)
    <2>1. ASSUME NEW x \in D, NEW f \in Maps(D, V) PROVE G[x][f] \in V
        BY <1>1
    <2>2. ASSUME NEW x \in D, NEW f \in Maps(D, V), NEW g \in Maps(D, V),
                 \A e \in D : rank[e] < rank[x] => f[e] = g[e]
          PROVE  G[x][f] = G[x][g]
        <3>1. x # top => f[h[x].parent] = g[h[x].parent]
            BY <1>2, <2>2
        <3>2. G[x][f] = {m \in D : m = x \/ (x # top /\ m \in f[h[x].parent])}
            BY <1>1
        <3>3. G[x][g] = {m \in D : m = x \/ (x # top /\ m \in g[h[x].parent])}
            BY <1>1
        <3>4. QED
            BY <3>1, <3>2, <3>3
    <2> HIDE DEF D, V
    <2>3. QED
        BY <2>1, <2>2 DEF Rules
<1>5. V # {}
    OBVIOUS
<1>6. PICK f \in Maps(D, V) : \A x \in D : f[x] = G[x][f]
    <2> HIDE DEF D, V
    <2>1. QED
        BY <1>3, <1>4, <1>5, Recursion
<1>7. ASSUME NEW x \in D
      PROVE  /\ f[x] \subseteq D
             /\ \A m : m \in f[x] <=> m = x
                   \/ (x # top /\ m \in f[h[x].parent])
    <2>1. f[x] = {m \in D : m = x \/ (x # top /\ m \in f[h[x].parent])}
        BY <1>1, <1>6
    <2>2. x # top => f[h[x].parent] \subseteq D
        BY <1>2, <1>6 DEF Maps
    <2>3. QED
        BY <2>1, <2>2
<1>8. QED
    BY <1>7 DEF Ancestry

\* Above a node there is one node on each level, which is reached through one
\* of its children.
LEMMA AncestorsAre ==
    ASSUME NEW h, NEW top, NEW lv, NEW S, Tree(h, top, lv, S),
           NEW anc, Ancestry(h, top, anc), NEW x \in DOMAIN h
    PROVE  /\ top \in anc[x]
           /\ \A m \in anc[x] : m = x \/ lv[x] < lv[m]
           /\ \A m, n \in anc[x] : lv[m] = lv[n] => m = n
           /\ \A m \in anc[x] : m = x \/ \E c \in anc[x] : c # top
                 /\ h[c].parent = m
<1> DEFINE D == DOMAIN h
           rank == DownRank(h, top, lv)
           Top(y) == top \in anc[y]
           Above(y) == \A m \in anc[y] : m = y \/ lv[y] < lv[m]
           Alone(y) == \A m, n \in anc[y] : lv[m] = lv[n] => m = n
           Through(y) == \A m \in anc[y] :
                            m = y \/ \E c \in anc[y] : c # top
                                /\ h[c].parent = m
           P == {y \in D : Top(y) /\ Above(y) /\ Alone(y) /\ Through(y)}
<1>1. ASSUME NEW y \in D, \A e \in D : rank[e] < rank[y] => e \in P
      PROVE  y \in P
    <2>1. /\ anc[y] \subseteq D
          /\ \A m : m \in anc[y] <=> m = y
                \/ (y # top /\ m \in anc[h[y].parent])
        BY DEF Ancestry
    <2>2. CASE y = top
        <3>1. anc[y] = {y}
            BY <2>1, <2>2
        <3>2. QED
            BY <2>2, <3>1
    <2>3. CASE y # top
        <3>1. PICK p \in D : p = h[y].parent
            BY <2>3, LevelsAre
        <3>2. p \in P
            BY <1>1, <2>3, <3>1, LevelsAre
        <3>3. lv[p] = lv[y] + 1
            BY <2>3, <3>1, LevelsAre
        <3>4. \A m : m \in anc[y] <=> m = y \/ m \in anc[p]
            BY <2>1, <2>3, <3>1
        <3>5. \A m \in D : lv[m] \in Nat
            BY LevelsAre
        <3>6. anc[p] \subseteq D
            BY DEF Ancestry
        <3>7. Top(y)
            BY <3>2, <3>4
        <3>8. \A m \in anc[p] : lv[y] < lv[m]
            <4>1. \A m \in anc[p] : m = p \/ lv[p] < lv[m]
                BY <3>2
            <4>2. QED
                BY <3>3, <3>5, <3>6, <4>1
        <3>9. Above(y)
            BY <3>4, <3>8
        <3>10. Alone(y)
            <4>1. \A m, n \in anc[p] : lv[m] = lv[n] => m = n
                BY <3>2
            <4>2. \A m \in anc[p] : lv[m] # lv[y]
                BY <3>5, <3>6, <3>8
            <4>3. QED
                BY <3>4, <4>1, <4>2
        <3>11. Through(y)
            <4>1. \A m \in anc[p] : m = p \/ \E c \in anc[p] : c # top
                      /\ h[c].parent = m
                BY <3>2
            <4>2. y \in anc[y] /\ anc[p] \subseteq anc[y]
                BY <3>4
            <4>3. QED
                BY <2>3, <3>1, <3>4, <4>1, <4>2
        <3> HIDE DEF Top, Above, Alone, Through
        <3>12. QED
            BY <3>7, <3>9, <3>10, <3>11
    <2>4. QED
        BY <2>2, <2>3
<1>2. Ranked(rank, D, lv[top] + 1)
    BY LevelsRank
<1> HIDE DEF P, rank, D
<1>3. D \subseteq P
    BY <1>1, <1>2, RankInduction
<1>4. x \in P
    BY <1>3 DEF D
<1>5. QED
    BY <1>4 DEF P

\* The nodes below m are m and those below one of its children.
LEMMA BelowIs ==
    ASSUME NEW h, NEW top, NEW lv, NEW S, Tree(h, top, lv, S),
           NEW anc, Ancestry(h, top, anc), NEW x \in DOMAIN h,
           NEW m \in DOMAIN h
    PROVE  /\ m \in anc[x] <=>
                 m = x \/ \E i \in 1..Len(h[m].children) :
                     h[m].children[i] \in anc[x]
           /\ \A i, j \in 1..Len(h[m].children) :
                 h[m].children[i] \in anc[x] /\ h[m].children[j] \in anc[x]
                     => i = j
           /\ \A i \in 1..Len(h[m].children) : h[m].children[i] \in anc[x]
                 => m # x
<1>1. /\ \A y \in anc[x] : y = x \/ lv[x] < lv[y]
      /\ \A y, z \in anc[x] : lv[y] = lv[z] => y = z
    BY AncestorsAre
<1>2. \A y \in anc[x] : y = x \/ \E c \in anc[x] : c # top /\ h[c].parent = y
    BY AncestorsAre
<1>3. Children(h, top, lv, m)
    BY DEF Tree
<1>4. lv[m] \in Nat /\ lv[x] \in Nat
    BY LevelsAre
<1>5. ASSUME NEW i \in 1..Len(h[m].children)
      PROVE  /\ h[m].children[i] \in DOMAIN h /\ h[m].children[i] # top
             /\ h[h[m].children[i]].parent = m
             /\ h[h[m].children[i]].position = i - 1
             /\ lv[h[m].children[i]] + 1 = lv[m]
             /\ lv[h[m].children[i]] \in Nat
    <2>1. /\ h[m].children[i] \in DOMAIN h /\ h[m].children[i] # top
          /\ h[h[m].children[i]].parent = m
          /\ h[h[m].children[i]].position = i - 1
          /\ lv[h[m].children[i]] + 1 = lv[m]
        BY <1>3 DEF Children
    <2>2. lv[h[m].children[i]] \in Nat
        BY <2>1, LevelsAre
    <2>3. QED
        BY <2>1, <2>2
<1>6. ASSUME m \in anc[x], m # x
      PROVE  \E i \in 1..Len(h[m].children) : h[m].children[i] \in anc[x]
    <2>1. PICK c \in anc[x] : c # top /\ h[c].parent = m
        BY <1>2, <1>6
    <2>2. c \in DOMAIN h
        BY DEF Ancestry
    <2>3. Placed(h, top, S, c)
        BY <2>2 DEF Tree
    <2>4. PICK i \in 1..Len(h[m].children) : h[m].children[i] = c
        BY <2>1, <2>3 DEF Placed
    <2>5. QED
        BY <2>1, <2>4
<1>7. ASSUME NEW c \in DOMAIN h, c # top, h[c].parent = m, c \in anc[x],
             lv[c] + 1 = lv[m]
      PROVE  m \in anc[x] /\ m # x
    <2> DEFINE T == {y \in DOMAIN h : c \in anc[y] => m \in anc[y]}
               rank == DownRank(h, top, lv)
    <2>1. ASSUME NEW y \in DOMAIN h, \A e \in DOMAIN h : rank[e] < rank[y]
              => e \in T
          PROVE  y \in T
        <3>1. \A z : z \in anc[y] <=> z = y
                  \/ (y # top /\ z \in anc[h[y].parent])
            BY DEF Ancestry
        <3>2. CASE c = y
            <4>1. m \in anc[m]
                BY DEF Ancestry
            <4>2. m \in anc[y]
                BY <1>7, <3>1, <3>2, <4>1
            <4>3. QED
                BY <4>2
        <3>3. CASE c # y /\ c \in anc[y]
            <4>1. y # top /\ c \in anc[h[y].parent]
                BY <3>1, <3>3
            <4>2. h[y].parent \in T
                BY <2>1, <4>1, LevelsAre
            <4>3. QED
                BY <3>1, <4>1, <4>2
        <3>4. QED
            BY <3>2, <3>3
    <2>2. Ranked(rank, DOMAIN h, lv[top] + 1)
        BY LevelsRank
    <2> HIDE DEF T, rank
    <2>3. DOMAIN h \subseteq T
        BY <2>1, <2>2, RankInduction
    <2>4. m \in anc[x]
        BY <1>7, <2>3 DEF T
    <2>5. lv[c] \in Nat /\ (c = x \/ lv[x] < lv[c])
        BY <1>1, <1>7, LevelsAre
    <2>6. lv[x] < lv[m]
        BY <1>4, <1>7, <2>5
    <2>7. QED
        BY <1>4, <2>4, <2>6
<1>8. ASSUME NEW i \in 1..Len(h[m].children), h[m].children[i] \in anc[x]
      PROVE  m \in anc[x] /\ m # x
    BY <1>5, <1>7, <1>8
<1>9. ASSUME NEW i \in 1..Len(h[m].children), NEW j \in 1..Len(h[m].children),
             h[m].children[i] \in anc[x], h[m].children[j] \in anc[x]
      PROVE  i = j
    <2>1. PICK c \in DOMAIN h : c = h[m].children[i]
        BY <1>5
    <2>2. PICK d \in DOMAIN h : d = h[m].children[j]
        BY <1>5
    <2>3. lv[c] + 1 = lv[m] /\ lv[d] + 1 = lv[m] /\ lv[c] \in Nat
              /\ lv[d] \in Nat
        BY <1>5, <2>1, <2>2
    <2>4. lv[c] = lv[d]
        BY <2>3
    <2>5. c = d
        BY <1>1, <1>9, <2>1, <2>2, <2>4
    <2>6. h[c].position = i - 1 /\ h[d].position = j - 1
        BY <1>5, <2>1, <2>2
    <2>7. i - 1 = j - 1
        BY <2>5, <2>6
    <2>8. QED
        BY <2>7
<1>10. m = x => m \in anc[x]
    BY DEF Ancestry
<1>11. QED
    BY <1>6, <1>8, <1>9, <1>10

(***************************************************************************)
(* The walk of internal_clear: every node once.                            *)
(***************************************************************************)

\* What the walk f found below the children of m.
FromKids(h, m, f) == [i \in 1..Len(h[m].children) |-> f[h[m].children[i]]]

\* The nodes below m, as Nodes collects them: m and what the walk f found below
\* each child.
NodesOf(h, m, f) ==
    TheRow(Len(h[m].children), <<m>>, FromKids(h, m, f))[Len(h[m].children)]

\* f collects the nodes below each node.
IsNodes(h, f) == f = [m \in DOMAIN h |-> NodesOf(h, m, f)]

\* NodesOf is the expression that Nodes is built of.
LEMMA NodesOfIs ==
    ASSUME NEW h, NEW m, NEW f
    PROVE  NodesOf(h, m, f) =
             (CHOOSE s : s = [i \in 0..Len(h[m].children) |->
                                IF i = 0 THEN <<m>>
                                ELSE s[i - 1] \o f[h[m].children[i]]]
                     )[Len(h[m].children)]
<1> DEFINE L == Len(h[m].children)
           c == h[m].children
           piece == FromKids(h, m, f)
           Some(s) ==
               s = [i \in 0..L |-> IF i = 0 THEN <<m>>
                   ELSE s[i - 1] \o f[c[i]]]
           Row(s) ==
               s = [i \in 0..L |-> IF i = 0 THEN <<m>>
                   ELSE s[i - 1] \o piece[i]]
<1>1. \A i \in 1..L : piece[i] = f[c[i]]
    BY DEF FromKids
<1> HIDE DEF c, piece
<1>2. ASSUME NEW s PROVE Some(s) <=> Row(s)
    <2>1. ASSUME NEW i \in 0..L
          PROVE  (IF i = 0 THEN <<m>> ELSE s[i - 1] \o f[c[i]])
                    = IF i = 0 THEN <<m>> ELSE s[i - 1] \o piece[i]
        <3>1. CASE i = 0
            BY <3>1
        <3>2. CASE i # 0
            <4>1. piece[i] = f[c[i]]
                BY <1>1, <3>2
            <4>2. QED
                BY <3>2, <4>1
        <3>3. QED
            BY <3>1, <3>2
    <2>2. QED
        BY <2>1
<1> HIDE DEF Some, Row
<1>3. (CHOOSE s : Some(s)) = (CHOOSE s : Row(s))
    BY <1>2
<1>4. (CHOOSE s : Row(s)) = TheRow(L, <<m>>, piece)
    BY DEF Row, TheRow, IsRow
<1>5. QED
    BY <1>3, <1>4 DEF Some, NodesOf, c, piece

\* Nodes is the walk.
LEMMA NodesIsWalk ==
    ASSUME NEW h, NEW n, n # NoNode
    PROVE  Nodes(h, n) = (CHOOSE f : IsNodes(h, f))[n]
<1> DEFINE Visit(f) ==
              f = [m \in DOMAIN h |->
                     (CHOOSE s : s = [i \in 0..Len(h[m].children) |->
                                IF i = 0 THEN <<m>>
                                ELSE s[i - 1] \o f[h[m].children[i]]]
                     )[Len(h[m].children)]]
<1>1. Nodes(h, n) = (CHOOSE f : Visit(f))[n]
    BY DEF Nodes
<1>2. ASSUME NEW f PROVE Visit(f) <=> IsNodes(h, f)
    BY NodesOfIs DEF IsNodes
<1> HIDE DEF Visit
<1>3. (CHOOSE f : Visit(f)) = (CHOOSE f : IsNodes(h, f))
    BY <1>2
<1>4. QED
    BY <1>1, <1>3

\* The children of a node, as the walks use them.
LEMMA ChildrenAre ==
    ASSUME NEW h, NEW top, NEW lv, NEW S, Tree(h, top, lv, S),
           NEW m \in DOMAIN h
    PROVE  /\ Len(h[m].children) \in Nat
           /\ \A i \in 1..Len(h[m].children) :
                 /\ h[m].children[i] \in DOMAIN h
                 /\ UpRank(h, lv)[h[m].children[i]] < UpRank(h, lv)[m]
<1>1. Children(h, top, lv, m)
    BY DEF Tree
<1>2. Len(h[m].children) \in Nat
    <2>1. h[m].children \in Seq(Nat)
        BY NodeIs DEF Tree
    <2>2. QED
        BY <2>1
<1>3. ASSUME NEW i \in 1..Len(h[m].children)
      PROVE  /\ h[m].children[i] \in DOMAIN h
             /\ UpRank(h, lv)[h[m].children[i]] < UpRank(h, lv)[m]
    <2>1. PICK c \in DOMAIN h : c = h[m].children[i] /\ lv[c] + 1 = lv[m]
        BY <1>1 DEF Children
    <2>2. lv[c] \in Nat /\ lv[m] \in Nat
        BY LevelsAre
    <2>3. UpRank(h, lv)[c] < UpRank(h, lv)[m]
        BY <2>1, <2>2 DEF UpRank
    <2>4. QED
        BY <2>1, <2>3
<1>4. QED
    BY <1>2, <1>3

\* There is such a walk over a tree.
LEMMA NodesExist ==
    ASSUME NEW h, NEW top, NEW lv, NEW S, Tree(h, top, lv, S)
    PROVE  \E f : IsNodes(h, f)
<1> DEFINE D == DOMAIN h
           V == Seq(D)
           rank == UpRank(h, lv)
           G == [m \in D |-> [f \in Maps(D, V) |-> NodesOf(h, m, f)]]
<1>1. \A m \in D, f \in Maps(D, V) : G[m][f] = NodesOf(h, m, f)
    OBVIOUS
<1> HIDE DEF G
<1>2. ASSUME NEW m \in D, NEW f \in Maps(D, V) PROVE G[m][f] \in V
    <2> DEFINE L == Len(h[m].children)
               base == <<m>>
               piece == FromKids(h, m, f)
    <2>1. L \in Nat
        BY ChildrenAre
    <2>2. base \in Seq(D)
        OBVIOUS
    <2>3. ASSUME NEW i \in 1..L PROVE piece[i] \in Seq(D)
        <3>1. h[m].children[i] \in D
            BY ChildrenAre
        <3>2. f[h[m].children[i]] \in Seq(D)
            BY <3>1 DEF Maps
        <3>3. QED
            BY <3>2 DEF FromKids
    <2> HIDE DEF L, base, piece
    <2>4. TheRow(L, base, piece)[L] \in Seq(D)
        BY <2>1, <2>2, <2>3, RowIsSeq
    <2>5. QED
        BY <1>1, <2>4 DEF NodesOf, L, base, piece
<1>3. ASSUME NEW m \in D, NEW f \in Maps(D, V), NEW g \in Maps(D, V),
             \A e \in D : rank[e] < rank[m] => f[e] = g[e]
      PROVE  G[m][f] = G[m][g]
    <2>1. \A i \in 1..Len(h[m].children) :
              f[h[m].children[i]] = g[h[m].children[i]]
        BY <1>3, ChildrenAre
    <2>2. FromKids(h, m, f) = FromKids(h, m, g)
        BY <2>1 DEF FromKids
    <2>3. NodesOf(h, m, f) = NodesOf(h, m, g)
        BY <2>2 DEF NodesOf
    <2>4. QED
        BY <1>1, <2>3
<1>4. lv[top] + 1 \in Nat /\ Ranked(rank, D, lv[top] + 1)
    BY LevelsRank
<1>5. V # {}
    <2>1. <<>> \in V
        OBVIOUS
    <2>2. QED
        BY <2>1
<1> HIDE DEF D, V, rank
<1>6. Rules(G, D, V, rank)
    BY <1>2, <1>3 DEF Rules
<1>7. PICK f \in Maps(D, V) : \A m \in D : f[m] = G[m][f]
    BY <1>4, <1>5, <1>6, Recursion
<1>8. f = [m \in D |-> f[m]] /\ \A m \in D : f[m] = NodesOf(h, m, f)
    BY <1>1, <1>7 DEF Maps
<1>9. QED
    BY <1>8 DEF IsNodes, D

\* The nodes below m.
Below(h, anc, m) == {x \in DOMAIN h : m \in anc[x]}

\* The parts the nodes below m come in: m itself and what is below each child.
NodeParts(h, anc, m) ==
    [i \in 0..Len(h[m].children) |->
        IF i = 0 THEN {m} ELSE Below(h, anc, h[m].children[i])]

\* The nodes below m are in one part each.
LEMMA NodePartsAre ==
    ASSUME NEW h, NEW top, NEW lv, NEW S, Tree(h, top, lv, S),
           NEW anc, Ancestry(h, top, anc), NEW m \in DOMAIN h,
           NEW A, A = NodeParts(h, anc, m)
    PROVE  /\ A[0] = {m}
           /\ \A i \in 1..Len(h[m].children) :
                 A[i] = Below(h, anc, h[m].children[i])
           /\ \A i, j \in 0..Len(h[m].children) : i # j => Disjoint(A[i], A[j])
           /\ \A x : x \in Below(h, anc, m) <=>
                        \E i \in 0..Len(h[m].children) : x \in A[i]
<1>1. PICK L \in Nat : L = Len(h[m].children)
    BY ChildrenAre
<1>2. A[0] = {m}
    BY <1>1 DEF NodeParts
<1>3. \A i \in 1..L : A[i] = Below(h, anc, h[m].children[i])
    BY <1>1 DEF NodeParts
<1>4. ASSUME NEW i \in 1..L PROVE Disjoint(A[0], A[i]) /\ Disjoint(A[i], A[0])
    <2>1. m \notin A[i]
        <3>1. h[m].children[i] \notin anc[m]
            BY <1>1, BelowIs
        <3>2. QED
            BY <1>3, <3>1 DEF Below
    <2>2. QED
        BY <1>2, <2>1 DEF Disjoint
<1>5. ASSUME NEW i \in 1..L, NEW j \in 1..L, i # j PROVE Disjoint(A[i], A[j])
    <2>1. ASSUME NEW x, x \in A[i], x \in A[j] PROVE FALSE
        <3>1. x \in DOMAIN h /\ h[m].children[i] \in anc[x]
                  /\ h[m].children[j] \in anc[x]
            BY <1>3, <2>1 DEF Below
        <3>2. QED
            BY <1>1, <1>5, <3>1, BelowIs
    <2>2. QED
        BY <2>1 DEF Disjoint
<1>6. \A i \in 0..L : i = 0 \/ i \in 1..L
    OBVIOUS
<1>7. \A i, j \in 0..L : i # j => Disjoint(A[i], A[j])
    BY <1>4, <1>5, <1>6
<1>8. ASSUME NEW x PROVE x \in Below(h, anc, m) <=> \E i \in 0..L : x \in A[i]
    <2>1. ASSUME x \in Below(h, anc, m) PROVE \E i \in 0..L : x \in A[i]
        <3>1. x \in DOMAIN h /\ m \in anc[x]
            BY <2>1 DEF Below
        <3>2. CASE m = x
            <4>1. 0 \in 0..L /\ x \in A[0]
                BY <1>2, <3>2
            <4>2. QED
                BY <4>1
        <3>3. CASE m # x
            <4>1. PICK i \in 1..L : h[m].children[i] \in anc[x]
                BY <1>1, <3>1, <3>3, BelowIs
            <4>2. i \in 0..L /\ x \in A[i]
                BY <1>3, <3>1, <4>1 DEF Below
            <4>3. QED
                BY <4>2
        <3>4. QED
            BY <3>2, <3>3
    <2>2. ASSUME NEW i \in 0..L, x \in A[i] PROVE x \in Below(h, anc, m)
        <3>1. CASE i = 0
            <4>1. x = m
                BY <1>2, <2>2, <3>1
            <4>2. m \in anc[m]
                BY DEF Ancestry
            <4>3. QED
                BY <4>1, <4>2 DEF Below
        <3>2. CASE i \in 1..L
            <4>1. x \in DOMAIN h /\ h[m].children[i] \in anc[x]
                BY <1>3, <2>2, <3>2 DEF Below
            <4>2. m \in anc[x]
                BY <1>1, <3>2, <4>1, BelowIs
            <4>3. QED
                BY <4>1, <4>2 DEF Below
        <3>3. QED
            BY <1>6, <3>1, <3>2
    <2>3. QED
        BY <2>1, <2>2
<1>9. QED
    BY <1>1, <1>2, <1>3, <1>7, <1>8

\* The walk from a node reaches every node below it, and each one once.
LEMMA NodesBelow ==
    ASSUME NEW h, NEW top, NEW lv, NEW S, Tree(h, top, lv, S),
           NEW anc, Ancestry(h, top, anc)
    PROVE  \A m \in DOMAIN h : Enum(Nodes(h, m), Below(h, anc, m))
<1> DEFINE f == CHOOSE g : IsNodes(h, g)
           D == DOMAIN h
           rank == UpRank(h, lv)
<1>1. IsNodes(h, f)
    BY NodesExist
<1> HIDE DEF f
<1>2. \A m \in D : f[m] = NodesOf(h, m, f)
    BY <1>1 DEF IsNodes
<1> DEFINE P == {m \in D : Enum(f[m], Below(h, anc, m))}
<1>3. ASSUME NEW m \in D, \A e \in D : rank[e] < rank[m] => e \in P
      PROVE  m \in P
    <2> DEFINE L == Len(h[m].children)
               base == <<m>>
               piece == FromKids(h, m, f)
               A == NodeParts(h, anc, m)
    <2>1. L \in Nat
        BY ChildrenAre
    <2>2. /\ A[0] = {m}
          /\ \A i \in 1..L : A[i] = Below(h, anc, h[m].children[i])
        BY NodePartsAre
    <2>3. Enum(base, A[0])
        BY <2>2, EnumOne
    <2>4. ASSUME NEW i \in 1..L PROVE Enum(piece[i], A[i])
        <3>1. h[m].children[i] \in P
            BY <1>3, ChildrenAre
        <3>2. piece[i] = f[h[m].children[i]]
            BY DEF FromKids
        <3>3. QED
            BY <2>2, <3>1, <3>2
    <2> DEFINE C == Below(h, anc, m)
    <2>5. \A i, j \in 0..L : i # j => Disjoint(A[i], A[j])
        BY NodePartsAre
    <2>6. \A x : x \in C <=> \E i \in 0..L : x \in A[i]
        BY NodePartsAre
    <2> HIDE DEF L, base, piece, A, C
    <2>7. Enum(TheRow(L, base, piece)[L], C)
        BY <2>1, <2>3, <2>4, <2>5, <2>6, RowEnumerates
    <2>8. Enum(f[m], C)
        BY <1>2, <2>7 DEF NodesOf, L, base, piece
    <2>9. QED
        BY <2>8 DEF C
<1>4. Ranked(rank, D, lv[top] + 1)
    BY LevelsRank
<1> HIDE DEF P, rank, D
<1>5. D \subseteq P
    BY <1>3, <1>4, RankInduction
<1>6. ASSUME NEW m \in D PROVE Enum(Nodes(h, m), Below(h, anc, m))
    <2>1. m # NoNode
        BY NodeIs DEF D, Tree
    <2>2. Enum(f[m], Below(h, anc, m))
        BY <1>5 DEF P
    <2>3. Nodes(h, m) = f[m]
        BY <2>1, NodesIsWalk DEF f
    <2>4. QED
        BY <2>2, <2>3
<1>7. QED
    BY <1>6 DEF D

\* Clearing reaches every node, and each one once.
LEMMA NodesAre ==
    ASSUME NEW h, NEW top, NEW lv, NEW S, Tree(h, top, lv, S)
    PROVE  Enum(Nodes(h, top), DOMAIN h)
<1>1. PICK anc : Ancestry(h, top, anc)
    BY AncestryIs
<1>2. top \in DOMAIN h
    BY DEF Tree
<1>3. Enum(Nodes(h, top), Below(h, anc, top))
    BY <1>1, <1>2, NodesBelow
<1>4. Below(h, anc, top) = DOMAIN h
    BY <1>1, AncestorsAre DEF Below
<1>5. QED
    BY <1>3, <1>4

(***************************************************************************)
(* The values in the order of a walk                                       *)
(***************************************************************************)

(***************************************************************************)
(* The values in order: every place of a value once.                       *)
(***************************************************************************)

\* The children of an internal node by their place.
LEMMA KidsBelow ==
    ASSUME NEW h, NEW top, NEW lv, NEW S, Tree(h, top, lv, S),
           NEW anc, Ancestry(h, top, anc), NEW m \in DOMAIN h, ~h[m].leaf
    PROVE  /\ \A i \in 0..Count(h, m) :
                 /\ Child(h, m, i) \in DOMAIN h
                 /\ UpRank(h, lv)[Child(h, m, i)] < UpRank(h, lv)[m]
           /\ \A x \in DOMAIN h :
                 /\ m \in anc[x] <=>
                       m = x \/ \E i \in 0..Count(h, m) :
                           Child(h, m, i) \in anc[x]
                 /\ \A i, j \in 0..Count(h, m) :
                       Child(h, m, i) \in anc[x] /\ Child(h, m, j) \in anc[x]
                           => i = j
                 /\ \A i \in 0..Count(h, m) : Child(h, m, i) \in anc[x]
                       => m # x
<1>1. PICK c : c = h[m].children
    OBVIOUS
<1>2. PICK N \in Nat : N = Count(h, m)
    BY CountIs DEF Tree
<1>3. Len(c) = N + 1
    BY <1>1, <1>2 DEF Tree, Children
<1>4. \A i \in 0..N : Child(h, m, i) = c[i + 1]
    BY <1>1 DEF Child
<1>5. \A i \in 1..Len(c) : c[i] \in DOMAIN h
          /\ UpRank(h, lv)[c[i]] < UpRank(h, lv)[m]
    BY <1>1, ChildrenAre
<1>6. \A i \in 0..N : i + 1 \in 1..Len(c)
    BY <1>3
<1>7. \A i \in 1..Len(c) : i - 1 \in 0..N /\ (i - 1) + 1 = i
    BY <1>3
<1>8. \A i \in 0..N : Child(h, m, i) \in DOMAIN h
                      /\ UpRank(h, lv)[Child(h, m, i)] < UpRank(h, lv)[m]
    BY <1>4, <1>5, <1>6
<1>9. ASSUME NEW x \in DOMAIN h
      PROVE  /\ m \in anc[x] <=> m = x
                   \/ \E i \in 0..N : Child(h, m, i) \in anc[x]
             /\ \A i, j \in 0..N :
                   Child(h, m, i) \in anc[x] /\ Child(h, m, j) \in anc[x]
                       => i = j
             /\ \A i \in 0..N : Child(h, m, i) \in anc[x] => m # x
    <2>1. m \in anc[x] <=> m = x \/ \E i \in 1..Len(c) : c[i] \in anc[x]
        BY <1>1, BelowIs
    <2>2. \A i, j \in 1..Len(c) : c[i] \in anc[x] /\ c[j] \in anc[x] => i = j
        BY <1>1, BelowIs
    <2>3. \A i \in 1..Len(c) : c[i] \in anc[x] => m # x
        BY <1>1, BelowIs
    <2>4. (\E i \in 1..Len(c) : c[i] \in anc[x])
             <=> \E i \in 0..N : Child(h, m, i) \in anc[x]
        <3>1. ASSUME NEW i \in 1..Len(c), c[i] \in anc[x]
              PROVE  \E j \in 0..N : Child(h, m, j) \in anc[x]
            <4>1. PICK j \in 0..N : j = i - 1 /\ j + 1 = i
                BY <1>7
            <4>2. Child(h, m, j) = c[i]
                BY <1>4, <4>1
            <4>3. QED
                BY <3>1, <4>2
        <3>2. QED
            BY <1>4, <1>6, <3>1
    <2>5. ASSUME NEW i \in 0..N, NEW j \in 0..N,
                 Child(h, m, i) \in anc[x], Child(h, m, j) \in anc[x]
          PROVE  i = j
        <3>1. i + 1 = j + 1
            BY <1>4, <1>6, <2>2, <2>5
        <3>2. QED
            BY <3>1
    <2>6. \A i \in 0..N : Child(h, m, i) \in anc[x] => m # x
        BY <1>4, <1>6, <2>3
    <2>7. QED
        BY <2>1, <2>4, <2>5, <2>6
<1>10. QED
    BY <1>2, <1>8, <1>9

\* Below a leaf is nothing but itself.
LEMMA NothingBelow ==
    ASSUME NEW h, NEW top, NEW lv, NEW S, Tree(h, top, lv, S),
           NEW anc, Ancestry(h, top, anc), NEW m \in DOMAIN h, h[m].leaf,
           NEW x \in DOMAIN h
    PROVE  m \in anc[x] <=> m = x
<1>1. Len(h[m].children) = 0
    BY DEF Tree, Children
<1>2. \A i : i \notin 1..Len(h[m].children)
    BY <1>1
<1>3. QED
    BY <1>2, BelowIs

\* The places of values.
Places(h) == {s \in {Slot(n, i) : n \in DOMAIN h, i \in Nat} :
                 s.position < Count(h, s.node)}

\* Which slots are places of values.
LEMMA PlacesAre ==
    ASSUME NEW h
    PROVE  /\ \A n, i : Slot(n, i) \in Places(h) <=>
                           n \in DOMAIN h /\ i \in Nat /\ i < Count(h, n)
           /\ \A s \in Places(h) : s = Slot(s.node, s.position)
           /\ \A s : s \in Places(h) <=> ValuePlaceOf(h, s)
<1>1. \A n, i : Slot(n, i).node = n /\ Slot(n, i).position = i
    BY SlotIs
<1>2. ASSUME NEW s
      PROVE  s \in Places(h) <=>
                \E n \in DOMAIN h, i \in Nat : s = Slot(n, i)
                    /\ i < Count(h, n)
    BY <1>1 DEF Places
<1>3. \A n, i : Slot(n, i) \in Places(h) <=>
                   n \in DOMAIN h /\ i \in Nat /\ i < Count(h, n)
    BY <1>1, <1>2
<1>4. \A s \in Places(h) : s = Slot(s.node, s.position)
    BY <1>1, <1>2
<1>5. \A s : s \in Places(h) <=> ValuePlaceOf(h, s)
    BY <1>2 DEF ValuePlaceOf
<1>6. QED
    BY <1>3, <1>4, <1>5

\* What the walk f found below the children of m, and that of each after the
\* value before it.
KidSlots(h, m, f) ==
    [i \in 0..Count(h, m) |-> IF h[m].leaf THEN <<>> ELSE f[Child(h, m, i)]]

\* A value of m and what is below the child after it.
SlotPieces(h, m, f) ==
    [i \in 1..Count(h, m) |-> <<Slot(m, i - 1)>> \o KidSlots(h, m, f)[i]]

\* The places below m, as Slots collects them.
SlotsOf(h, m, f) ==
    TheRow(Count(h, m), KidSlots(h, m, f)[0], SlotPieces(h, m, f))[Count(h, m)]

\* f collects the places below each node.
IsSlots(h, f) == f = [m \in DOMAIN h |-> SlotsOf(h, m, f)]

\* What f found below the child i of m.
KidOf(h, m, f, i) == IF h[m].leaf THEN <<>> ELSE f[Child(h, m, i)]

\* The expression that Slots is built of.
SlotsAt(h, m, f) ==
    (CHOOSE s : s = [i \in 0..Count(h, m) |->
        IF i = 0 THEN KidOf(h, m, f, 0)
        ELSE s[i - 1] \o (<<Slot(m, i - 1)>> \o KidOf(h, m, f, i))])[Count(h,
            m)]

\* SlotsOf is that expression.
LEMMA SlotsOfIs ==
    ASSUME NEW h, NEW m, NEW f, Count(h, m) \in Nat
    PROVE  SlotsOf(h, m, f) = SlotsAt(h, m, f)
<1> DEFINE L == Count(h, m)
           kid(i) == KidOf(h, m, f, i)
           one(i) == <<Slot(m, i - 1)>>
           base == KidSlots(h, m, f)[0]
           piece == SlotPieces(h, m, f)
           Some(s) == s = [i \in 0..L |-> IF i = 0 THEN kid(0)
                                          ELSE s[i - 1] \o (one(i) \o kid(i))]
           Row(s) ==
               s = [i \in 0..L |-> IF i = 0 THEN base
                   ELSE s[i - 1] \o piece[i]]
<1>1. base = kid(0)
    BY DEF KidSlots, KidOf
<1>2. \A i \in 1..L : piece[i] = one(i) \o kid(i)
    <2>1. \A i \in 1..L : KidSlots(h, m, f)[i] = kid(i)
        BY DEF KidSlots, KidOf
    <2>2. \A i \in 1..L : piece[i] = <<Slot(m, i - 1)>> \o KidSlots(h, m, f)[i]
        BY DEF SlotPieces
    <2> HIDE DEF kid, piece
    <2>3. QED
        BY <2>1, <2>2
<1> HIDE DEF base, piece, kid, one
<1>3. ASSUME NEW s PROVE Some(s) <=> Row(s)
    <2>1. ASSUME NEW i \in 0..L
          PROVE  (IF i = 0 THEN kid(0) ELSE s[i - 1] \o (one(i) \o kid(i)))
                    = IF i = 0 THEN base ELSE s[i - 1] \o piece[i]
        <3>1. CASE i = 0
            BY <1>1, <3>1
        <3>2. CASE i # 0
            <4>1. piece[i] = one(i) \o kid(i)
                BY <1>2, <3>2
            <4>2. QED
                BY <3>2, <4>1
        <3>3. QED
            BY <3>1, <3>2
    <2>2. QED
        BY <2>1
<1> HIDE DEF Some, Row
<1>4. (CHOOSE s : Some(s)) = (CHOOSE s : Row(s))
    BY <1>3
<1>5. (CHOOSE s : Row(s)) = TheRow(L, base, piece)
    BY DEF Row, TheRow, IsRow
<1>6. QED
    BY <1>4, <1>5 DEF Some, SlotsOf, SlotsAt, base, piece, kid, one

\* Slots is the walk.
LEMMA SlotsIsWalk ==
    ASSUME NEW h, NEW n, n # NoNode, \A m \in DOMAIN h : Count(h, m) \in Nat
    PROVE  Slots(h, n) = (CHOOSE f : IsSlots(h, f))[n]
<1> DEFINE Visit(f) ==
f = [m \in DOMAIN h |-> SlotsAt(h, m, f)]
<1>1. Slots(h, n) = (CHOOSE f : Visit(f))[n]
    BY DEF Slots, SlotsAt, KidOf
<1>2. ASSUME NEW f PROVE Visit(f) <=> IsSlots(h, f)
    BY SlotsOfIs DEF IsSlots
<1> HIDE DEF Visit
<1>3. (CHOOSE f : Visit(f)) = (CHOOSE f : IsSlots(h, f))
    BY <1>2
<1>4. QED
    BY <1>1, <1>3

\* The pieces one by one.
LEMMA KidSlotsAre ==
    ASSUME NEW h, NEW m, NEW f, NEW N \in Nat, N = Count(h, m)
    PROVE  /\ \A i \in 0..N : KidSlots(h, m, f)[i] = KidOf(h, m, f, i)
           /\ \A i \in 1..N :
                 SlotPieces(h, m, f)[i] = <<Slot(m, i - 1)>>
                     \o KidOf(h, m, f, i)
<1>1. \A i \in 0..N : KidSlots(h, m, f)[i] = KidOf(h, m, f, i)
    BY DEF KidSlots, KidOf
<1>2. \A i \in 1..N :
         SlotPieces(h, m, f)[i] = <<Slot(m, i - 1)>> \o KidSlots(h, m, f)[i]
    BY DEF SlotPieces
<1>3. QED
    <2>1. \A i \in 1..N : KidSlots(h, m, f)[i] = KidOf(h, m, f, i)
        BY <1>1
    <2>2. QED
        BY <1>1, <1>2, <2>1

\* There is such a walk over a tree.
LEMMA SlotsExist ==
    ASSUME NEW h, NEW top, NEW lv, NEW S, Tree(h, top, lv, S)
    PROVE  \E f : IsSlots(h, f)
<1> DEFINE D == DOMAIN h
           U == {Slot(n, i) : n \in D, i \in Nat}
           V == Seq(U)
           rank == UpRank(h, lv)
           G == [m \in D |-> [f \in Maps(D, V) |-> SlotsOf(h, m, f)]]
<1>1. \A m \in D, f \in Maps(D, V) : G[m][f] = SlotsOf(h, m, f)
    OBVIOUS
<1> HIDE DEF G
<1>2. \A m \in D, i \in Nat : Slot(m, i) \in U
    OBVIOUS
<1> HIDE DEF U
<1>3. PICK anc : Ancestry(h, top, anc)
    BY AncestryIs
<1>4. ASSUME NEW m \in D, ~h[m].leaf, NEW i \in 0..Count(h, m)
      PROVE  Child(h, m, i) \in D /\ rank[Child(h, m, i)] < rank[m]
    BY <1>3, <1>4, KidsBelow
<1>5. \A m \in D : Count(h, m) \in Nat
    BY CountIs DEF Tree
<1>6. ASSUME NEW m \in D, NEW f \in Maps(D, V) PROVE G[m][f] \in V
    <2>1. PICK N \in Nat : N = Count(h, m)
        BY <1>5
    <2> DEFINE base == KidSlots(h, m, f)[0]
               piece == SlotPieces(h, m, f)
    <2>2. ASSUME NEW i \in 0..N PROVE KidOf(h, m, f, i) \in V
        <3>1. CASE h[m].leaf
            BY <3>1 DEF KidOf
        <3>2. CASE ~h[m].leaf
            <4>1. Child(h, m, i) \in D
                BY <1>4, <2>1, <3>2
            <4>2. f[Child(h, m, i)] \in V
                BY <4>1 DEF Maps
            <4>3. QED
                BY <3>2, <4>2 DEF KidOf
        <3>3. QED
            BY <3>1, <3>2
    <2>3. base \in V
        <3>1. base = KidOf(h, m, f, 0)
            BY <2>1, KidSlotsAre
        <3>2. QED
            BY <2>1, <2>2, <3>1
    <2>4. ASSUME NEW i \in 1..N PROVE piece[i] \in V
        <3>1. piece[i] = <<Slot(m, i - 1)>> \o KidOf(h, m, f, i)
            BY <2>1, KidSlotsAre
        <3>2. KidOf(h, m, f, i) \in V
            BY <2>2
        <3>3. i - 1 \in Nat
            BY <2>1
        <3>4. Slot(m, i - 1) \in U
            BY <1>2, <3>3
        <3>5. <<Slot(m, i - 1)>> \in V
            BY <3>4
        <3>6. QED
            BY <3>1, <3>2, <3>5
    <2> HIDE DEF base, piece
    <2>5. TheRow(N, base, piece)[N] \in Seq(U)
        BY <2>1, <2>3, <2>4, RowIsSeq
    <2>6. QED
        BY <1>1, <2>1, <2>5 DEF SlotsOf, base, piece
<1>7. ASSUME NEW m \in D, NEW f \in Maps(D, V), NEW g \in Maps(D, V),
             \A e \in D : rank[e] < rank[m] => f[e] = g[e]
      PROVE  G[m][f] = G[m][g]
    <2>1. PICK N \in Nat : N = Count(h, m)
        BY <1>5
    <2>2. ASSUME NEW i \in 0..N PROVE KidOf(h, m, f, i) = KidOf(h, m, g, i)
        <3>1. ~h[m].leaf => f[Child(h, m, i)] = g[Child(h, m, i)]
            BY <1>4, <1>7, <2>1
        <3>2. QED
            BY <3>1 DEF KidOf
    <2>3. KidSlots(h, m, f) = KidSlots(h, m, g)
        <3>1. \A i \in 0..N :
                 (IF h[m].leaf THEN <<>> ELSE f[Child(h, m, i)])
                    = IF h[m].leaf THEN <<>> ELSE g[Child(h, m, i)]
            BY <2>2 DEF KidOf
        <3>2. QED
            BY <2>1, <3>1 DEF KidSlots
    <2>4. SlotPieces(h, m, f) = SlotPieces(h, m, g)
        BY <2>3 DEF SlotPieces
    <2>5. SlotsOf(h, m, f) = SlotsOf(h, m, g)
        BY <2>3, <2>4 DEF SlotsOf
    <2>6. QED
        BY <1>1, <2>5
<1>8. lv[top] + 1 \in Nat /\ Ranked(rank, D, lv[top] + 1)
    BY LevelsRank
<1>9. V # {}
    <2>1. <<>> \in V
        OBVIOUS
    <2>2. QED
        BY <2>1
<1> HIDE DEF D, V, rank
<1>10. Rules(G, D, V, rank)
    BY <1>6, <1>7 DEF Rules
<1>11. PICK f \in Maps(D, V) : \A m \in D : f[m] = G[m][f]
    BY <1>8, <1>9, <1>10, Recursion
<1>12. f = [m \in D |-> f[m]] /\ \A m \in D : f[m] = SlotsOf(h, m, f)
    BY <1>1, <1>11 DEF Maps
<1>13. QED
    BY <1>12 DEF IsSlots, D

\* The places of values below m.
SlotsBelow(h, anc, m) == {s \in Places(h) : m \in anc[s.node]}

\* The parts they come in: what is below the first child, then each value and
\* what is below the child after it.
BelowKid(h, anc, m, i) ==
    IF h[m].leaf THEN {} ELSE SlotsBelow(h, anc, Child(h, m, i))

\* The first part is what is below the first child, the others begin with a
\* value.
SlotParts(h, anc, m) ==
    [i \in 0..Count(h, m) |->
        IF i = 0 THEN BelowKid(h, anc, m, 0)
        ELSE {Slot(m, i - 1)} \cup BelowKid(h, anc, m, i)]

\* The places below m are its own and those below one of its children.
LEMMA BelowKidIs ==
    ASSUME NEW h, NEW top, NEW lv, NEW S, Tree(h, top, lv, S),
           NEW anc, Ancestry(h, top, anc), NEW m \in DOMAIN h
    PROVE  /\ \A s : s \in SlotsBelow(h, anc, m) <=>
                 \/ s \in Places(h) /\ s.node = m
                 \/ \E i \in 0..Count(h, m) : s \in BelowKid(h, anc, m, i)
           /\ \A i, j \in 0..Count(h, m) :
                 i # j
                     => Disjoint(BelowKid(h, anc, m, i),
                         BelowKid(h, anc, m, j))
           /\ \A i \in 0..Count(h, m) : \A s \in BelowKid(h, anc, m, i) :
                 s \in Places(h) /\ s.node # m
<1>1. \A s \in Places(h) : s.node \in DOMAIN h
    <2>1. \A s \in Places(h) : Slot(s.node, s.position) \in Places(h)
        BY PlacesAre
    <2>2. QED
        BY <2>1, PlacesAre
<1>2. CASE h[m].leaf
    <2>1. \A i : BelowKid(h, anc, m, i) = {}
        BY <1>2 DEF BelowKid
    <2>2. \A s : s \in SlotsBelow(h, anc, m) <=> s \in Places(h) /\ s.node = m
        BY <1>1, <1>2, NothingBelow DEF SlotsBelow
    <2>3. QED
        BY <2>1, <2>2 DEF Disjoint
<1>3. CASE ~h[m].leaf
    <2>1. \A i, s : s \in BelowKid(h, anc, m, i) <=>
                       s \in Places(h) /\ Child(h, m, i) \in anc[s.node]
        BY <1>3 DEF BelowKid, SlotsBelow
    <2>2. ASSUME NEW s
          PROVE  s \in SlotsBelow(h, anc, m) <=>
                 \/ s \in Places(h) /\ s.node = m
                 \/ \E i \in 0..Count(h, m) : s \in BelowKid(h, anc, m, i)
        <3>1. CASE s \in Places(h)
            <4>1. PICK x \in DOMAIN h : x = s.node
                BY <1>1, <3>1
            <4>2. m \in anc[x] <=>
                     m = x \/ \E i \in 0..Count(h, m) :
                         Child(h, m, i) \in anc[x]
                BY <1>3, KidsBelow
            <4>3. QED
                BY <2>1, <3>1, <4>1, <4>2 DEF SlotsBelow
        <3>2. CASE s \notin Places(h)
            BY <2>1, <3>2 DEF SlotsBelow
        <3>3. QED
            BY <3>1, <3>2
    <2>3. ASSUME NEW i \in 0..Count(h, m), NEW j \in 0..Count(h, m), i # j
          PROVE  Disjoint(BelowKid(h, anc, m, i), BelowKid(h, anc, m, j))
        <3>1. ASSUME NEW s, s \in BelowKid(h, anc, m, i),
                  s \in BelowKid(h, anc, m, j)
              PROVE  FALSE
            <4>1. PICK x \in DOMAIN h : x = s.node
                BY <1>1, <2>1, <3>1
            <4>2. Child(h, m, i) \in anc[x] /\ Child(h, m, j) \in anc[x]
                BY <2>1, <3>1, <4>1
            <4>3. QED
                BY <1>3, <2>3, <4>2, KidsBelow
        <3>2. QED
            BY <3>1 DEF Disjoint
    <2>4. ASSUME NEW i \in 0..Count(h, m), NEW s \in BelowKid(h, anc, m, i)
          PROVE  s \in Places(h) /\ s.node # m
        <3>1. PICK x \in DOMAIN h : x = s.node
            BY <1>1, <2>1
        <3>2. Child(h, m, i) \in anc[x]
            BY <2>1, <3>1
        <3>3. m # x
            BY <1>3, <3>2, KidsBelow
        <3>4. QED
            BY <2>1, <3>1, <3>3
    <2>5. QED
        BY <2>2, <2>3, <2>4
<1>4. QED
    BY <1>2, <1>3

\* The places below m are in one part each.
LEMMA SlotPartsAre ==
    ASSUME NEW h, NEW top, NEW lv, NEW S, Tree(h, top, lv, S),
           NEW anc, Ancestry(h, top, anc), NEW m \in DOMAIN h,
           NEW N \in Nat, N = Count(h, m),
           NEW A, A = SlotParts(h, anc, m)
    PROVE  /\ A[0] = BelowKid(h, anc, m, 0)
           /\ \A i \in 1..N :
                 A[i] = {Slot(m, i - 1)} \cup BelowKid(h, anc, m, i)
           /\ \A i, j \in 0..N : i # j => Disjoint(A[i], A[j])
           /\ \A s : s \in SlotsBelow(h, anc, m) <=> \E i \in 0..N : s \in A[i]
<1>1. \A i \in 0..N : A[i] = IF i = 0 THEN BelowKid(h, anc, m, 0)
                             ELSE {Slot(m, i - 1)} \cup BelowKid(h, anc, m, i)
    BY DEF SlotParts
<1>2. A[0] = BelowKid(h, anc, m, 0)
    <2>1. 0 \in 0..N
        OBVIOUS
    <2>2. QED
        BY <1>1, <2>1
<1>3. \A i \in 1..N : A[i] = {Slot(m, i - 1)} \cup BelowKid(h, anc, m, i)
    <2>1. \A i \in 1..N : i \in 0..N /\ i # 0
        OBVIOUS
    <2>2. QED
        BY <1>1, <2>1
<1>4. \A i \in 0..N : \A s : s \in A[i] <=> \/ i # 0 /\ s = Slot(m, i - 1)
                                            \/ s \in BelowKid(h, anc, m, i)
    BY <1>1
<1>5. /\ \A s : s \in SlotsBelow(h, anc, m) <=>
                 \/ s \in Places(h) /\ s.node = m
                 \/ \E i \in 0..N : s \in BelowKid(h, anc, m, i)
      /\ \A i, j \in 0..N :
            i # j => Disjoint(BelowKid(h, anc, m, i), BelowKid(h, anc, m, j))
    BY BelowKidIs
<1>6. \A i \in 0..N : \A s \in BelowKid(h, anc, m, i) : s \in Places(h)
          /\ s.node # m
    BY BelowKidIs
<1>7. \A i : Slot(m, i).node = m /\ Slot(m, i).position = i
    BY SlotIs
<1>8. ASSUME NEW i \in 0..N, NEW j \in 0..N, i # j
      PROVE  Disjoint(A[i], A[j])
    <2>1. ASSUME NEW s, s \in A[i], s \in A[j] PROVE FALSE
        <3>1. CASE s \in BelowKid(h, anc, m, i)
            <4>1. s.node # m
                BY <1>6, <3>1
            <4>2. s \in BelowKid(h, anc, m, j)
                BY <1>4, <1>7, <2>1, <4>1
            <4>3. QED
                BY <1>5, <1>8, <3>1, <4>2 DEF Disjoint
        <3>2. CASE s \notin BelowKid(h, anc, m, i)
            <4>1. s = Slot(m, i - 1)
                BY <1>4, <2>1, <3>2
            <4>2. s = Slot(m, j - 1)
                BY <1>4, <1>6, <1>7, <2>1, <4>1
            <4>3. i - 1 = j - 1
                BY <1>7, <4>1, <4>2
            <4>4. QED
                BY <1>8, <4>3
        <3>3. QED
            BY <3>1, <3>2
    <2>2. QED
        BY <2>1 DEF Disjoint
<1>9. ASSUME NEW s
        PROVE s \in SlotsBelow(h, anc, m) <=> \E i \in 0..N : s \in A[i]
    <2>1. ASSUME s \in Places(h), s.node = m PROVE \E i \in 0..N : s \in A[i]
        <3>1. s = Slot(m, s.position)
            BY <2>1, PlacesAre
        <3>2. Slot(m, s.position) \in Places(h)
            BY <2>1, <3>1
        <3>3. s.position \in Nat /\ s.position < N
            BY <3>2, PlacesAre
        <3>4. PICK i \in 0..N : i # 0 /\ i - 1 = s.position
            BY <3>3
        <3>5. QED
            BY <1>4, <3>1, <3>4
    <2>2. ASSUME NEW i \in 0..N, s \in A[i] PROVE s \in SlotsBelow(h, anc, m)
        <3>1. CASE s \in BelowKid(h, anc, m, i)
            BY <1>5, <3>1
        <3>2. CASE i # 0 /\ s = Slot(m, i - 1)
            <4>1. i - 1 \in Nat /\ i - 1 < N
                BY <3>2
            <4>2. s \in Places(h)
                BY <3>2, <4>1, PlacesAre
            <4>3. QED
                BY <1>5, <1>7, <3>2, <4>2
        <3>3. QED
            BY <1>4, <2>2, <3>1, <3>2
    <2>3. ASSUME NEW i \in 0..N, s \in BelowKid(h, anc, m, i)
          PROVE  s \in A[i]
        BY <1>4, <2>3
    <2>4. QED
        BY <1>5, <2>1, <2>2, <2>3
<1>10. QED
    BY <1>2, <1>3, <1>8, <1>9

\* The walk over the values visits each once.
LEMMA SlotsAre ==
    ASSUME NEW h, NEW top, NEW lv, NEW S, Tree(h, top, lv, S)
    PROVE  Enum(Slots(h, top), Places(h))
<1>1. PICK anc : Ancestry(h, top, anc)
    BY AncestryIs
<1> DEFINE f == CHOOSE g : IsSlots(h, g)
           D == DOMAIN h
           rank == UpRank(h, lv)
<1>2. IsSlots(h, f)
    BY SlotsExist
<1> HIDE DEF f
<1>3. \A m \in D : f[m] = SlotsOf(h, m, f)
    BY <1>2 DEF IsSlots
<1>4. \A m \in D : Count(h, m) \in Nat
    BY CountIs DEF Tree
<1> DEFINE P == {m \in D : Enum(f[m], SlotsBelow(h, anc, m))}
<1>5. ASSUME NEW m \in D, \A e \in D : rank[e] < rank[m] => e \in P
      PROVE  m \in P
    <2>1. PICK N \in Nat : N = Count(h, m)
        BY <1>4
    <2> DEFINE base == KidSlots(h, m, f)[0]
               piece == SlotPieces(h, m, f)
               A == SlotParts(h, anc, m)
               C == SlotsBelow(h, anc, m)
    <2>2. ASSUME NEW i \in 0..N
          PROVE  Enum(KidOf(h, m, f, i), BelowKid(h, anc, m, i))
        <3>1. CASE h[m].leaf
            BY <3>1, EnumNone DEF KidOf, BelowKid
        <3>2. CASE ~h[m].leaf
            <4>1. Child(h, m, i) \in D /\ rank[Child(h, m, i)] < rank[m]
                BY <1>1, <2>1, <3>2, KidsBelow
            <4>2. Child(h, m, i) \in P
                BY <1>5, <4>1
            <4>3. QED
                BY <3>2, <4>2 DEF KidOf, BelowKid
        <3>3. QED
            BY <3>1, <3>2
    <2>3. /\ A[0] = BelowKid(h, anc, m, 0)
          /\ \A i \in 1..N :
                A[i] = {Slot(m, i - 1)} \cup BelowKid(h, anc, m, i)
        BY <1>1, <2>1, SlotPartsAre
    <2>4. Enum(base, A[0])
        <3>1. 0 \in 0..N /\ base = KidOf(h, m, f, 0)
            BY <2>1, KidSlotsAre
        <3>2. QED
            BY <2>2, <2>3, <3>1
    <2>5. ASSUME NEW i \in 1..N PROVE Enum(piece[i], A[i])
        <3>1. PICK s : s = Slot(m, i - 1)
            OBVIOUS
        <3>2. PICK k : k = KidOf(h, m, f, i)
            OBVIOUS
        <3>3. PICK B : B = BelowKid(h, anc, m, i)
            OBVIOUS
        <3>4. piece[i] = <<s>> \o k
            <4>1. piece[i] = <<Slot(m, i - 1)>> \o KidOf(h, m, f, i)
                BY <2>1, KidSlotsAre
            <4>2. QED
                BY <3>1, <3>2, <4>1
        <3>5. Enum(k, B)
            <4>1. i \in 0..N
                OBVIOUS
            <4>2. QED
                BY <2>2, <3>2, <3>3, <4>1
        <3>6. Enum(<<s>>, {s})
            BY EnumOne
        <3>7. Disjoint({s}, B)
            <4>1. i \in 0..Count(h, m)
                BY <2>1
            <4>2. \A t \in B : t.node # m
                BY <1>1, <3>3, <4>1, BelowKidIs
            <4>3. s.node = m
                BY <3>1, SlotIs
            <4>4. QED
                BY <4>2, <4>3 DEF Disjoint
        <3>8. A[i] = {s} \cup B
            BY <2>3, <3>1, <3>3
        <3>9. QED
            BY <3>4, <3>5, <3>6, <3>7, <3>8, EnumConcat
    <2>6. \A i, j \in 0..N : i # j => Disjoint(A[i], A[j])
        BY <1>1, <2>1, SlotPartsAre
    <2>7. \A s : s \in C <=> \E i \in 0..N : s \in A[i]
        BY <1>1, <2>1, SlotPartsAre
    <2> HIDE DEF base, piece, A, C
    <2>8. Enum(TheRow(N, base, piece)[N], C)
        BY <2>1, <2>4, <2>5, <2>6, <2>7, RowEnumerates
    <2>9. Enum(f[m], C)
        BY <1>3, <2>1, <2>8 DEF SlotsOf, base, piece
    <2>10. QED
        BY <2>9 DEF C
<1>6. Ranked(rank, D, lv[top] + 1)
    BY LevelsRank
<1> HIDE DEF P, rank, D
<1>7. D \subseteq P
    BY <1>5, <1>6, RankInduction
<1>8. top \in D /\ top # NoNode
    BY NodeIs DEF D, Tree
<1>9. Enum(f[top], SlotsBelow(h, anc, top))
    BY <1>7, <1>8 DEF P
<1>10. SlotsBelow(h, anc, top) = Places(h)
    <2>1. \A s \in Places(h) : s.node \in DOMAIN h
        <3>1. \A s \in Places(h) : Slot(s.node, s.position) \in Places(h)
            BY PlacesAre
        <3>2. QED
            BY <3>1, PlacesAre
    <2>2. \A s \in Places(h) : top \in anc[s.node]
        BY <1>1, <2>1, AncestorsAre
    <2>3. QED
        BY <2>2 DEF SlotsBelow
<1>11. Slots(h, top) = f[top]
    BY <1>4, <1>8, SlotsIsWalk DEF f, D
<1>12. QED
    BY <1>9, <1>10, <1>11

\* There are finitely many places of values.
LEMMA PlacesFinite ==
    ASSUME NEW h, NEW top, NEW lv, NEW S, Tree(h, top, lv, S)
    PROVE  /\ IsFiniteSet(Places(h))
           /\ Cardinality(Places(h)) \in Nat
           /\ Cardinality(Places(h)) = Len(Slots(h, top))
<1>1. IsFiniteSet(Places(h)) /\ Cardinality(Places(h)) = Len(Slots(h, top))
    BY SlotsAre, EnumCounts
<1>2. QED
    BY <1>1, FS_CardinalityType

(***************************************************************************)
(* How many values there are                                               *)
(***************************************************************************)

(***************************************************************************)
(* How many values there are.                                              *)
(***************************************************************************)

\* The number of values on all nodes.
Weight(h) == Cardinality(Places(h))

\* There is a value at place i of n.
PlaceAt(h, n, i) == n \in DOMAIN h /\ i \in Nat /\ i < Count(h, n)

\* Such a place is a slot of Places.
LEMMA PlaceAtIs ==
    ASSUME NEW h
    PROVE  /\ \A n, i : PlaceAt(h, n, i) <=> Slot(n, i) \in Places(h)
           /\ \A s : s \in Places(h) <=>
                        s = Slot(s.node, s.position)
                            /\ PlaceAt(h, s.node, s.position)
<1>1. \A n, i : PlaceAt(h, n, i) <=> Slot(n, i) \in Places(h)
    BY PlacesAre DEF PlaceAt
<1>2. \A s \in Places(h) : s = Slot(s.node, s.position)
    BY PlacesAre
<1>3. ASSUME NEW s
      PROVE  s \in Places(h) <=>
                s = Slot(s.node, s.position) /\ PlaceAt(h, s.node, s.position)
    BY <1>1, <1>2
<1>4. QED
    BY <1>1, <1>3

\* Where the values of h are in g, and no two are in the same place.
Keeps(h, g, F) ==
    /\ \A n, i : PlaceAt(h, n, i)
          => PlaceAt(g, F[Slot(n, i)].node, F[Slot(n, i)].position)
    /\ \A s \in Places(h) : F[s] = Slot(F[s].node, F[s].position)
    /\ \A s, t \in Places(h) : F[s] = F[t] => s = t

\* When each value has a place of its own in g there are at least as many
\* there.
LEMMA WeightKept ==
    ASSUME NEW h, NEW g, IsFiniteSet(Places(g)),
           NEW F, F = [s \in Places(h) |-> F[s]], Keeps(h, g, F)
    PROVE  IsFiniteSet(Places(h)) /\ Weight(h) <= Weight(g)
<1>1. ASSUME NEW s \in Places(h) PROVE F[s] \in Places(g)
    <2>1. s = Slot(s.node, s.position) /\ PlaceAt(h, s.node, s.position)
        BY PlaceAtIs
    <2>2. PlaceAt(g, F[s].node, F[s].position)
        BY <2>1 DEF Keeps
    <2>3. F[s] = Slot(F[s].node, F[s].position)
        BY DEF Keeps
    <2>4. QED
        BY <2>2, <2>3, PlaceAtIs
<1>2. \A s, t \in Places(h) : F[s] = F[t] => s = t
    BY DEF Keeps
<1>3. F \in Injection(Places(h), Places(g))
    <2> DEFINE A == Places(h)
               B == Places(g)
    <2> HIDE DEF A, B
    <2>1. F = [s \in A |-> F[s]] /\ \A s \in A : F[s] \in B
        BY <1>1 DEF A, B
    <2>2. F \in [A -> B] /\ DOMAIN F = A
        BY <2>1
    <2>3. \A s, t \in A : F[s] = F[t] => s = t
        BY <1>2 DEF A
    <2>4. F \in Injection(A, B)
        BY <2>2, <2>3 DEF Injection, IsInjective
    <2>5. QED
        BY <2>4 DEF A, B
<1>4. QED
    BY <1>3, FS_Injection DEF Weight

\* The same number of values on each node, or nodes without any that come or
\* go.
LEMMA WeightSame ==
    ASSUME NEW h, NEW g,
           \A n \in DOMAIN h : \/ n \in DOMAIN g /\ Count(g, n) = Count(h, n)
                               \/ Count(h, n) = 0,
           \A n \in DOMAIN g : \/ n \in DOMAIN h /\ Count(g, n) = Count(h, n)
                               \/ Count(g, n) = 0
    PROVE  Places(g) = Places(h) /\ Weight(g) = Weight(h)
<1>1. \A n, i : PlaceAt(h, n, i) <=> PlaceAt(g, n, i)
    <2>1. \A i \in Nat : ~(i < 0)
        OBVIOUS
    <2>2. QED
        BY <2>1 DEF PlaceAt
<1>2. \A s : s \in Places(h) <=> s \in Places(g)
    BY <1>1, PlaceAtIs
<1>3. QED
    BY <1>2 DEF Weight

\* One value less on one node.
LEMMA WeightOneLess ==
    ASSUME NEW h, NEW g, IsFiniteSet(Places(h)), DOMAIN g = DOMAIN h,
           NEW n \in DOMAIN h,
           NEW c \in Nat, Count(h, n) = c + 1, Count(g, n) = c,
           \A m \in DOMAIN h \ {n} : Count(g, m) = Count(h, m)
    PROVE  Weight(g) = Weight(h) - 1
<1>1. \A m, i : PlaceAt(g, m, i) <=> PlaceAt(h, m, i) /\ ~(m = n /\ i = c)
    <2>1. ASSUME NEW m, NEW i
          PROVE  PlaceAt(g, m, i) <=> PlaceAt(h, m, i) /\ ~(m = n /\ i = c)
        <3>1. CASE m = n
            <4>1. i \in Nat => (i < c <=> (i < c + 1 /\ i # c))
                OBVIOUS
            <4>2. QED
                BY <3>1, <4>1 DEF PlaceAt
        <3>2. CASE m # n
            BY <3>2 DEF PlaceAt
        <3>3. QED
            BY <3>1, <3>2
    <2>2. QED
        BY <2>1
<1>2. PICK s : s = Slot(n, c)
    OBVIOUS
<1>3. Places(g) = Places(h) \ {s}
    <2>1. \A t : t = Slot(t.node, t.position) =>
                    (t = s <=> t.node = n /\ t.position = c)
        BY <1>2, SlotIs
    <2>2. \A t : t \in Places(g) <=> t \in Places(h) /\ t # s
        BY <1>1, <2>1, PlaceAtIs
    <2>3. QED
        BY <2>2
<1>4. s \in Places(h)
    <2>1. c < c + 1
        OBVIOUS
    <2>2. PlaceAt(h, n, c)
        BY <2>1 DEF PlaceAt
    <2>3. QED
        BY <1>2, <2>2, PlaceAtIs
<1>5. Cardinality(Places(h) \ {s}) = Cardinality(Places(h)) - 1
    BY <1>4, FS_RemoveElement
<1>6. QED
    BY <1>3, <1>5 DEF Weight

\* A tree with a value somewhere has values, and one without has none.
LEMMA WeightPositive ==
    ASSUME NEW h, IsFiniteSet(Places(h)), NEW n \in DOMAIN h,
           Count(h, n) \in Nat, Count(h, n) > 0
    PROVE  Weight(h) \in Nat /\ Weight(h) > 0
<1>1. PICK i \in Nat : i = 0
    OBVIOUS
<1>2. PlaceAt(h, n, i)
    BY <1>1 DEF PlaceAt
<1>3. Places(h) # {}
    BY <1>2, PlaceAtIs
<1>4. Weight(h) \in Nat /\ Weight(h) # 0
    BY <1>3, FS_EmptySet, FS_CardinalityType DEF Weight
<1>5. QED
    BY <1>4

\* Without a value on any node there are none.
LEMMA WeightNone ==
    ASSUME NEW h, \A n \in DOMAIN h : Count(h, n) = 0
    PROVE  Weight(h) = 0
<1>1. ASSUME NEW s PROVE s \notin Places(h)
    <2>1. ~PlaceAt(h, s.node, s.position)
        <3>1. \A i \in Nat : ~(i < 0)
            OBVIOUS
        <3>2. QED
            BY <3>1 DEF PlaceAt
    <2>2. QED
        BY <2>1, PlaceAtIs
<1>2. Places(h) = {}
    BY <1>1
<1>3. QED
    BY <1>2, FS_EmptySet DEF Weight

\* Slots are equal if node and position are.
LEMMA SlotsDiffer ==
    ASSUME NEW m, NEW i, NEW n, NEW j, Slot(m, i) = Slot(n, j)
    PROVE  m = n /\ i = j
BY SlotIs

\* Two nodes share their values out again.
LEMMA WeightShared ==
    ASSUME NEW h, NEW g, IsFiniteSet(Places(g)), DOMAIN g = DOMAIN h,
           NEW n \in DOMAIN h, NEW r \in DOMAIN h, n # r,
           NEW a \in Nat, NEW b \in Nat, NEW k \in Nat, k <= a + b,
           Count(h, n) = a, Count(h, r) = b,
           Count(g, n) = k, Count(g, r) = a + b - k,
           \A m \in DOMAIN h \ {n, r} : Count(g, m) = Count(h, m)
    PROVE  Weight(h) <= Weight(g)
<1> DEFINE rank(s) == IF s.node = n THEN s.position ELSE a + s.position
           F == [s \in Places(h) |->
                   IF s.node # n /\ s.node # r THEN s
                   ELSE IF rank(s) < k THEN Slot(n, rank(s))
                       ELSE Slot(r, rank(s) - k)]
<1>1. ASSUME NEW s \in Places(h), s.node # n, s.node # r PROVE F[s] = s
    BY <1>1
<1>2. ASSUME NEW s \in Places(h), s.node = n \/ s.node = r
      PROVE  \E t \in Nat : /\ t < a + b
                            /\ \/ t < a /\ s = Slot(n, t)
                               \/ t >= a /\ s = Slot(r, t - a)
                            /\ \/ t < k /\ F[s] = Slot(n, t)
                               \/ t >= k /\ F[s] = Slot(r, t - k)
    <2>1. s = Slot(s.node, s.position) /\ PlaceAt(h, s.node, s.position)
        BY PlaceAtIs
    <2>2. F[s] = IF rank(s) < k THEN Slot(n, rank(s)) ELSE Slot(r, rank(s) - k)
        BY <1>2
    <2> HIDE DEF F
    <2>3. CASE s.node = n
        <3>1. PICK t \in Nat : t = s.position /\ t < a
            BY <2>1, <2>3 DEF PlaceAt
        <3>2. s = Slot(n, t) /\ rank(s) = t
            BY <2>1, <2>3, <3>1
        <3>3. t < a + b
            BY <3>1
        <3> HIDE DEF rank
        <3>4. F[s] = IF t < k THEN Slot(n, t) ELSE Slot(r, t - k)
            BY <2>2, <3>2
        <3>5. t < k \/ t >= k
            OBVIOUS
        <3>6. QED
            BY <3>1, <3>2, <3>3, <3>4, <3>5
    <2>4. CASE s.node = r
        <3>1. PICK i \in Nat : i = s.position /\ i < b
            BY <2>1, <2>4 DEF PlaceAt
        <3>2. PICK t \in Nat : t = a + i
            OBVIOUS
        <3>3. rank(s) = t
            BY <2>4, <3>1, <3>2
        <3>4. t >= a /\ t < a + b /\ t - a = i
            BY <3>1, <3>2
        <3>5. s = Slot(r, t - a)
            BY <2>1, <2>4, <3>1, <3>4
        <3> HIDE DEF rank
        <3>6. QED
            BY <2>2, <3>3, <3>4, <3>5
    <2>5. QED
        BY <1>2, <2>3, <2>4
<1>3. F = [s \in Places(h) |-> F[s]]
    OBVIOUS
<1> HIDE DEF F
<1>4. ASSUME NEW m, NEW i, PlaceAt(h, m, i)
      PROVE  PlaceAt(g, F[Slot(m, i)].node, F[Slot(m, i)].position)
    <2>1. PICK s \in Places(h) : s = Slot(m, i)
        BY <1>4, PlaceAtIs
    <2>2. s.node = m /\ s.position = i
        BY <2>1, SlotIs
    <2>3. CASE m # n /\ m # r
        <3>1. F[s] = s
            BY <1>1, <2>2, <2>3
        <3>2. PlaceAt(g, m, i)
            BY <1>4, <2>3 DEF PlaceAt
        <3>3. QED
            BY <2>1, <2>2, <3>1, <3>2
    <2>4. CASE m = n \/ m = r
        <3>1. PICK t \in Nat : /\ t < a + b
                               /\ \/ t < k /\ F[s] = Slot(n, t)
                                  \/ t >= k /\ F[s] = Slot(r, t - k)
            BY <1>2, <2>2, <2>4
        <3>2. CASE t < k /\ F[s] = Slot(n, t)
            <4>1. PlaceAt(g, n, t)
                BY <3>2 DEF PlaceAt
            <4>2. QED
                BY <2>1, <3>2, <4>1, SlotIs
        <3>3. CASE t >= k /\ F[s] = Slot(r, t - k)
            <4>1. t - k \in Nat /\ t - k < a + b - k
                BY <3>1, <3>3
            <4>2. PlaceAt(g, r, t - k)
                BY <4>1 DEF PlaceAt
            <4>3. QED
                BY <2>1, <3>3, <4>2, SlotIs
        <3>4. QED
            BY <3>1, <3>2, <3>3
    <2>5. QED
        BY <2>3, <2>4
<1>5. \A s \in Places(h) : F[s] = Slot(F[s].node, F[s].position)
    <2>1. ASSUME NEW s \in Places(h) PROVE \E m, i : F[s] = Slot(m, i)
        <3>1. CASE s.node # n /\ s.node # r
            BY <1>1, <3>1, PlaceAtIs
        <3>2. CASE s.node = n \/ s.node = r
            BY <1>2, <3>2
        <3>3. QED
            BY <3>1, <3>2
    <2>2. QED
        BY <2>1, SlotIs
<1>6. ASSUME NEW s \in Places(h), NEW u \in Places(h), F[s] = F[u] PROVE s = u
    <2>1. CASE s.node # n /\ s.node # r
        <3>1. F[s] = s
            BY <1>1, <2>1
        <3>2. CASE u.node # n /\ u.node # r
            BY <1>1, <1>6, <3>1, <3>2
        <3>3. CASE u.node = n \/ u.node = r
            <4>1. PICK t \in Nat : F[u] = Slot(n, t) \/ F[u] = Slot(r, t - k)
                BY <1>2, <3>3
            <4>2. QED
                BY <1>6, <2>1, <3>1, <4>1, SlotIs
        <3>4. QED
            BY <3>2, <3>3
    <2>2. CASE s.node = n \/ s.node = r
        <3>1. PICK t \in Nat : /\ \/ t < a /\ s = Slot(n, t)
                                  \/ t >= a /\ s = Slot(r, t - a)
                               /\ \/ t < k /\ F[s] = Slot(n, t)
                                  \/ t >= k /\ F[s] = Slot(r, t - k)
            BY <1>2, <2>2
        <3>2. CASE u.node # n /\ u.node # r
            <4>1. F[u] = u
                BY <1>1, <3>2
            <4>2. QED
                BY <1>6, <3>1, <3>2, <4>1, SlotIs
        <3>3. CASE u.node = n \/ u.node = r
            <4>1. PICK x \in Nat : /\ \/ x < a /\ u = Slot(n, x)
                                      \/ x >= a /\ u = Slot(r, x - a)
                                   /\ \/ x < k /\ F[u] = Slot(n, x)
                                      \/ x >= k /\ F[u] = Slot(r, x - k)
                BY <1>2, <3>3
            <4>2. t = x
                <5>1. CASE t < k
                    <6>1. F[s] = Slot(n, t) /\ F[u] = Slot(n, t)
                        BY <1>6, <3>1, <5>1
                    <6>2. F[u] = Slot(n, x)
                        BY <4>1, <6>1, SlotsDiffer
                    <6>3. QED
                        BY <6>1, <6>2, SlotsDiffer
                <5>2. CASE t >= k
                    <6>1. F[s] = Slot(r, t - k) /\ F[u] = Slot(r, t - k)
                        BY <1>6, <3>1, <5>2
                    <6>2. F[u] = Slot(r, x - k)
                        BY <4>1, <6>1, SlotsDiffer
                    <6>3. t - k = x - k
                        BY <6>1, <6>2, SlotsDiffer
                    <6>4. QED
                        BY <6>3
                <5>3. QED
                    BY <5>1, <5>2
            <4>3. CASE t < a
                BY <3>1, <4>1, <4>2, <4>3
            <4>4. CASE t >= a
                BY <3>1, <4>1, <4>2, <4>4
            <4>5. QED
                BY <4>3, <4>4
        <3>4. QED
            BY <3>2, <3>3
    <2>3. QED
        BY <2>1, <2>2
<1>7. Keeps(h, g, F)
    BY <1>4, <1>5, <1>6 DEF Keeps
<1>8. QED
    BY <1>3, <1>7, WeightKept

\* A node takes in its right sibling and a value of the parent.
LEMMA WeightMerged ==
    ASSUME NEW h, NEW g, IsFiniteSet(Places(g)),
           NEW n \in DOMAIN h, NEW r \in DOMAIN h, NEW p \in DOMAIN h,
           n # r, n # p, r # p, DOMAIN g = DOMAIN h \ {r},
           NEW a \in Nat, NEW b \in Nat, NEW c \in Nat,
           Count(h, n) = a, Count(h, r) = b, Count(h, p) = c + 1,
           Count(g, n) = a + 1 + b, Count(g, p) = c,
           \A m \in DOMAIN g \ {n, p} : Count(g, m) = Count(h, m)
    PROVE  Weight(h) <= Weight(g)
<1> DEFINE F == [s \in Places(h) |->
                   IF s.node = r THEN Slot(n, a + 1 + s.position)
                   ELSE IF s.node = p /\ s.position = c THEN Slot(n, a) ELSE s]
<1>1. ASSUME NEW s \in Places(h), s.node = r
      PROVE  \E i \in Nat : i < b /\ s = Slot(r, i)
          /\ F[s] = Slot(n, a + 1 + i)
    <2>1. s = Slot(s.node, s.position) /\ PlaceAt(h, s.node, s.position)
        BY PlaceAtIs
    <2>2. F[s] = Slot(n, a + 1 + s.position)
        BY <1>1
    <2> HIDE DEF F
    <2>3. s.position \in Nat /\ s.position < b
        BY <1>1, <2>1 DEF PlaceAt
    <2>4. QED
        BY <1>1, <2>1, <2>2, <2>3
<1>2. ASSUME NEW s \in Places(h), s.node = p, s.position = c
      PROVE  s = Slot(p, c) /\ F[s] = Slot(n, a)
    <2>1. s = Slot(s.node, s.position)
        BY PlaceAtIs
    <2>2. F[s] = Slot(n, a)
        BY <1>2
    <2>3. QED
        BY <1>2, <2>1, <2>2
<1>3. ASSUME NEW s \in Places(h), s.node # r, ~(s.node = p /\ s.position = c)
      PROVE  F[s] = s
    BY <1>3
<1>4. F = [s \in Places(h) |-> F[s]]
    OBVIOUS
<1> HIDE DEF F
<1>5. ASSUME NEW m, NEW i, PlaceAt(h, m, i)
      PROVE  PlaceAt(g, F[Slot(m, i)].node, F[Slot(m, i)].position)
    <2>1. PICK s \in Places(h) : s = Slot(m, i)
        BY <1>5, PlaceAtIs
    <2>2. s.node = m /\ s.position = i
        BY <2>1, SlotIs
    <2>3. CASE m = r
        <3>1. PICK j \in Nat : j < b /\ F[s] = Slot(n, a + 1 + j)
            BY <1>1, <2>2, <2>3
        <3>2. PICK x \in Nat : x = a + 1 + j
            OBVIOUS
        <3>3. x < a + 1 + b
            BY <3>1, <3>2
        <3>4. PlaceAt(g, n, x)
            BY <3>3 DEF PlaceAt
        <3>5. F[s] = Slot(n, x)
            BY <3>1, <3>2
        <3>6. QED
            BY <2>1, <3>4, <3>5, SlotIs
    <2>4. CASE m = p /\ i = c
        <3>1. a < a + 1 + b
            OBVIOUS
        <3>2. PlaceAt(g, n, a)
            BY <3>1 DEF PlaceAt
        <3>3. F[s] = Slot(n, a)
            BY <1>2, <2>2, <2>4
        <3>4. QED
            BY <2>1, <3>2, <3>3, SlotIs
    <2>5. CASE m # r /\ ~(m = p /\ i = c)
        <3>1. F[s] = s
            BY <1>3, <2>2, <2>5
        <3>2. m \in DOMAIN g /\ i \in Nat /\ i < Count(h, m)
            BY <1>5, <2>5 DEF PlaceAt
        <3>3. CASE m = n
            <4>1. i < a + 1 + b
                BY <3>2, <3>3
            <4>2. PlaceAt(g, m, i)
                BY <3>2, <3>3, <4>1 DEF PlaceAt
            <4>3. QED
                BY <2>1, <2>2, <3>1, <4>2
        <3>4. CASE m = p
            <4>1. i < c
                BY <2>5, <3>2, <3>4
            <4>2. PlaceAt(g, m, i)
                BY <3>2, <3>4, <4>1 DEF PlaceAt
            <4>3. QED
                BY <2>1, <2>2, <3>1, <4>2
        <3>5. CASE m # n /\ m # p
            <4>1. PlaceAt(g, m, i)
                BY <3>2, <3>5 DEF PlaceAt
            <4>2. QED
                BY <2>1, <2>2, <3>1, <4>1
        <3>6. QED
            BY <3>3, <3>4, <3>5
    <2>6. QED
        BY <2>3, <2>4, <2>5
<1>6. ASSUME NEW s \in Places(h)
      PROVE  /\ F[s] = Slot(F[s].node, F[s].position)
             /\ \/ \E i \in Nat : s = Slot(r, i) /\ F[s] = Slot(n, a + 1 + i)
                \/ s = Slot(p, c) /\ F[s] = Slot(n, a)
                \/ /\ F[s] = s /\ s.node # r
                   /\ s.node = n => s.position \in Nat /\ s.position < a
    <2>1. CASE s.node = r
        BY <1>1, <2>1, SlotIs
    <2>2. CASE s.node = p /\ s.position = c
        BY <1>2, <2>2, SlotIs
    <2>3. CASE s.node # r /\ ~(s.node = p /\ s.position = c)
        <3>1. s = Slot(s.node, s.position) /\ PlaceAt(h, s.node, s.position)
            BY PlaceAtIs
        <3>2. F[s] = s
            BY <1>3, <2>3
        <3>3. s.node = n => s.position \in Nat /\ s.position < a
            BY <3>1 DEF PlaceAt
        <3>4. QED
            BY <2>3, <3>1, <3>2, <3>3
    <2>4. QED
        BY <2>1, <2>2, <2>3
<1>7. ASSUME NEW s \in Places(h), NEW u \in Places(h), F[s] = F[u] PROVE s = u
    <2>1. CASE \E i \in Nat : s = Slot(r, i) /\ F[s] = Slot(n, a + 1 + i)
        <3>1. PICK i \in Nat : s = Slot(r, i) /\ F[s] = Slot(n, a + 1 + i)
            BY <2>1
        <3>2. CASE \E j \in Nat : u = Slot(r, j) /\ F[u] = Slot(n, a + 1 + j)
            <4>1. PICK j \in Nat : u = Slot(r, j) /\ F[u] = Slot(n, a + 1 + j)
                BY <3>2
            <4>2. a + 1 + i = a + 1 + j
                BY <1>7, <3>1, <4>1, SlotsDiffer
            <4>3. i = j
                BY <4>2
            <4>4. QED
                BY <3>1, <4>1, <4>3
        <3>3. CASE F[u] = Slot(n, a)
            <4>1. a + 1 + i = a
                BY <1>7, <3>1, <3>3, SlotsDiffer
            <4>2. QED
                BY <4>1
        <3>4. CASE F[u] = u
                  /\ (u.node = n => u.position \in Nat /\ u.position < a)
            <4>1. u.node = n /\ u.position = a + 1 + i
                BY <1>7, <3>1, <3>4, SlotIs
            <4>2. QED
                BY <3>4, <4>1
        <3>5. QED
            BY <1>6, <3>2, <3>3, <3>4
    <2>2. CASE s = Slot(p, c) /\ F[s] = Slot(n, a)
        <3>1. CASE \E j \in Nat : F[u] = Slot(n, a + 1 + j)
            <4>1. PICK j \in Nat : F[u] = Slot(n, a + 1 + j)
                BY <3>1
            <4>2. a = a + 1 + j
                BY <1>7, <2>2, <4>1, SlotsDiffer
            <4>3. QED
                BY <4>2
        <3>2. CASE u = Slot(p, c)
            BY <2>2, <3>2
        <3>3. CASE F[u] = u
                  /\ (u.node = n => u.position \in Nat /\ u.position < a)
            <4>1. u.node = n /\ u.position = a
                BY <1>7, <2>2, <3>3, SlotIs
            <4>2. QED
                BY <3>3, <4>1
        <3>4. QED
            BY <1>6, <3>1, <3>2, <3>3
    <2>3. CASE F[s] = s /\ (s.node = n => s.position \in Nat /\ s.position < a)
        <3>1. CASE \E j \in Nat : F[u] = Slot(n, a + 1 + j)
            <4>1. PICK j \in Nat : F[u] = Slot(n, a + 1 + j)
                BY <3>1
            <4>2. s = Slot(n, a + 1 + j)
                BY <1>7, <2>3, <4>1
            <4>3. s.node = n /\ s.position = a + 1 + j
                BY <4>2, SlotIs
            <4>4. QED
                BY <2>3, <4>3
        <3>2. CASE F[u] = Slot(n, a)
            <4>1. s = Slot(n, a)
                BY <1>7, <2>3, <3>2
            <4>2. s.node = n /\ s.position = a
                BY <4>1, SlotIs
            <4>3. QED
                BY <2>3, <4>2
        <3>3. CASE F[u] = u
            BY <1>7, <2>3, <3>3
        <3>4. QED
            BY <1>6, <3>1, <3>2, <3>3
    <2>4. QED
        BY <1>6, <2>1, <2>2, <2>3
<1>8. Keeps(h, g, F)
    BY <1>5, <1>6, <1>7 DEF Keeps
<1>9. QED
    BY <1>4, <1>8, WeightKept

\* The contents of a node move to one without any.
LEMMA WeightMoved ==
    ASSUME NEW h, NEW g, IsFiniteSet(Places(g)),
           NEW c \in DOMAIN h, NEW top \in DOMAIN h, c # top,
           DOMAIN g = DOMAIN h \ {c}, Count(h, top) = 0,
           Count(g, top) = Count(h, c),
           \A m \in DOMAIN g \ {top} : Count(g, m) = Count(h, m)
    PROVE  Weight(h) <= Weight(g)
<1> DEFINE F ==
        [s \in Places(h) |-> IF s.node = c THEN Slot(top, s.position) ELSE s]
<1>1. ASSUME NEW s \in Places(h), s.node = c
      PROVE  s = Slot(c, s.position) /\ F[s] = Slot(top, s.position)
    <2>1. s = Slot(s.node, s.position)
        BY PlaceAtIs
    <2>2. F[s] = Slot(top, s.position)
        BY <1>1
    <2>3. QED
        BY <1>1, <2>1, <2>2
<1>2. ASSUME NEW s \in Places(h), s.node # c
      PROVE  F[s] = s
    BY <1>2
<1>3. F = [s \in Places(h) |-> F[s]]
    OBVIOUS
<1> HIDE DEF F
<1>4. \A m, i : PlaceAt(h, m, i) => m # top
    <2>1. \A i \in Nat : ~(i < 0)
        OBVIOUS
    <2>2. QED
        BY <2>1 DEF PlaceAt
<1>5. ASSUME NEW m, NEW i, PlaceAt(h, m, i)
      PROVE  PlaceAt(g, F[Slot(m, i)].node, F[Slot(m, i)].position)
    <2>1. PICK s \in Places(h) : s = Slot(m, i)
        BY <1>5, PlaceAtIs
    <2>2. s.node = m /\ s.position = i
        BY <2>1, SlotIs
    <2>3. CASE m = c
        <3>1. F[s] = Slot(top, i)
            BY <1>1, <2>2, <2>3
        <3>2. PlaceAt(g, top, i)
            BY <1>5, <2>3 DEF PlaceAt
        <3>3. QED
            BY <2>1, <3>1, <3>2, SlotIs
    <2>4. CASE m # c
        <3>1. F[s] = s
            BY <1>2, <2>2, <2>4
        <3>2. PlaceAt(g, m, i)
            BY <1>4, <1>5, <2>4 DEF PlaceAt
        <3>3. QED
            BY <2>1, <2>2, <3>1, <3>2
    <2>5. QED
        BY <2>3, <2>4
<1>6. ASSUME NEW s \in Places(h)
        PROVE s.node # top /\ s = Slot(s.node, s.position)
    <2>1. s = Slot(s.node, s.position) /\ PlaceAt(h, s.node, s.position)
        BY PlaceAtIs
    <2>2. QED
        BY <1>4, <2>1
<1>7. ASSUME NEW s \in Places(h) PROVE F[s] = Slot(F[s].node, F[s].position)
    <2>1. CASE s.node = c
        BY <1>1, <2>1, SlotIs
    <2>2. CASE s.node # c
        BY <1>2, <1>6, <2>2
    <2>3. QED
        BY <2>1, <2>2
<1>8. ASSUME NEW s \in Places(h), NEW u \in Places(h), F[s] = F[u] PROVE s = u
    <2>1. CASE s.node = c /\ u.node = c
        <3>1. Slot(top, s.position) = Slot(top, u.position)
            BY <1>1, <1>8, <2>1
        <3>2. s.position = u.position
            BY <3>1, SlotsDiffer
        <3>3. QED
            BY <1>1, <2>1, <3>2
    <2>2. CASE s.node = c /\ u.node # c
        <3>1. u = Slot(top, s.position)
            BY <1>1, <1>2, <1>8, <2>2
        <3>2. QED
            BY <1>6, <3>1, SlotIs
    <2>3. CASE s.node # c /\ u.node = c
        <3>1. s = Slot(top, u.position)
            BY <1>1, <1>2, <1>8, <2>3
        <3>2. QED
            BY <1>6, <3>1, SlotIs
    <2>4. CASE s.node # c /\ u.node # c
        BY <1>2, <1>8, <2>4
    <2>5. QED
        BY <2>1, <2>2, <2>3, <2>4
<1>9. Keeps(h, g, F)
    BY <1>5, <1>7, <1>8 DEF Keeps
<1>10. QED
    BY <1>3, <1>9, WeightKept

(***************************************************************************)
(* Removing a value                                                        *)
(***************************************************************************)

(***************************************************************************)
(* A value leaves its leaf.                                                *)
(***************************************************************************)

\* The nodes are the same, and so are those that are leaves.
SameShape(h, g) ==
    /\ DOMAIN g = DOMAIN h
    /\ \A m \in DOMAIN h : g[m].leaf = h[m].leaf
          /\ g[m].max_count = h[m].max_count

\* Other values leave the shape.
LEMMA RevaluedShape ==
    ASSUME NEW h, NEW g, NEW n, NEW values, Revalued(h, g, n, values)
    PROVE  SameShape(h, g)
BY DEF Revalued, SameShape

\* h with v as the value at place i of n.
WithValue(h, n, i, v) == [h EXCEPT ![n].values[i] = v]

\* Another value in the place of one on an internal node.
LEMMA SwapIs ==
    ASSUME NEW h, NEW top, NEW lv, NEW S, Tree(h, top, lv, S),
           NEW n \in DOMAIN h, NEW i \in 1..Len(h[n].values), NEW v \in Values,
           NEW g, g = WithValue(h, n, i, v)
    PROVE  /\ Tree(g, top, lv, S) /\ SameShape(h, g)
           /\ \A m \in DOMAIN h : Count(g, m) = Count(h, m)
<1>1. /\ Heap(h) /\ h[n].values \in Seq(Values)
      /\ Count(h, n) = Len(h[n].values)
    BY NodeIs, CountIs DEF Tree
<1>2. PICK values : values = [h[n].values EXCEPT ![i] = v]
    OBVIOUS
<1>3. values \in Seq(Values) /\ Len(values) = Len(h[n].values)
    BY <1>1, <1>2
<1>4. g = [h EXCEPT ![n].values = values]
    BY <1>2 DEF WithValue
<1>5. Revalued(h, g, n, values)
    BY <1>1, <1>3, <1>4, RevaluedIs
<1>6. Count(g, n) = Count(h, n)
    <2>1. Count(g, n) = Len(values)
        BY <1>5, RevaluedCounts
    <2>2. QED
        BY <1>1, <1>3, <2>1
<1>7. Len(values) = Count(h, n)
    BY <1>1, <1>3
<1>8. Len(values) <= h[n].max_count
    <2>1. Count(h, n) <= h[n].max_count
        BY DEF Tree, Sized
    <2>2. QED
        BY <1>7, <2>1
<1>9. Tree(g, top, lv, S)
    BY <1>5, <1>7, <1>8, RevaluedTree
<1>10. \A m \in DOMAIN h \ {n} : Count(g, m) = Count(h, m)
    BY <1>5, RevaluedCounts
<1>11. QED
    BY <1>5, <1>6, <1>9, <1>10, RevaluedShape

\* g is h with one value less on the leaf n, or as many if there was none at
\* the place.
LessOne(h, g, n, i) ==
    /\ SameShape(h, g)
    /\ \A m \in DOMAIN h \ {n} : Count(g, m) = Count(h, m)
    /\ Count(g, n) = IF i < Count(h, n) THEN Count(h, n) - 1 ELSE Count(h, n)

\* Removing a value from a leaf leaves a tree.
LEMMA RemoveValueIs ==
    ASSUME NEW h, NEW top, NEW lv, NEW S, Tree(h, top, lv, S),
           NEW s, s.node \in DOMAIN h, h[s.node].leaf,
           s.position \in 0..Count(h, s.node),
           NEW g, g = RemoveValue(h, s)
    PROVE  Tree(g, top, lv, S) /\ LessOne(h, g, s.node, s.position)
<1>1. PICK n \in DOMAIN h : n = s.node
    OBVIOUS
<1>2. /\ Heap(h) /\ h[n].values \in Seq(Values)
      /\ Count(h, n) \in Nat /\ Count(h, n) = Len(h[n].values)
    BY NodeIs, CountIs DEF Tree
<1>3. PICK N \in Nat : N = Count(h, n)
    BY <1>2
<1>4. PICK i \in 0..N : i = s.position
    BY <1>1, <1>3
<1>5. PICK values : values = RemoveAt(h[n].values, i + 1)
    OBVIOUS
<1>6. values \in Seq(Values) /\ Len(values) = IF i < N THEN N - 1 ELSE N
    <2>1. PICK t \in Seq(Values) : t = h[n].values
        BY <1>2
    <2>2. Len(t) = N
        BY <1>2, <1>3, <2>1
    <2>3. CASE i < N
        <3>1. PICK j \in 1..Len(t) : j = i + 1
            BY <2>2, <2>3
        <3>2. RemoveAt(t, j) \in Seq(Values)
                  /\ Len(RemoveAt(t, j)) = Len(t) - 1
            BY RemoveAtIs
        <3>3. values = RemoveAt(t, j)
            BY <1>5, <2>1, <3>1
        <3>4. QED
            BY <2>2, <2>3, <3>2, <3>3
    <2>4. CASE ~(i < N)
        <3>1. i + 1 = Len(t) + 1
            BY <2>2, <2>4
        <3>2. RemoveAt(t, Len(t) + 1) = t
            BY RemoveBehind
        <3>3. values = t
            BY <1>5, <2>1, <3>1, <3>2
        <3>4. QED
            BY <2>2, <2>4, <3>3
    <2>5. QED
        BY <2>3, <2>4
<1>7. g = [h EXCEPT ![n].values = values]
    BY <1>1, <1>4, <1>5 DEF RemoveValue
<1>8. Revalued(h, g, n, values)
    <2>1. values \in Seq(Values)
        BY <1>6
    <2>2. QED
        BY <1>2, <1>7, <2>1, RevaluedIs
<1>9. Count(g, n) = Len(values)
    BY <1>8, RevaluedCounts
<1>10. Len(values) <= N
    BY <1>6
<1>11. Len(values) <= h[n].max_count
    <2>1. Count(h, n) <= h[n].max_count /\ h[n].max_count \in Nat
        BY <1>2, NodeIs DEF Tree, Sized
    <2>2. Len(values) \in Nat
        BY <1>6
    <2>3. QED
        BY <1>3, <1>10, <2>1, <2>2
<1>12. h[n].leaf
    BY <1>1
<1>13. Tree(g, top, lv, S)
    BY <1>8, <1>11, <1>12, RevaluedTree
<1>14. \A m \in DOMAIN h \ {n} : Count(g, m) = Count(h, m)
    BY <1>8, RevaluedCounts
<1>15. SameShape(h, g)
    BY <1>8, RevaluedShape
<1>16. LessOne(h, g, n, i)
    BY <1>3, <1>6, <1>9, <1>14, <1>15 DEF LessOne
<1>17. QED
    BY <1>1, <1>4, <1>13, <1>16

\* At most one value is gone.
LEMMA WeightLess ==
    ASSUME NEW h, NEW top, NEW lv, NEW S, Tree(h, top, lv, S),
           NEW n \in DOMAIN h, NEW i \in Nat, NEW g, LessOne(h, g, n, i)
    PROVE  Weight(h) - 1 <= Weight(g)
<1>1. IsFiniteSet(Places(h)) /\ Weight(h) \in Nat
    BY PlacesFinite DEF Weight
<1>2. PICK N \in Nat : N = Count(h, n)
    BY CountIs DEF Tree
<1>3. DOMAIN g = DOMAIN h
    BY DEF LessOne, SameShape
<1>4. \A m \in DOMAIN h \ {n} : Count(g, m) = Count(h, m)
    BY DEF LessOne
<1>5. CASE i < N
    <2>1. PICK c \in Nat : c = N - 1
        BY <1>5
    <2>2. Count(h, n) = c + 1
        BY <1>2, <2>1
    <2>3. Count(g, n) = c
        BY <1>2, <1>5, <2>1 DEF LessOne
    <2>4. Weight(g) = Weight(h) - 1
        BY <1>1, <1>3, <1>4, <2>2, <2>3, WeightOneLess
    <2>5. QED
        BY <1>1, <2>4
<1>6. CASE ~(i < N)
    <2>1. Count(g, n) = Count(h, n)
        BY <1>2, <1>6 DEF LessOne
    <2>2. \A m \in DOMAIN h : m \in DOMAIN g /\ Count(g, m) = Count(h, m)
        BY <1>3, <1>4, <2>1
    <2>3. Weight(g) = Weight(h)
        BY <1>3, <2>2, WeightSame
    <2>4. QED
        BY <1>1, <2>3
<1>7. QED
    BY <1>5, <1>6

\* A value on an internal node is overwritten by the one before it.
Swapped(h, s, from) ==
    IF ~h[s.node].leaf
    THEN [h EXCEPT ![s.node].values[s.position + 1] = ValueAt(h, from)] ELSE h

\* The place in a leaf that the erased value, or the one before it, is at.
ErasedAt(h, s) == IF ~h[s.node].leaf THEN Decrement(h, s) ELSE s

\* g is h after a value went, from the leaf place s.
RemovedAt(h, g, s) ==
    /\ SameShape(h, g)
    /\ \E n \in DOMAIN h, i \in Nat :
          /\ s = Slot(n, i) /\ h[n].leaf /\ i <= Count(g, n)
          /\ \A m \in DOMAIN h \ {n} : Count(g, m) = Count(h, m)
    /\ Weight(h) - 1 <= Weight(g)

\* Removing from a leaf.
LEMMA LeafRemovalIs ==
    ASSUME NEW h, NEW top, NEW lv, NEW S, Tree(h, top, lv, S),
           NEW n \in DOMAIN h, h[n].leaf, NEW i \in 0..Count(h, n),
           NEW s, s = Slot(n, i), NEW g, g = RemoveValue(h, s)
    PROVE  Tree(g, top, lv, S) /\ RemovedAt(h, g, s)
<1>1. s.node = n /\ s.position = i
    BY SlotIs
<1>2. PICK N \in Nat : N = Count(h, n)
    BY CountIs DEF Tree
<1>3. Tree(g, top, lv, S) /\ LessOne(h, g, n, i)
    BY <1>1, RemoveValueIs
<1>4. i \in Nat
    BY <1>2
<1>5. Weight(h) - 1 <= Weight(g)
    BY <1>3, <1>4, WeightLess
<1>6. i <= Count(g, n)
    <2>1. Count(g, n) = IF i < N THEN N - 1 ELSE N
        BY <1>2, <1>3 DEF LessOne
    <2>2. i <= N
        BY <1>2
    <2>3. QED
        BY <1>4, <2>1, <2>2
<1>7. SameShape(h, g) /\ \A m \in DOMAIN h \ {n} : Count(g, m) = Count(h, m)
    BY <1>3 DEF LessOne
<1>8. QED
    BY <1>3, <1>4, <1>5, <1>6, <1>7 DEF RemovedAt

\* Removing from an internal node.
LEMMA InternalRemovalIs ==
    ASSUME NEW h, NEW top, NEW lv, NEW S, Tree(h, top, lv, S),
           \A m \in DOMAIN h : Count(h, m) # 0,
           NEW n \in DOMAIN h, ~h[n].leaf, NEW i \in Nat, i < Count(h, n),
           NEW s, s = Decrement(h, Slot(n, i)),
           NEW f, f = Swapped(h, Slot(n, i), s), NEW g, g = RemoveValue(f, s)
    PROVE  Tree(g, top, lv, S) /\ RemovedAt(h, g, s)
<1>1. PICK l \in DOMAIN h : h[l].leaf /\ s = Slot(l, Count(h, l) - 1)
    BY DecrementIs
<1>2. PICK N \in Nat : N = Count(h, l) /\ N # 0
    BY CountIs DEF Tree
<1>3. PICK j \in 0..N : j = N - 1
    BY <1>2
<1>4. s = Slot(l, j) /\ s.node = l /\ s.position = j
    BY <1>1, <1>2, <1>3, SlotIs
<1>5. PICK v \in Values : v = ValueAt(h, s)
    <2>1. h[l].values \in Seq(Values) /\ Len(h[l].values) = N
        BY <1>2, NodeIs, CountIs DEF Tree
    <2>2. j + 1 \in 1..N
        BY <1>2, <1>3
    <2>3. h[l].values[j + 1] \in Values
        BY <2>1, <2>2
    <2>4. QED
        BY <1>4, <2>3 DEF ValueAt
<1>6. PICK k \in 1..Len(h[n].values) : k = i + 1
    <2>1. PICK L \in Nat : L = Len(h[n].values) /\ L = Count(h, n)
        BY CountIs DEF Tree
    <2>2. i + 1 \in 1..L
        BY <2>1
    <2>3. QED
        BY <2>1, <2>2
<1>7. f = WithValue(h, n, k, v)
    <2>1. Slot(n, i).node = n /\ Slot(n, i).position = i
        BY SlotIs
    <2>2. QED
        BY <1>5, <1>6, <2>1 DEF Swapped, WithValue
<1>8. /\ Tree(f, top, lv, S) /\ SameShape(h, f)
      /\ \A m \in DOMAIN h : Count(f, m) = Count(h, m)
    BY <1>7, SwapIs
<1>9. l \in DOMAIN f /\ f[l].leaf /\ j \in 0..Count(f, l)
    BY <1>1, <1>2, <1>3, <1>8 DEF SameShape
<1>10. Tree(g, top, lv, S) /\ RemovedAt(f, g, s)
    BY <1>4, <1>8, <1>9, LeafRemovalIs
<1>11. Weight(f) = Weight(h)
    <2>1. DOMAIN f = DOMAIN h
        BY <1>8 DEF SameShape
    <2>2. \A m \in DOMAIN h : m \in DOMAIN f /\ Count(f, m) = Count(h, m)
        BY <1>8, <2>1
    <2>3. QED
        BY <2>1, <2>2, WeightSame
<1>12. RemovedAt(h, g, s)
    <2>1. SameShape(h, g)
        <3>1. SameShape(f, g)
            BY <1>10 DEF RemovedAt
        <3>2. QED
            BY <1>8, <3>1 DEF SameShape
    <2>2. PICK m \in DOMAIN f, x \in Nat :
             /\ s = Slot(m, x) /\ f[m].leaf /\ x <= Count(g, m)
             /\ \A y \in DOMAIN f \ {m} : Count(g, y) = Count(f, y)
        BY <1>10 DEF RemovedAt
    <2>3. m \in DOMAIN h /\ h[m].leaf
              /\ \A y \in DOMAIN h \ {m} : Count(g, y) = Count(h, y)
        BY <1>8, <2>2 DEF SameShape
    <2>4. Weight(h) - 1 <= Weight(g)
        BY <1>10, <1>11 DEF RemovedAt
    <2>5. QED
        BY <2>1, <2>2, <2>3, <2>4 DEF RemovedAt
<1>13. QED
    BY <1>10, <1>12

\* erase takes one value out of a leaf and leaves a tree.
LEMMA RemovalIs ==
    ASSUME NEW h, NEW top, NEW lv, NEW S, Tree(h, top, lv, S),
           \A m \in DOMAIN h : Count(h, m) # 0,
           NEW s, PlaceIn(h, s), NEW from, from = ErasedAt(h, s),
           NEW g, g = RemoveValue(Swapped(h, s, from), from)
    PROVE  Tree(g, top, lv, S) /\ RemovedAt(h, g, from)
<1>1. PICK n \in DOMAIN h, i \in Nat :
         /\ s = Slot(n, i)
         /\ \/ h[n].leaf /\ i <= Count(h, n)
            \/ i < Count(h, n)
    BY DEF PlaceIn, LeafPlaceOf, ValuePlaceOf
<1>2. s.node = n /\ s.position = i
    BY <1>1, SlotIs
<1>3. Count(h, n) \in Nat
    BY CountIs DEF Tree
<1>4. CASE h[n].leaf
    <2>1. i \in 0..Count(h, n)
        BY <1>1, <1>3
    <2>2. from = s /\ g = RemoveValue(h, s)
        BY <1>2, <1>4 DEF ErasedAt, Swapped
    <2>3. QED
        BY <1>1, <1>4, <2>1, <2>2, LeafRemovalIs
<1>5. CASE ~h[n].leaf
    <2>1. i < Count(h, n)
        BY <1>1, <1>5
    <2>2. from = Decrement(h, Slot(n, i))
        BY <1>1, <1>2, <1>5 DEF ErasedAt
    <2>3. Swapped(h, s, from) = Swapped(h, Slot(n, i), from)
        BY <1>1
    <2>4. QED
        BY <1>5, <2>1, <2>2, <2>3, InternalRemovalIs
<1>6. QED
    BY <1>4, <1>5

\* Heights count down from the root, as levels count up from the leaves.
LEMMA HeightIs ==
    ASSUME NEW lv, NEW S, Tree(heap, root, lv, S), NEW n \in DOMAIN heap
    PROVE  Height(heap, n) = lv[root] - lv[n]
<1> DEFINE D == DOMAIN heap
           rank == DownRank(heap, root, lv)
           Up(f) ==
               f = [m \in D |-> IF m = root THEN 0 ELSE 1 + f[heap[m].parent]]
           U == CHOOSE f : Up(f)
<1>1. Height(heap, n) = U[n]
    BY DEF Height
<1>2. \A m \in D : lv[m] \in Nat /\ lv[root] \in Nat
    BY LevelsAre
<1>3. \A m \in D : m # root
          => heap[m].parent \in D /\ lv[heap[m].parent] = lv[m] + 1
    BY LevelsAre
<1>4. \E f : Up(f)
    <2>1. PICK f : f = [m \in D |-> lv[root] - lv[m]]
        OBVIOUS
    <2>2. ASSUME NEW m \in D
          PROVE  f[m] = IF m = root THEN 0 ELSE 1 + f[heap[m].parent]
        <3>1. f[m] = lv[root] - lv[m]
            BY <2>1
        <3>2. CASE m = root
            BY <1>2, <3>1, <3>2
        <3>3. CASE m # root
            <4>1. PICK p \in D : p = heap[m].parent /\ lv[p] = lv[m] + 1
                BY <1>3, <3>3
            <4>2. f[p] = lv[root] - lv[p]
                BY <2>1
            <4>3. lv[root] - lv[m] = 1 + (lv[root] - lv[p])
                BY <1>2, <4>1
            <4>4. QED
                BY <3>1, <3>3, <4>1, <4>2, <4>3
        <3>4. QED
            BY <3>2, <3>3
    <2>3. f = [m \in D |-> f[m]]
        BY <2>1
    <2>4. Up(f)
        BY <2>2, <2>3
    <2>5. QED
        BY <2>4
<1> HIDE DEF Up
<1>5. Up(U)
    BY <1>4
<1> HIDE DEF U
<1>6. \A m \in D : U[m] = IF m = root THEN 0 ELSE 1 + U[heap[m].parent]
    BY <1>5 DEF Up
<1> DEFINE P == {m \in D : U[m] = lv[root] - lv[m]}
<1>7. ASSUME NEW m \in D, \A e \in D : rank[e] < rank[m] => e \in P
      PROVE  m \in P
    <2>1. CASE m = root
        <3>1. U[m] = 0 /\ lv[root] - lv[m] = 0
            BY <1>2, <1>6, <2>1
        <3>2. QED
            BY <3>1
    <2>2. CASE m # root
        <3>1. PICK p \in D : p = heap[m].parent /\ lv[p] = lv[m] + 1
            BY <1>3, <2>2
        <3>2. rank[p] < rank[m]
            BY <2>2, <3>1, LevelsAre
        <3>3. p \in P
            BY <1>7, <3>2
        <3>4. U[m] = 1 + (lv[root] - lv[p])
            BY <1>6, <2>2, <3>1, <3>3
        <3>5. U[m] = lv[root] - lv[m]
            BY <1>2, <3>1, <3>4
        <3>6. QED
            BY <3>5
    <2>3. QED
        BY <2>1, <2>2
<1>8. Ranked(rank, D, lv[root] + 1)
    BY LevelsRank
<1> HIDE DEF P, rank, D
<1>9. D \subseteq P
    BY <1>7, <1>8, RankInduction
<1>10. n \in P
    BY <1>9 DEF D
<1>11. QED
    BY <1>1, <1>10 DEF P
=============================================================================

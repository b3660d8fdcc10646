---------------------------- MODULE QueryProofs ----------------------------
(***************************************************************************)
(* What holds of the queries of module Query, whatever tables, indexes and *)
(* statements there are.                                                   *)
(*                                                                         *)
(* First the join files: a query reads only what it has written itself,    *)
(* and leaves nothing behind.  This follows from the order in which the    *)
(* steps write, name and remove their files, whatever the joins compute.   *)
(* Then what the joins compute: lemmas about sequences, about the file of  *)
(* a join and about what the search for a join finds lead to the types, to *)
(* the index maps, which stay as they were loaded, and to the header of    *)
(* the file that is evaluated, in which every table has been joined once.  *)
(***************************************************************************)
EXTENDS Query, EvaluatorProofs

\* What the process knows of its files, step by step.  The end of a process
\* leaves the reply that says how it ended, which the next one starts with.
FilesInv ==
    /\ LastFileWritten
    /\ JoinFilesRemoved
    /\ DOMAIN joinFiles \subseteq JoinNames
    /\ pc \in {"down", "prompt"} => lastJoinFile = NoFile
    /\ pc = "down" => reply \in {"none", "crashed"}
    /\ pc = "execute" => tableNames = query.from

\* Writing a file adds its name to those that exist.
LEMMA WriteAdds ==
    ASSUME NEW file, NEW content, Write(file, content)
    PROVE  DOMAIN joinFiles' = DOMAIN joinFiles \cup {file}
BY DEF Write

\* Clear() leaves of the join files at most the product being written.
LEMMA ClearLeavesTemp ==
    ASSUME DOMAIN joinFiles \subseteq JoinNames, Clear
    PROVE  /\ DOMAIN joinFiles' \subseteq {"temp"}
           /\ lastJoinFile' = NoFile
BY DEF Clear, Restrict, ScratchFiles, JoinNames

LEMMA InitialFiles ==
    ASSUME Init
    PROVE  FilesInv
<1>1. DOMAIN joinFiles = {}
    BY DEF Init
<1>2. pc = "down" /\ reply = "none" /\ lastJoinFile = NoFile
    BY DEF Init
<1>3. QED
    BY <1>1, <1>2 DEF FilesInv, LastFileWritten, JoinFilesRemoved, NoFile

\* The end of the process, killed or not.
LEMMA EndKeepsFiles ==
    ASSUME FilesInv, LoseProcess, reply' \in {"none", "crashed"}
    PROVE  FilesInv'
BY DEF FilesInv, LastFileWritten, JoinFilesRemoved, LoseProcess, NoFile

LEMMA ParseKeepsFiles ==
    ASSUME FilesInv, NEW q, Parse(q)
    PROVE  FilesInv'
<1>1. CASE Valid(q)
    <2>1. /\ pc = "prompt" /\ pc' = "execute" /\ reply' = "none"
          /\ query' = q /\ tableNames' = q.from
          /\ UNCHANGED <<lastJoinFile, joinFiles>>
        BY <1>1 DEF Parse
    <2>2. QED
        BY <2>1 DEF FilesInv, LastFileWritten, JoinFilesRemoved, NoFile
<1>2. CASE ~Valid(q)
    <2>1. pc' = "prompt" /\ reply' = "refused" /\ Clear
        BY <1>2 DEF Parse
    <2>2. DOMAIN joinFiles' \subseteq {"temp"} /\ lastJoinFile' = NoFile
        BY <2>1, ClearLeavesTemp DEF FilesInv
    <2>3. QED
        BY <2>1, <2>2
        DEF FilesInv, LastFileWritten, JoinFilesRemoved, JoinNames, NoFile
<1>3. QED
    BY <1>1, <1>2

\* An index or hash join makes its result the last file.
LEMMA JoinKeepsFiles ==
    ASSUME FilesInv, NEW file \in {"index", "hash"}, NEW joined,
           WriteResultsToJoinFile(file, joined)
    PROVE  FilesInv'
<1>1. DOMAIN joinFiles' = DOMAIN joinFiles \cup {file}
    BY WriteAdds DEF WriteResultsToJoinFile
<1>2. lastJoinFile' = JoinFile(file) /\ pc' = "product"
    BY DEF WriteResultsToJoinFile
<1>3. QED
    BY <1>1, <1>2 DEF FilesInv, LastFileWritten, JoinFilesRemoved, JoinNames,
                      JoinFile, NoFile

LEMMA WriteProductKeepsFiles ==
    ASSUME FilesInv, WriteProduct
    PROVE  FilesInv'
<1>1. DOMAIN joinFiles' = DOMAIN joinFiles \cup {"temp"}
    <2>1. PICK content : Write("temp", content)
        BY DEF WriteProduct
    <2>2. QED
        BY <2>1, WriteAdds
<1>2. pc' = "copy" /\ UNCHANGED lastJoinFile
    BY DEF WriteProduct, fields
<1>3. QED
    BY <1>1, <1>2 DEF FilesInv, LastFileWritten, JoinFilesRemoved, JoinNames

LEMMA CopyProductKeepsFiles ==
    ASSUME FilesInv, CopyProduct
    PROVE  FilesInv'
<1>1. DOMAIN joinFiles' = (DOMAIN joinFiles \ {"temp"}) \cup {"nestedloop"}
    BY DEF CopyProduct
<1>2. lastJoinFile' = JoinFile("nestedloop") /\ pc' = "product"
    BY DEF CopyProduct
<1>3. QED
    BY <1>1, <1>2 DEF FilesInv, LastFileWritten, JoinFilesRemoved, JoinNames,
                      JoinFile, NoFile

\* The steps that write no file.
LEMMA SearchKeepsFiles ==
    ASSUME FilesInv, ExecuteOnOneTable \/ TryComparison \/ NoJoinFound
    PROVE  FilesInv'
<1>1. CASE ExecuteOnOneTable
    <2>1. /\ lastJoinFile' = TableFile(query.from[1]) /\ pc' = "scan"
          /\ UNCHANGED joinFiles
        BY <1>1 DEF ExecuteOnOneTable
    <2>2. QED
        BY <2>1 DEF FilesInv, LastFileWritten, JoinFilesRemoved, TableFile
<1>2. CASE TryComparison
    <2>1. /\ pc = "execute" /\ pc' \in {"execute", "index_join", "hash_join"}
          /\ UNCHANGED <<lastJoinFile, joinFiles, tableNames, query>>
        BY <1>2 DEF TryComparison
    <2>2. QED
        BY <2>1 DEF FilesInv, LastFileWritten, JoinFilesRemoved, NoFile
<1>3. CASE NoJoinFound
    <2>1. /\ pc = "execute" /\ Len(query.from) > 1 /\ pc' = "product"
          /\ UNCHANGED <<lastJoinFile, joinFiles, tableNames>>
        BY <1>3 DEF NoJoinFound, fields
    <2>2. QED
        BY <2>1 DEF FilesInv, LastFileWritten, JoinFilesRemoved, NoFile
<1>4. QED
    BY <1>1, <1>2, <1>3

LEMMA ScanKeepsFiles ==
    ASSUME FilesInv, AllJoined \/ ScanRow \/ ScanDone
    PROVE  FilesInv'
<1>1. CASE AllJoined
    <2>1. pc' = "scan" /\ UNCHANGED <<lastJoinFile, joinFiles>>
        BY <1>1 DEF AllJoined
    <2>2. QED
        BY <2>1 DEF FilesInv, LastFileWritten, JoinFilesRemoved
<1>2. CASE ScanRow
    <2>1. pc = "scan" /\ pc' = pc /\ UNCHANGED <<lastJoinFile, joinFiles>>
        BY <1>2 DEF ScanRow
    <2>2. QED
        BY <2>1 DEF FilesInv, LastFileWritten, JoinFilesRemoved
<1>3. CASE ScanDone
    <2>1. pc' = "prompt" /\ Clear
        BY <1>3 DEF ScanDone
    <2>2. DOMAIN joinFiles' \subseteq {"temp"} /\ lastJoinFile' = NoFile
        BY <2>1, ClearLeavesTemp DEF FilesInv
    <2>3. QED
        BY <2>1, <2>2
        DEF FilesInv, LastFileWritten, JoinFilesRemoved, JoinNames, NoFile
<1>4. QED
    BY <1>1, <1>2, <1>3

LEMMA StepKeepsFiles ==
    ASSUME FilesInv, [Next]_vars
    PROVE  FilesInv'
<1>1. CASE Start
    <2>1. pc = "down" /\ pc' = "prompt" /\ UNCHANGED <<joinFiles, reply, lastJoinFile>>
        BY <1>1 DEF Start, fields
    <2>2. QED
        BY <2>1 DEF FilesInv, LastFileWritten, JoinFilesRemoved, NoFile
<1>2. CASE Kill
    BY <1>2, EndKeepsFiles DEF Kill
<1>3. CASE \E q \in Queries : Parse(q)
    BY <1>3, ParseKeepsFiles
<1>4. CASE IndexJoin
    BY <1>4, JoinKeepsFiles DEF IndexJoin
<1>5. CASE HashJoin
    BY <1>5, JoinKeepsFiles DEF HashJoin
<1>6. CASE IndexJoinCrash \/ HashJoinCrash \/ ScanCrash
    <2>1. Crash
        BY <1>6 DEF IndexJoinCrash, HashJoinCrash, ScanCrash, JoinCrashes
    <2>2. QED
        BY <2>1, EndKeepsFiles DEF Crash
<1>7. CASE ExecuteOnOneTable \/ TryComparison \/ NoJoinFound
    BY <1>7, SearchKeepsFiles
<1>8. CASE WriteProduct \/ CopyProduct
    BY <1>8, WriteProductKeepsFiles, CopyProductKeepsFiles
<1>9. CASE AllJoined \/ ScanRow \/ ScanDone
    BY <1>9, ScanKeepsFiles
<1>10. CASE UNCHANGED vars
    <2>1. UNCHANGED <<joinFiles, pc, query, reply, lastJoinFile, tableNames>>
        BY <1>10 DEF vars, fields
    <2>2. QED
        BY <2>1 DEF FilesInv, LastFileWritten, JoinFilesRemoved
<1>11. QED
    BY <1>1, <1>2, <1>3, <1>4, <1>5, <1>6, <1>7, <1>8, <1>9, <1>10
    DEF Next, Proceed

LEMMA FilesAlways == Spec => []FilesInv
BY InitialFiles, StepKeepsFiles, PTL DEF Spec

\* Whatever the tables hold and the queries ask, a query reads no join file
\* but those it has written itself.
THEOREM LastFileAlwaysWritten == Spec => []LastFileWritten
<1>1. FilesInv => LastFileWritten
    BY DEF FilesInv
<1>2. QED
    BY <1>1, FilesAlways, PTL

\* And when it has ended, answered or refused, it leaves none behind.
THEOREM JoinFilesAlwaysRemoved == Spec => []JoinFilesRemoved
<1>1. FilesInv => JoinFilesRemoved
    BY DEF FilesInv
<1>2. QED
    BY <1>1, FilesAlways, PTL

(***************************************************************************)
(* Sequences that are collected from others, place by place.               *)
(***************************************************************************)

\* What Selected and Distinct collect on their way: the values at the places
\* in K.
Takes(f, s, K) ==
    f = [n \in 0..Len(s) |->
            IF n = 0 THEN <<>>
            ELSE IF n \in K THEN Append(f[n - 1], s[n]) ELSE f[n - 1]]

LEMMA TakesExists ==
    ASSUME NEW S, NEW s \in Seq(S), NEW K
    PROVE  \E f : Takes(f, s, K)
<1> DEFINE step == [i \in 1..Len(s) |-> [v \in Seq(S) |->
                        IF i \in K THEN Append(v, s[i]) ELSE v]]
<1>1. Len(s) \in Nat /\ <<>> \in Seq(S) /\ \A i \in 1..Len(s) : s[i] \in S
    OBVIOUS
<1>2. Steps(step, Len(s), Seq(S))
    <2>1. ASSUME NEW i \in 1..Len(s), NEW v \in Seq(S)
          PROVE  (IF i \in K THEN Append(v, s[i]) ELSE v) \in Seq(S)
        BY <1>1
    <2>2. QED
        BY <2>1 DEF Steps
<1>3. \A i \in 1..Len(s) : \A v \in Seq(S) :
         step[i][v] = IF i \in K THEN Append(v, s[i]) ELSE v
    OBVIOUS
<1> HIDE DEF step
<1>4. PICK f : Solves(f, Len(s), Seq(S), <<>>, step)
    BY <1>1, <1>2, Unfolding
<1>5. f \in [0..Len(s) -> Seq(S)] /\ f[0] = <<>>
    BY <1>4 DEF Solves
<1>6. ASSUME NEW i \in 0..Len(s), i # 0
      PROVE  f[i] = IF i \in K THEN Append(f[i - 1], s[i]) ELSE f[i - 1]
    <2>1. i \in 1..Len(s) /\ i - 1 \in 0..Len(s)
        BY <1>1, <1>6
    <2>2. f[i - 1] \in Seq(S) /\ f[i] = step[i][f[i - 1]]
        BY <1>4, <1>5, <2>1 DEF Solves
    <2>3. QED
        BY <1>3, <2>1, <2>2
<1>7. Takes(f, s, K)
    BY <1>5, <1>6 DEF Takes
<1>8. QED
    BY <1>7

\* The outcome t is a sequence of the values of s at the places in K, and no
\* value is there twice unless two of these places hold it.
Taken(t, s, K) ==
    /\ t \in Seq(Range(s))
    /\ \A v : v \in Range(t) <=> \E n \in DOMAIN s : n \in K /\ v = s[n]
    /\ (\A m, n \in DOMAIN s : m \in K /\ n \in K /\ s[m] = s[n] => m = n)
          => IsInjective(t)

LEMMA TakenAt ==
    ASSUME NEW S, NEW s \in Seq(S), NEW K, NEW f, Takes(f, s, K)
    PROVE  Taken(f[Len(s)], s, K)
<1> DEFINE Fine(n) ==
              /\ f[n] \in Seq(Range(s))
              /\ \A v : v \in Range(f[n]) <=> \E i \in 1..n : i \in K /\ v = s[i]
              /\ (\A i, j \in DOMAIN s : i \in K /\ j \in K /\ s[i] = s[j] => i = j)
                    => IsInjective(f[n])
           P == {n \in 0..Len(s) : Fine(n)}
<1>1. Len(s) \in Nat /\ DOMAIN s = 1..Len(s) /\ \A i \in 1..Len(s) : s[i] \in Range(s)
    BY DEF Range
<1>2. f[0] = <<>> /\ \A n \in 1..Len(s) :
         f[n] = IF n \in K THEN Append(f[n - 1], s[n]) ELSE f[n - 1]
    <2> DEFINE g == [n \in 0..Len(s) |->
                        IF n = 0 THEN <<>>
                        ELSE IF n \in K THEN Append(f[n - 1], s[n]) ELSE f[n - 1]]
    <2>1. f = g
        BY DEF Takes
    <2>2. 0 \in 0..Len(s) /\ \A n \in 1..Len(s) : n \in 0..Len(s) /\ n # 0
        BY <1>1
    <2>3. g[0] = <<>> /\ \A n \in 1..Len(s) :
             g[n] = IF n \in K THEN Append(f[n - 1], s[n]) ELSE f[n - 1]
        BY <2>2
    <2> HIDE DEF g
    <2>4. QED
        BY <2>1, <2>3
<1>3. 0 \in P
    <2>1. <<>> \in Seq(Range(s)) /\ Range(<<>>) = {} /\ IsInjective(<<>>) /\ 1..0 = {}
        BY DEF Range, IsInjective
    <2>2. Fine(0)
        BY <1>2, <2>1
    <2>3. QED
        BY <1>1, <2>2
<1>4. ASSUME NEW n \in 1..Len(s), n - 1 \in P PROVE n \in P
    <2>1. Fine(n - 1)
        BY <1>4
    <2>2. CASE n \notin K
        <3>1. f[n] = f[n - 1]
            BY <1>2, <2>2
        <3>2. ASSUME NEW v
              PROVE  (\E i \in 1..n : i \in K /\ v = s[i])
                        <=> (\E i \in 1..(n - 1) : i \in K /\ v = s[i])
            BY <2>2, <1>1
        <3>3. Fine(n)
            BY <2>1, <3>1, <3>2
        <3>4. QED
            BY <3>3, <1>1
    <2>3. CASE n \in K
        <3> DEFINE t == f[n - 1]
        <3>1. t \in Seq(Range(s)) /\ s[n] \in Range(s) /\ f[n] = Append(t, s[n])
            BY <1>1, <1>2, <2>1, <2>3
        <3> HIDE DEF t
        <3>2. /\ Len(Append(t, s[n])) = Len(t) + 1
              /\ Append(t, s[n])[Len(t) + 1] = s[n]
              /\ \A i \in 1..Len(t) : Append(t, s[n])[i] = t[i]
              /\ Len(t) \in Nat /\ DOMAIN t = 1..Len(t)
              /\ Append(t, s[n]) \in Seq(Range(s))
              /\ DOMAIN Append(t, s[n]) = 1..(Len(t) + 1)
            BY <3>1
        <3>3. \A v : v \in Range(f[n]) <=> v \in Range(t) \/ v = s[n]
            <4>1. ASSUME NEW i \in 1..(Len(t) + 1)
                  PROVE  Append(t, s[n])[i] = s[n] \/ (i \in 1..Len(t) /\ Append(t, s[n])[i] = t[i])
                BY <3>2
            <4>2. ASSUME NEW i \in 1..Len(t)
                  PROVE  i \in 1..(Len(t) + 1) /\ Append(t, s[n])[i] = t[i]
                BY <3>2
            <4>3. Len(t) + 1 \in 1..(Len(t) + 1)
                BY <3>2
            <4>4. QED
                BY <3>1, <3>2, <4>1, <4>2, <4>3 DEF Range
        <3>4. \A v : v \in Range(t) <=> \E i \in 1..(n - 1) : i \in K /\ v = s[i]
            BY <2>1 DEF t
        <3>5. \A v : v \in Range(f[n]) <=> \E i \in 1..n : i \in K /\ v = s[i]
            <4>1. n \in Int /\ \A i \in 1..n : i \in 1..(n - 1) \/ i = n
                OBVIOUS
            <4>2. n \in 1..n /\ \A i \in 1..(n - 1) : i \in 1..n
                OBVIOUS
            <4>3. QED
                BY <2>3, <3>3, <3>4, <4>1, <4>2
        <3>6. ASSUME \A i, j \in DOMAIN s : i \in K /\ j \in K /\ s[i] = s[j] => i = j
              PROVE  IsInjective(f[n])
            <4>1. IsInjective(t)
                BY <2>1, <3>6 DEF t
            <4>2. s[n] \notin Range(t)
                <5>1. \A i \in 1..(n - 1) : i # n /\ i \in DOMAIN s
                    BY <1>1
                <5>2. n \in DOMAIN s
                    BY <1>1
                <5>3. QED
                    BY <2>3, <3>4, <3>6, <5>1, <5>2
            <4>3. ASSUME NEW i \in 1..(Len(t) + 1), NEW j \in 1..(Len(t) + 1),
                         f[n][i] = f[n][j]
                  PROVE  i = j
                <5>1. \A k \in 1..Len(t) : t[k] # s[n]
                    BY <4>2, <3>2 DEF Range
                <5>2. \A k, l \in 1..Len(t) : t[k] = t[l] => k = l
                    BY <4>1, <3>2 DEF IsInjective
                <5>3. \A k \in 1..(Len(t) + 1) : k \in 1..Len(t) \/ k = Len(t) + 1
                    BY <3>2
                <5>4. QED
                    BY <3>1, <3>2, <4>3, <5>1, <5>2, <5>3
            <4>4. QED
                BY <3>1, <3>2, <4>3 DEF IsInjective
        <3>7. Fine(n)
            BY <3>1, <3>2, <3>5, <3>6
        <3>8. QED
            BY <3>7, <1>1
    <2>4. QED
        BY <2>2, <2>3
<1>5. Len(s) \in P
    <2>1. 0 \in Int /\ Len(s) \in Int /\ Len(s) \in 0..Len(s) /\ 0 + 1 = 1
        BY <1>1
    <2> HIDE DEF P
    <2>2. QED
        BY <1>3, <1>4, <2>1, StepUp
<1>6. Fine(Len(s))
    BY <1>5
<1>7. QED
    BY <1>1, <1>6 DEF Taken

LEMMA RangeOfConcatenation ==
    ASSUME NEW S, NEW s \in Seq(S), NEW t \in Seq(S)
    PROVE  /\ s \o t \in Seq(S)
           /\ \A v : v \in Range(s \o t) <=> v \in Range(s) \/ v \in Range(t)
<1>1. /\ Len(s) \in Nat /\ Len(t) \in Nat
      /\ DOMAIN s = 1..Len(s) /\ DOMAIN t = 1..Len(t)
      /\ DOMAIN (s \o t) = 1..(Len(s) + Len(t))
      /\ \A i \in 1..(Len(s) + Len(t)) :
            (s \o t)[i] = IF i <= Len(s) THEN s[i] ELSE t[i - Len(s)]
    OBVIOUS
<1>2. ASSUME NEW i \in 1..(Len(s) + Len(t))
      PROVE  (s \o t)[i] \in Range(s) \/ (s \o t)[i] \in Range(t)
    <2>1. CASE i <= Len(s)
        BY <1>1, <2>1 DEF Range
    <2>2. CASE ~(i <= Len(s))
        <3>1. i - Len(s) \in 1..Len(t)
            BY <1>1, <2>2
        <3>2. QED
            BY <1>1, <2>2, <3>1 DEF Range
    <2>3. QED
        BY <2>1, <2>2
<1>3. ASSUME NEW i \in 1..Len(s) PROVE s[i] \in Range(s \o t)
    <2>1. i \in 1..(Len(s) + Len(t)) /\ i <= Len(s)
        BY <1>1
    <2>2. QED
        BY <1>1, <2>1 DEF Range
<1>4. ASSUME NEW i \in 1..Len(t) PROVE t[i] \in Range(s \o t)
    <2>1. /\ Len(s) + i \in 1..(Len(s) + Len(t)) /\ ~(Len(s) + i <= Len(s))
          /\ (Len(s) + i) - Len(s) = i
        BY <1>1
    <2>2. (s \o t)[Len(s) + i] = t[i]
        BY <1>1, <2>1
    <2>3. QED
        BY <1>1, <2>1, <2>2 DEF Range
<1>5. \A v : v \in Range(s \o t) => v \in Range(s) \/ v \in Range(t)
    <2>1. ASSUME NEW v \in Range(s \o t)
          PROVE  \E i \in 1..(Len(s) + Len(t)) : v = (s \o t)[i]
        BY <1>1 DEF Range
    <2>2. QED
        BY <1>2, <2>1
<1>6. \A v : v \in Range(s) => v \in Range(s \o t)
    <2>1. ASSUME NEW v \in Range(s) PROVE \E i \in 1..Len(s) : v = s[i]
        BY <1>1 DEF Range
    <2>2. QED
        BY <1>3, <2>1
<1>7. \A v : v \in Range(t) => v \in Range(s \o t)
    <2>1. ASSUME NEW v \in Range(t) PROVE \E i \in 1..Len(t) : v = t[i]
        BY <1>1 DEF Range
    <2>2. QED
        BY <1>4, <2>1
<1>8. QED
    BY <1>5, <1>6, <1>7

LEMMA DistinctTakes ==
    ASSUME NEW S, NEW s \in Seq(S)
    PROVE  /\ Distinct(s) \in Seq(Range(s))
           /\ Range(Distinct(s)) = Range(s)
           /\ IsInjective(Distinct(s))
<1> DEFINE K == {n \in DOMAIN s : \A m \in 1..(n - 1) : s[m] # s[n]}
           Equation(f) ==
               f = [n \in 0..Len(s) |->
                       IF n = 0 THEN <<>>
                       ELSE IF \E m \in 1..(n - 1) : s[m] = s[n] THEN f[n - 1]
                       ELSE Append(f[n - 1], s[n])]
<1>1. Distinct(s) = (CHOOSE f : Equation(f))[Len(s)]
    BY DEF Distinct
<1>2. Len(s) \in Nat /\ DOMAIN s = 1..Len(s)
    OBVIOUS
<1>3. ASSUME NEW f PROVE Equation(f) <=> Takes(f, s, K)
    <2>1. ASSUME NEW n \in 0..Len(s), n # 0
          PROVE  (\E m \in 1..(n - 1) : s[m] = s[n]) <=> n \notin K
        BY <1>2, <2>1
    <2> HIDE DEF K
    <2>2. ASSUME NEW n \in 0..Len(s)
          PROVE  (IF n = 0 THEN <<>>
                  ELSE IF \E m \in 1..(n - 1) : s[m] = s[n] THEN f[n - 1]
                  ELSE Append(f[n - 1], s[n]))
                 = (IF n = 0 THEN <<>>
                    ELSE IF n \in K THEN Append(f[n - 1], s[n]) ELSE f[n - 1])
        BY <2>1
    <2>3. [n \in 0..Len(s) |->
                       IF n = 0 THEN <<>>
                       ELSE IF \E m \in 1..(n - 1) : s[m] = s[n] THEN f[n - 1]
                       ELSE Append(f[n - 1], s[n])]
          = [n \in 0..Len(s) |->
                IF n = 0 THEN <<>>
                ELSE IF n \in K THEN Append(f[n - 1], s[n]) ELSE f[n - 1]]
        BY <2>2
    <2>4. QED
        BY <2>3 DEF Takes
<1>4. \E f : Equation(f)
    <2>1. PICK f : Takes(f, s, K)
        BY TakesExists
    <2> HIDE DEF K, Equation
    <2>2. QED
        BY <1>3, <2>1
<1> DEFINE f0 == CHOOSE f : Equation(f)
<1> HIDE DEF Equation
<1>5. Equation(f0)
    BY <1>4
<1> HIDE DEF f0, K
<1>6. Taken(f0[Len(s)], s, K)
    BY <1>3, <1>5, TakenAt
<1>7. Taken(Distinct(s), s, K)
    BY <1>1, <1>6 DEF f0
<1>8. \A m, n \in DOMAIN s : m \in K /\ n \in K /\ s[m] = s[n] => m = n
    <2>1. ASSUME NEW m \in 1..Len(s), NEW n \in 1..Len(s),
                 m \in K, n \in K, s[m] = s[n], m < n
          PROVE  FALSE
        <3>1. m \in 1..(n - 1)
            BY <1>2, <2>1
        <3>2. QED
            BY <2>1, <3>1 DEF K
    <2>2. QED
        BY <1>2, <2>1
<1>9. ASSUME NEW v \in Range(s)
      PROVE  \E n \in DOMAIN s : n \in K /\ v = s[n]
    <2> DEFINE T == {n \in DOMAIN s : s[n] = v}
    <2>1. T \subseteq Nat /\ T # {}
        BY <1>2 DEF Range
    <2>2. PICK n \in T : \A m \in T : n <= m
        BY <2>1, LeastNumber
    <2>3. \A m \in 1..(n - 1) : s[m] # s[n]
        <3>1. ASSUME NEW m \in 1..(n - 1), s[m] = s[n] PROVE FALSE
            <4>1. n \in 1..Len(s)
                BY <1>2
            <4>2. m \in 1..Len(s) /\ m < n
                BY <1>2, <4>1
            <4>3. m \in T
                BY <1>2, <3>1, <4>2
            <4>4. QED
                BY <2>2, <4>1, <4>2, <4>3
        <3>2. QED
            BY <3>1
    <2>4. QED
        BY <2>3 DEF K
<1>10. Range(Distinct(s)) = Range(s)
    <2>1. ASSUME NEW v PROVE v \in Range(Distinct(s)) <=> v \in Range(s)
        BY <1>7, <1>9 DEF Taken, Range
    <2>2. QED
        BY <2>1
<1>11. QED
    BY <1>7, <1>8, <1>10 DEF Taken

\* What a sequence of sequences holds when it is made one.
LEMMA Flattened ==
    ASSUME NEW S, NEW q, q \in Seq(Seq(S))
    PROVE  /\ FlattenSeq(q) \in Seq(S)
           /\ \A v : v \in Range(FlattenSeq(q))
                        <=> \E i \in 1..Len(q) : v \in Range(q[i])
<1>1. Len(q) \in Nat /\ \A i \in 1..Len(q) : q[i] \in Seq(S)
    OBVIOUS
<1>2. CASE Len(q) = 0
    <2>1. q = <<>> /\ FlattenSeq(q) = q
        BY <1>2 DEF FlattenSeq
    <2>2. Range(<<>>) = {} /\ 1..0 = {} /\ <<>> \in Seq(S)
        BY DEF Range
    <2>3. QED
        BY <1>2, <2>1, <2>2
<1>3. CASE Len(q) # 0
    <2> DEFINE Equation(f) ==
                  f = [i \in 1..Len(q) |->
                          IF i = 1 THEN q[i] ELSE f[i - 1] \o q[i]]
               f0 == CHOOSE f : Equation(f)
               step == [i \in 1..Len(q) |-> [v \in Seq(S) |-> v \o q[i]]]
    <2>1. FlattenSeq(q) = f0[Len(q)]
        BY <1>3 DEF FlattenSeq
    <2>2. Steps(step, Len(q), Seq(S)) /\ <<>> \in Seq(S)
        BY <1>1 DEF Steps
    <2>3. \A i \in 1..Len(q) : \A v \in Seq(S) : step[i][v] = v \o q[i]
        OBVIOUS
    <2> HIDE DEF step
    <2>4. PICK g : Solves(g, Len(q), Seq(S), <<>>, step)
        BY <1>1, <2>2, Unfolding
    <2>5. \A i \in 1..Len(q) :
             g[i] \in Seq(S) /\ g[i - 1] \in Seq(S) /\ g[i] = g[i - 1] \o q[i]
        <3>1. ASSUME NEW i \in 1..Len(q)
              PROVE  i \in 0..Len(q) /\ i - 1 \in 0..Len(q)
            BY <1>1
        <3>2. QED
            BY <2>3, <2>4, <3>1 DEF Solves
    <2>6. g[0] = <<>>
        BY <2>4 DEF Solves
    <2> DEFINE h == [i \in 1..Len(q) |-> g[i]]
    <2>7. ASSUME NEW i \in 1..Len(q)
          PROVE  h[i] = IF i = 1 THEN q[i] ELSE h[i - 1] \o q[i]
        <3>1. CASE i = 1
            <4> HIDE DEF h
            <4>0. g[i] = g[i - 1] \o q[i]
                BY <2>5
            <4>1. i - 1 = 0
                BY <3>1
            <4>2. g[i] = <<>> \o q[i] /\ q[i] \in Seq(S)
                BY <1>1, <2>6, <4>0, <4>1
            <4>3. <<>> \o q[i] = q[i]
                BY <4>2
            <4>4. h[i] = g[i]
                BY DEF h
            <4>5. QED
                BY <3>1, <4>2, <4>3, <4>4
        <3>2. CASE i # 1
            <4>1. i - 1 \in 1..Len(q)
                BY <1>1, <3>2
            <4>2. QED
                BY <2>5, <3>2, <4>1
        <3>3. QED
            BY <3>1, <3>2
    <2>8. Equation(h)
        <3>1. h = [i \in 1..Len(q) |-> h[i]]
            OBVIOUS
        <3> HIDE DEF h
        <3>2. QED
            BY <2>7, <3>1
    <2> HIDE DEF Equation, h
    <2>9. Equation(f0)
        BY <2>8
    <2> HIDE DEF f0
    <2>10. ASSUME NEW i \in 1..Len(q)
           PROVE  f0[i] = IF i = 1 THEN q[i] ELSE f0[i - 1] \o q[i]
        <3> DEFINE k == [j \in 1..Len(q) |->
                            IF j = 1 THEN q[j] ELSE f0[j - 1] \o q[j]]
        <3>1. f0 = k
            BY <2>9 DEF Equation
        <3>2. k[i] = IF i = 1 THEN q[i] ELSE f0[i - 1] \o q[i]
            OBVIOUS
        <3> HIDE DEF k
        <3>3. QED
            BY <3>1, <3>2
    <2> DEFINE Fine(n) ==
                  /\ f0[n] \in Seq(S)
                  /\ \A v : v \in Range(f0[n]) <=> \E i \in 1..n : v \in Range(q[i])
               P == {n \in 1..Len(q) : Fine(n)}
    <2>11. 1 \in P
        <3>1. 1 \in 1..Len(q) /\ 1..1 = {1}
            BY <1>1, <1>3
        <3>2. f0[1] = q[1]
            BY <2>10, <3>1
        <3>3. Fine(1)
            BY <1>1, <3>1, <3>2
        <3>4. QED
            BY <3>1, <3>3
    <2>12. ASSUME NEW n \in 2..Len(q), n - 1 \in P PROVE n \in P
        <3>1. n \in 1..Len(q) /\ n # 1 /\ n - 1 \in 1..Len(q)
            BY <1>1
        <3>2. f0[n] = f0[n - 1] \o q[n]
            BY <2>10, <3>1
        <3>3. Fine(n - 1)
            BY <2>12
        <3>4. f0[n - 1] \in Seq(S) /\ q[n] \in Seq(S)
            BY <1>1, <3>1, <3>3
        <3>5. f0[n] \in Seq(S)
              /\ \A v : v \in Range(f0[n])
                           <=> v \in Range(f0[n - 1]) \/ v \in Range(q[n])
            BY <3>2, <3>4, RangeOfConcatenation
        <3>6. \A v : (\E i \in 1..n : v \in Range(q[i]))
                        <=> (\E i \in 1..(n - 1) : v \in Range(q[i])) \/ v \in Range(q[n])
            <4>1. \A i \in 1..n : i \in 1..(n - 1) \/ i = n
                OBVIOUS
            <4>2. n \in 1..n /\ \A i \in 1..(n - 1) : i \in 1..n
                OBVIOUS
            <4>3. QED
                BY <4>1, <4>2
        <3>7. Fine(n)
            BY <3>3, <3>5, <3>6
        <3>8. QED
            BY <3>1, <3>7
    <2>13. Len(q) \in P
        <3>1. 1 \in Int /\ Len(q) \in Int /\ Len(q) \in 1..Len(q) /\ 1 + 1 = 2
            BY <1>1, <1>3
        <3> HIDE DEF P
        <3>2. QED
            BY <2>11, <2>12, <3>1, StepUp
    <2>14. Fine(Len(q))
        BY <2>13
    <2>15. QED
        BY <2>1, <2>14
<1>4. QED
    BY <1>2, <1>3

(***************************************************************************)
(* What the selections of module Query take.                               *)
(***************************************************************************)

\* The tables with a column.
LEMMA OwnersTaken ==
    ASSUME NEW S, NEW s \in Seq(S), NEW c
    PROVE  Taken(Selected(s, LAMBDA t : c \in Range(ColumnsOf[t])), s,
                 {n \in DOMAIN s : c \in Range(ColumnsOf[s[n]])})
<1> DEFINE K == {n \in DOMAIN s : c \in Range(ColumnsOf[s[n]])}
           Equation(f) ==
               f = [n \in 0..Len(s) |->
                       IF n = 0 THEN <<>>
                       ELSE IF c \in Range(ColumnsOf[s[n]]) THEN Append(f[n - 1], s[n])
                       ELSE f[n - 1]]
<1>1. Selected(s, LAMBDA t : c \in Range(ColumnsOf[t])) = (CHOOSE f : Equation(f))[Len(s)]
    BY DEF Selected
<1>2. ASSUME NEW f PROVE Equation(f) <=> Takes(f, s, K)
    <2>1. ASSUME NEW n \in 0..Len(s), n # 0
          PROVE  c \in Range(ColumnsOf[s[n]]) <=> n \in K
        <3>1. n \in DOMAIN s
            BY <2>1
        <3>2. QED
            BY <3>1
    <2> HIDE DEF K
    <2>2. [n \in 0..Len(s) |->
              IF n = 0 THEN <<>>
              ELSE IF c \in Range(ColumnsOf[s[n]]) THEN Append(f[n - 1], s[n]) ELSE f[n - 1]]
          = [n \in 0..Len(s) |->
                IF n = 0 THEN <<>>
                ELSE IF n \in K THEN Append(f[n - 1], s[n]) ELSE f[n - 1]]
        BY <2>1
    <2>3. QED
        BY <2>2 DEF Takes
<1> HIDE DEF K, Equation
<1>3. \E f : Equation(f)
    BY <1>2, TakesExists
<1>4. Equation(CHOOSE f : Equation(f))
    BY <1>3
<1>5. Takes(CHOOSE f : Equation(f), s, K)
    BY <1>2, <1>4
<1>6. Taken((CHOOSE f : Equation(f))[Len(s)], s, K)
    BY <1>5, TakenAt
<1>7. QED
    BY <1>1, <1>6 DEF K

\* What is left of a sequence without some of its values.
LEMMA OthersTaken ==
    ASSUME NEW S, NEW s \in Seq(S), NEW A
    PROVE  Taken(Selected(s, LAMBDA v : v \notin A), s,
                 {n \in DOMAIN s : s[n] \notin A})
<1> DEFINE K == {n \in DOMAIN s : s[n] \notin A}
           Equation(f) ==
               f = [n \in 0..Len(s) |->
                       IF n = 0 THEN <<>>
                       ELSE IF s[n] \notin A THEN Append(f[n - 1], s[n])
                       ELSE f[n - 1]]
<1>1. Selected(s, LAMBDA v : v \notin A) = (CHOOSE f : Equation(f))[Len(s)]
    BY DEF Selected
<1>2. ASSUME NEW f PROVE Equation(f) <=> Takes(f, s, K)
    <2>1. ASSUME NEW n \in 0..Len(s), n # 0
          PROVE  s[n] \notin A <=> n \in K
        <3>1. n \in DOMAIN s
            BY <2>1
        <3>2. QED
            BY <3>1
    <2> HIDE DEF K
    <2>2. [n \in 0..Len(s) |->
              IF n = 0 THEN <<>>
              ELSE IF s[n] \notin A THEN Append(f[n - 1], s[n]) ELSE f[n - 1]]
          = [n \in 0..Len(s) |->
                IF n = 0 THEN <<>>
                ELSE IF n \in K THEN Append(f[n - 1], s[n]) ELSE f[n - 1]]
        BY <2>1
    <2>3. QED
        BY <2>2 DEF Takes
<1> HIDE DEF K, Equation
<1>3. \E f : Equation(f)
    BY <1>2, TakesExists
<1>4. Equation(CHOOSE f : Equation(f))
    BY <1>3
<1>5. Takes(CHOOSE f : Equation(f), s, K)
    BY <1>2, <1>4
<1>6. Taken((CHOOSE f : Equation(f))[Len(s)], s, K)
    BY <1>5, TakenAt
<1>7. QED
    BY <1>1, <1>6 DEF K

\* The members of a set.
LEMMA MembersTaken ==
    ASSUME NEW S, NEW s \in Seq(S), NEW A
    PROVE  Taken(Selected(s, LAMBDA v : v \in A), s,
                 {n \in DOMAIN s : s[n] \in A})
<1> DEFINE K == {n \in DOMAIN s : s[n] \in A}
           Equation(f) ==
               f = [n \in 0..Len(s) |->
                       IF n = 0 THEN <<>>
                       ELSE IF s[n] \in A THEN Append(f[n - 1], s[n])
                       ELSE f[n - 1]]
<1>1. Selected(s, LAMBDA v : v \in A) = (CHOOSE f : Equation(f))[Len(s)]
    BY DEF Selected
<1>2. ASSUME NEW f PROVE Equation(f) <=> Takes(f, s, K)
    <2>1. ASSUME NEW n \in 0..Len(s), n # 0
          PROVE  s[n] \in A <=> n \in K
        <3>1. n \in DOMAIN s
            BY <2>1
        <3>2. QED
            BY <3>1
    <2> HIDE DEF K
    <2>2. [n \in 0..Len(s) |->
              IF n = 0 THEN <<>>
              ELSE IF s[n] \in A THEN Append(f[n - 1], s[n]) ELSE f[n - 1]]
          = [n \in 0..Len(s) |->
                IF n = 0 THEN <<>>
                ELSE IF n \in K THEN Append(f[n - 1], s[n]) ELSE f[n - 1]]
        BY <2>1
    <2>3. QED
        BY <2>2 DEF Takes
<1> HIDE DEF K, Equation
<1>3. \E f : Equation(f)
    BY <1>2, TakesExists
<1>4. Equation(CHOOSE f : Equation(f))
    BY <1>3
<1>5. Takes(CHOOSE f : Equation(f), s, K)
    BY <1>2, <1>4
<1>6. Taken((CHOOSE f : Equation(f))[Len(s)], s, K)
    BY <1>5, TakenAt
<1>7. QED
    BY <1>1, <1>6 DEF K

\* The entries with a key.
LEMMA KeyTaken ==
    ASSUME NEW S, NEW s \in Seq(S), NEW key
    PROVE  Taken(Selected(s, LAMBDA e : e.key = key), s,
                 {n \in DOMAIN s : s[n].key = key})
<1> DEFINE K == {n \in DOMAIN s : s[n].key = key}
           Equation(f) ==
               f = [n \in 0..Len(s) |->
                       IF n = 0 THEN <<>>
                       ELSE IF s[n].key = key THEN Append(f[n - 1], s[n])
                       ELSE f[n - 1]]
<1>1. Selected(s, LAMBDA e : e.key = key) = (CHOOSE f : Equation(f))[Len(s)]
    BY DEF Selected
<1>2. ASSUME NEW f PROVE Equation(f) <=> Takes(f, s, K)
    <2>1. ASSUME NEW n \in 0..Len(s), n # 0
          PROVE  s[n].key = key <=> n \in K
        <3>1. n \in DOMAIN s
            BY <2>1
        <3>2. QED
            BY <3>1
    <2> HIDE DEF K
    <2>2. [n \in 0..Len(s) |->
              IF n = 0 THEN <<>>
              ELSE IF s[n].key = key THEN Append(f[n - 1], s[n]) ELSE f[n - 1]]
          = [n \in 0..Len(s) |->
                IF n = 0 THEN <<>>
                ELSE IF n \in K THEN Append(f[n - 1], s[n]) ELSE f[n - 1]]
        BY <2>1
    <2>3. QED
        BY <2>2 DEF Takes
<1> HIDE DEF K, Equation
<1>3. \E f : Equation(f)
    BY <1>2, TakesExists
<1>4. Equation(CHOOSE f : Equation(f))
    BY <1>3
<1>5. Takes(CHOOSE f : Equation(f), s, K)
    BY <1>2, <1>4
<1>6. Taken((CHOOSE f : Equation(f))[Len(s)], s, K)
    BY <1>5, TakenAt
<1>7. QED
    BY <1>1, <1>6 DEF K

\* The cells pushed into a column.
LEMMA PushedTaken ==
    ASSUME NEW S, NEW s \in Seq(S), NEW stray, NEW c
    PROVE  Taken(PushedInto(c, s, stray), s,
                 {n \in DOMAIN s : PushedColumn(s[n], stray) = c})
<1> DEFINE K == {n \in DOMAIN s : PushedColumn(s[n], stray) = c}
           Equation(f) ==
               f = [n \in 0..Len(s) |->
                       IF n = 0 THEN <<>>
                       ELSE IF PushedColumn(s[n], stray) = c THEN Append(f[n - 1], s[n])
                       ELSE f[n - 1]]
<1>1. PushedInto(c, s, stray) = (CHOOSE f : Equation(f))[Len(s)]
    BY DEF PushedInto, Selected
<1>2. ASSUME NEW f PROVE Equation(f) <=> Takes(f, s, K)
    <2>1. ASSUME NEW n \in 0..Len(s), n # 0
          PROVE  PushedColumn(s[n], stray) = c <=> n \in K
        <3>1. n \in DOMAIN s
            BY <2>1
        <3>2. QED
            BY <3>1
    <2> HIDE DEF K
    <2>2. [n \in 0..Len(s) |->
              IF n = 0 THEN <<>>
              ELSE IF PushedColumn(s[n], stray) = c THEN Append(f[n - 1], s[n])
              ELSE f[n - 1]]
          = [n \in 0..Len(s) |->
                IF n = 0 THEN <<>>
                ELSE IF n \in K THEN Append(f[n - 1], s[n]) ELSE f[n - 1]]
        BY <2>1
    <2>3. QED
        BY <2>2 DEF Takes
<1> HIDE DEF K, Equation
<1>3. \E f : Equation(f)
    BY <1>2, TakesExists
<1>4. Equation(CHOOSE f : Equation(f))
    BY <1>3
<1>5. Takes(CHOOSE f : Equation(f), s, K)
    BY <1>2, <1>4
<1>6. Taken((CHOOSE f : Equation(f))[Len(s)], s, K)
    BY <1>5, TakenAt
<1>7. QED
    BY <1>1, <1>6 DEF K

(***************************************************************************)
(* Tables and columns.                                                     *)
(***************************************************************************)

LEMMA CatalogTables ==
    /\ Catalog \in Seq(Range(Catalog)) /\ Catalog \in Seq(Tables)
    /\ Range(Catalog) \subseteq Tables
    /\ DOMAIN ColumnsOf = Range(Catalog)
    /\ \A t \in Range(Catalog) :
          /\ ColumnsOf[t] \in Seq(Columns) /\ ColumnsOf[t] # <<>>
          /\ IsInjective(ColumnsOf[t])
          /\ Range(ColumnsOf[t]) \subseteq Columns /\ Range(ColumnsOf[t]) # {}
<1>1. Catalog \in Seq(Range(Catalog)) /\ Range(Catalog) \subseteq Tables
    BY TablesAssumption DEF Range
<1>2. DOMAIN ColumnsOf = Range(Catalog)
    BY TablesAssumption
<1>3. ASSUME NEW t \in Range(Catalog)
      PROVE  ColumnsOf[t] \in Seq(Columns) /\ ColumnsOf[t] # <<>>
    <2>1. ColumnsOf \in [Range(Catalog) -> Seq(Columns) \ {<<>>}]
        BY TablesAssumption
    <2>2. QED
        BY <2>1
<1>4. ASSUME NEW t \in Range(Catalog)
      PROVE  Range(ColumnsOf[t]) \subseteq Columns /\ Range(ColumnsOf[t]) # {}
    <2>1. Len(ColumnsOf[t]) \in Nat /\ Len(ColumnsOf[t]) # 0
          /\ DOMAIN ColumnsOf[t] = 1..Len(ColumnsOf[t])
          /\ \A n \in DOMAIN ColumnsOf[t] : ColumnsOf[t][n] \in Columns
        BY <1>3
    <2>2. 1 \in DOMAIN ColumnsOf[t]
        BY <2>1
    <2>3. QED
        BY <2>1, <2>2 DEF Range
<1>5. QED
    BY <1>1, <1>2, <1>3, <1>4, TablesAssumption, UniqueColumnNames

\* A column is in one table.
LEMMA TableOfColumn ==
    /\ \A c \in Columns : /\ TableOf(c) \in Range(Catalog)
                          /\ c \in Range(ColumnsOf[TableOf(c)])
    /\ \A t \in Range(Catalog) : \A c \in Range(ColumnsOf[t]) : TableOf(c) = t
<1>1. ASSUME NEW c \in Columns
      PROVE  TableOf(c) \in Range(Catalog) /\ c \in Range(ColumnsOf[TableOf(c)])
    <2>1. \E t \in DOMAIN ColumnsOf : c \in Range(ColumnsOf[t])
        BY DEF Columns
    <2>2. QED
        BY <2>1, CatalogTables DEF TableOf
<1>2. ASSUME NEW t \in Range(Catalog), NEW c \in Range(ColumnsOf[t])
      PROVE  TableOf(c) = t
    <2>1. c \in Columns
        BY CatalogTables
    <2>2. TableOf(c) \in DOMAIN ColumnsOf /\ t \in DOMAIN ColumnsOf
          /\ c \in Range(ColumnsOf[TableOf(c)])
        BY <1>1, <2>1, CatalogTables
    <2>3. c \in Range(ColumnsOf[TableOf(c)]) \cap Range(ColumnsOf[t])
        BY <2>2
    <2>4. QED
        BY <2>2, <2>3, UniqueColumnNames
<1>3. QED
    BY <1>1, <1>2

LEMMA PlaceOfColumn ==
    ASSUME NEW t \in Range(Catalog), NEW c \in Range(ColumnsOf[t])
    PROVE  /\ PositionOf(c, ColumnsOf[t]) \in 1..Len(ColumnsOf[t])
           /\ ColumnsOf[t][PositionOf(c, ColumnsOf[t])] = c
<1>1. \E n \in DOMAIN ColumnsOf[t] : ColumnsOf[t][n] = c
    BY DEF Range
<1>2. DOMAIN ColumnsOf[t] = 1..Len(ColumnsOf[t])
    BY CatalogTables
<1>3. QED
    BY <1>1, <1>2 DEF PositionOf

(***************************************************************************)
(* Pairs.                                                                  *)
(***************************************************************************)

LEMMA PairsOfMembers ==
    ASSUME NEW A, NEW B, NEW s \in Seq(A), NEW t \in Seq(B)
    PROVE  Pairs(s, t) \in Seq(A \X B)
<1> DEFINE q == [n \in DOMAIN s |-> [m \in DOMAIN t |-> <<s[n], t[m]>>]]
<1>1. /\ DOMAIN s = 1..Len(s) /\ Len(s) \in Nat /\ \A n \in DOMAIN s : s[n] \in A
      /\ DOMAIN t = 1..Len(t) /\ Len(t) \in Nat /\ \A m \in DOMAIN t : t[m] \in B
    OBVIOUS
<1>2. ASSUME NEW n \in DOMAIN s
      PROVE  [m \in DOMAIN t |-> <<s[n], t[m]>>] \in Seq(A \X B)
    <2>1. \A m \in 1..Len(t) : <<s[n], t[m]>> \in A \X B
        BY <1>1
    <2>2. [m \in 1..Len(t) |-> <<s[n], t[m]>>] \in Seq(A \X B)
        BY <1>1, <2>1
    <2>3. QED
        BY <1>1, <2>2
<1>3. q \in Seq(Seq(A \X B))
    <2>1. \A n \in 1..Len(s) :
             [m \in DOMAIN t |-> <<s[n], t[m]>>] \in Seq(A \X B)
        BY <1>1, <1>2
    <2>2. [n \in 1..Len(s) |-> [m \in DOMAIN t |-> <<s[n], t[m]>>]]
             \in Seq(Seq(A \X B))
        BY <1>1, <2>1
    <2>3. QED
        BY <1>1, <2>2
<1> HIDE DEF q
<1>4. FlattenSeq(q) \in Seq(A \X B)
    BY <1>3, Flattened
<1>5. QED
    BY <1>4 DEF Pairs, q

LEMMA WithKeyOf ==
    ASSUME NEW B, NEW entries \in Seq(B), NEW key
    PROVE  WithKey(entries, key) \in Seq(B)
<1> DEFINE K == {n \in DOMAIN entries : entries[n].key = key}
<1>0. Taken(WithKey(entries, key), entries, K)
    BY KeyTaken DEF WithKey
<1>1. WithKey(entries, key) \in Seq(Range(entries))
    BY <1>0 DEF Taken
<1>2. Range(entries) \subseteq B
    BY DEF Range
<1>3. QED
    BY <1>1, <1>2

(***************************************************************************)
(* The file of a join.                                                     *)
(***************************************************************************)

\* The cells a join has collected, column by column.
Collects(joined) ==
    /\ DOMAIN joined \subseteq Columns \cup GarbageNames
    /\ \A c \in DOMAIN joined : joined[c] \in Seq(Cells)

LEMMA HeaderOfJoined ==
    ASSUME NEW joined, Collects(joined)
    PROVE  /\ JoinedColumns(joined) \in Seq(Columns \cup GarbageNames)
           /\ Range(JoinedColumns(joined)) = DOMAIN joined
           /\ IsInjective(JoinedColumns(joined))
<1> DEFINE K == {n \in DOMAIN ColumnOrder : ColumnOrder[n] \in DOMAIN joined}
<1>1. /\ ColumnOrder \in Seq(Columns \cup GarbageNames) /\ IsInjective(ColumnOrder)
      /\ Range(ColumnOrder) = Columns \cup GarbageNames
    BY ColumnOrderAssumption
<1>2. Taken(JoinedColumns(joined), ColumnOrder, K)
    BY <1>1, MembersTaken DEF JoinedColumns
<1>3. JoinedColumns(joined) \in Seq(Columns \cup GarbageNames)
    BY <1>1, <1>2 DEF Taken
<1>4. IsInjective(JoinedColumns(joined))
    BY <1>1, <1>2 DEF Taken, IsInjective
<1>5. ASSUME NEW c
      PROVE  c \in Range(JoinedColumns(joined)) <=> c \in DOMAIN joined
    <2>1. c \in Range(JoinedColumns(joined))
             <=> \E n \in DOMAIN ColumnOrder : n \in K /\ c = ColumnOrder[n]
        BY <1>2 DEF Taken
    <2>2. c \in DOMAIN joined => \E n \in DOMAIN ColumnOrder : c = ColumnOrder[n]
        BY <1>1 DEF Collects, Range
    <2>3. QED
        BY <2>1, <2>2
<1>6. QED
    BY <1>3, <1>4, <1>5

LEMMA AmountsAreNumbers ==
    ASSUME NEW joined, Collects(joined)
    PROVE  RowAmounts(joined) \subseteq Nat
<1> DEFINE columns == JoinedColumns(joined)
<1>1. CASE Len(columns) < 2
    BY <1>1, GarbageAssumption DEF RowAmounts
<1>2. CASE ~(Len(columns) < 2)
    <2>1. columns \in Seq(Columns \cup GarbageNames) /\ Range(columns) = DOMAIN joined
        BY HeaderOfJoined
    <2> HIDE DEF columns
    <2>2. Len(columns) - 1 \in DOMAIN columns
        BY <1>2, <2>1
    <2>3. columns[Len(columns) - 1] \in DOMAIN joined
        BY <2>1, <2>2 DEF Range
    <2>4. Len(joined[columns[Len(columns) - 1]]) \in Nat
        BY <2>3 DEF Collects
    <2>5. QED
        BY <1>2, <2>4 DEF RowAmounts, columns
<1>3. QED
    BY <1>1, <1>2

LEMMA WrittenRelation ==
    ASSUME NEW joined, Collects(joined), NEW amount \in Nat, NEW garbage \in Cells
    PROVE  /\ WrittenFile(joined, amount, garbage) \in Relation
           /\ WrittenFile(joined, amount, garbage).header
                = IF DOMAIN joined = {} THEN <<NoColumn>> ELSE JoinedColumns(joined)
<1> DEFINE columns == JoinedColumns(joined)
           Cell(c, n) == IF n <= Len(joined[c]) THEN joined[c][n] ELSE garbage
<1>1. /\ columns \in Seq(Columns \cup GarbageNames) /\ Range(columns) = DOMAIN joined
      /\ Len(columns) \in Nat /\ DOMAIN columns = 1..Len(columns)
    BY HeaderOfJoined
<1>2. CASE columns = <<>>
    <2>1. DOMAIN joined = {}
        BY <1>1, <1>2 DEF Range
    <2>2. [n \in 1..(amount - 1) |-> <<EmptyCell>>] \in Seq(Tuple)
        <3>1. <<EmptyCell>> \in Tuple
            BY EvaluatorCells DEF Tuple
        <3>2. CASE amount = 0
            <4>1. 1..(amount - 1) = {}
                BY <3>2
            <4>2. [n \in 1..(amount - 1) |-> <<EmptyCell>>] = <<>>
                BY <4>1
            <4>3. QED
                BY <4>2
        <3>3. CASE amount # 0
            <4>1. amount - 1 \in Nat
                BY <3>3
            <4>2. QED
                BY <3>1, <4>1
        <3>4. QED
            BY <3>2, <3>3
    <2>3. <<NoColumn>> \in Seq(Names)
        BY DEF Names
    <2>4. WrittenFile(joined, amount, garbage)
             = [header |-> <<NoColumn>>,
                rows   |-> [n \in 1..(amount - 1) |-> <<EmptyCell>>]]
        BY <1>2 DEF WrittenFile
    <2>5. QED
        BY <2>1, <2>2, <2>3, <2>4 DEF Relation
<1>3. CASE columns # <<>>
    <2>1. DOMAIN joined # {}
        <3>1. 1 \in DOMAIN columns
            BY <1>1, <1>3
        <3>2. QED
            BY <1>1, <3>1 DEF Range
    <2>2. ASSUME NEW n \in 1..amount, NEW m \in 1..Len(columns)
          PROVE  Cell(columns[m], n) \in Cells
        <3>1. columns[m] \in DOMAIN joined
            BY <1>1 DEF Range
        <3>2. joined[columns[m]] \in Seq(Cells)
            BY <3>1 DEF Collects
        <3>3. CASE n <= Len(joined[columns[m]])
            <4>1. n \in 1..Len(joined[columns[m]])
                BY <3>2, <3>3
            <4>2. QED
                BY <3>2, <3>3, <4>1
        <3>4. QED
            BY <3>3
    <2> HIDE DEF Cell
    <2>3. ASSUME NEW n \in 1..amount
          PROVE  [m \in DOMAIN columns |-> Cell(columns[m], n)] \in Tuple
        <3>1. [m \in 1..Len(columns) |-> Cell(columns[m], n)] \in Seq(Cells)
            BY <1>1, <2>2
        <3>2. QED
            BY <1>1, <3>1 DEF Tuple
    <2> DEFINE lines == [n \in 1..amount |->
                            [m \in DOMAIN columns |-> Cell(columns[m], n)]]
    <2>4. lines \in Seq(Tuple)
        BY <2>3
    <2>5. WrittenFile(joined, amount, garbage) = [header |-> columns, rows |-> lines]
        BY <1>3 DEF WrittenFile, Cell
    <2>6. columns \in Seq(Names)
        BY <1>1 DEF Names
    <2> HIDE DEF lines, columns
    <2>7. QED
        BY <2>1, <2>4, <2>5, <2>6 DEF Relation, columns
<1>4. QED
    BY <1>2, <1>3

(***************************************************************************)
(* What the joins collect.                                                 *)
(***************************************************************************)

\* The index maps hold entries of keys.
IndexMapsOK ==
    /\ DOMAIN stringIndexTable \cup DOMAIN floatIndexTable \subseteq Keys
    /\ \A c \in DOMAIN stringIndexTable : stringIndexTable[c] \in Seq(IndexEntry)
    /\ \A c \in DOMAIN floatIndexTable : floatIndexTable[c] \in Seq(IndexEntry)

LEMMA EntriesAreEntries ==
    ASSUME IndexMapsOK, NEW kind, NEW c
    PROVE  EntriesOf(IndexTable(kind), c) \in Seq(IndexEntry)
<1>1. <<>> \in Seq(IndexEntry)
    OBVIOUS
<1>2. QED
    BY <1>1 DEF IndexMapsOK, EntriesOf, IndexTable

LEMMA KeysHaveTables ==
    ASSUME NEW c \in Keys
    PROVE  /\ c \in Columns
           /\ TableOf(c) \in Range(Catalog)
           /\ c \in Range(ColumnsOf[TableOf(c)])
BY KeysAssumption, TableOfColumn

LEMMA IndexPairsOfMembers ==
    ASSUME NEW B, NEW D,
           EntriesOf(IndexTable(indexOne.kind), indexOne.column) \in Seq(B),
           EntriesOf(IndexTable(indexOne.kind), indexTwo.column) \in Seq(D)
    PROVE  IndexPairs \in Seq(B \X D)
<1> DEFINE one == EntriesOf(IndexTable(indexOne.kind), indexOne.column)
           two == EntriesOf(IndexTable(indexOne.kind), indexTwo.column)
           Found(n) == Pairs(WithKey(one, KeyOrder[n]), WithKey(two, KeyOrder[n]))
           q == [n \in DOMAIN KeyOrder |-> Found(n)]
<1>1. one \in Seq(B) /\ two \in Seq(D)
    OBVIOUS
<1>2. IndexPairs = FlattenSeq(q)
    BY DEF IndexPairs
<1> HIDE DEF one, two
<1>3. \A n \in DOMAIN KeyOrder : Found(n) \in Seq(B \X D)
    BY <1>1, WithKeyOf, PairsOfMembers
<1> HIDE DEF Found
<1>4. q \in Seq(Seq(B \X D))
    <2>1. DOMAIN KeyOrder = 1..Len(KeyOrder) /\ Len(KeyOrder) \in Nat
        BY KeyOrderAssumption
    <2>2. [n \in 1..Len(KeyOrder) |-> Found(n)] \in Seq(Seq(B \X D))
        BY <1>3, <2>1
    <2>3. QED
        BY <2>1, <2>2
<1> HIDE DEF q
<1>5. QED
    BY <1>2, <1>4, Flattened

\* What a join pushes: a cell with the place of a header it belongs to.
Push == [table : Range(Catalog), place : Nat \ {0}, cell : Cells]

LEMMA PushesOfTuple ==
    ASSUME NEW t \in Range(Catalog), NEW tuple \in Tuple
    PROVE  /\ Pushes(t, tuple) \in Seq(Push)
           /\ \A p : p \in Range(Pushes(t, tuple))
                        <=> \E n \in 1..Len(tuple) :
                               p = [table |-> t, place |-> n, cell |-> tuple[n]]
<1> DEFINE push(n) == [table |-> t, place |-> n, cell |-> tuple[n]]
<1>1. Len(tuple) \in Nat /\ DOMAIN tuple = 1..Len(tuple)
      /\ \A n \in 1..Len(tuple) : tuple[n] \in Cells
    BY DEF Tuple
<1>2. Pushes(t, tuple) = [n \in 1..Len(tuple) |-> push(n)]
    BY <1>1 DEF Pushes
<1>3. \A n \in 1..Len(tuple) : push(n) \in Push
    BY <1>1 DEF Push
<1> HIDE DEF push
<1>4. Pushes(t, tuple) \in Seq(Push)
    BY <1>1, <1>2, <1>3
<1>5. \A p : p \in Range(Pushes(t, tuple)) <=> \E n \in 1..Len(tuple) : p = push(n)
    BY <1>2 DEF Range
<1>6. QED
    BY <1>4, <1>5 DEF push

\* What is pushed of k pairs of tuples.
PairPushes(t, left, u, right, k) ==
    FlattenSeq([n \in 1..k |-> Pushes(t, left[n]) \o Pushes(u, right[n])])

LEMMA PushesOfPairs ==
    ASSUME NEW t \in Range(Catalog), NEW u \in Range(Catalog), NEW k \in Nat,
           NEW left \in [1..k -> Tuple], NEW right \in [1..k -> Tuple]
    PROVE  /\ PairPushes(t, left, u, right, k) \in Seq(Push)
           /\ \A p : p \in Range(PairPushes(t, left, u, right, k))
                        <=> \E n \in 1..k : \/ p \in Range(Pushes(t, left[n]))
                                            \/ p \in Range(Pushes(u, right[n]))
<1> DEFINE both(n) == Pushes(t, left[n]) \o Pushes(u, right[n])
           q == [n \in 1..k |-> both(n)]
<1>1. ASSUME NEW n \in 1..k
      PROVE  /\ both(n) \in Seq(Push)
             /\ \A p : p \in Range(both(n)) <=> \/ p \in Range(Pushes(t, left[n]))
                                                \/ p \in Range(Pushes(u, right[n]))
    <2>1. left[n] \in Tuple /\ right[n] \in Tuple
        OBVIOUS
    <2>2. Pushes(t, left[n]) \in Seq(Push) /\ Pushes(u, right[n]) \in Seq(Push)
        BY <2>1, PushesOfTuple
    <2>3. QED
        BY <2>2, RangeOfConcatenation
<1>2. PairPushes(t, left, u, right, k) = FlattenSeq(q)
    BY DEF PairPushes
<1> HIDE DEF both
<1>3. q \in Seq(Seq(Push)) /\ Len(q) = k /\ \A n \in 1..k : q[n] = both(n)
    BY <1>1
<1> HIDE DEF q
<1>4. /\ FlattenSeq(q) \in Seq(Push)
      /\ \A p : p \in Range(FlattenSeq(q)) <=> \E n \in 1..Len(q) : p \in Range(q[n])
    BY <1>3, Flattened
<1>5. QED
    BY <1>1, <1>2, <1>3, <1>4

\* The pushes are those of pairs of tuples of X and Y.
PushesPairs(pushes, t, X, u, Y) ==
    \E k \in Nat : \E left \in [1..k -> X] : \E right \in [1..k -> Y] :
        pushes = PairPushes(t, left, u, right, k)

LEMMA PushedPairs ==
    ASSUME NEW t \in Range(Catalog), NEW u \in Range(Catalog),
           NEW X \in SUBSET Tuple, NEW Y \in SUBSET Tuple,
           NEW pushes, PushesPairs(pushes, t, X, u, Y)
    PROVE  pushes \in Seq(Push)
<1>1. PICK k \in Nat : \E left \in [1..k -> X] : \E right \in [1..k -> Y] :
         pushes = PairPushes(t, left, u, right, k)
    BY DEF PushesPairs
<1>2. PICK left \in [1..k -> X] : \E right \in [1..k -> Y] :
         pushes = PairPushes(t, left, u, right, k)
    BY <1>1
<1>3. PICK right \in [1..k -> Y] : pushes = PairPushes(t, left, u, right, k)
    BY <1>2
<1>4. left \in [1..k -> Tuple] /\ right \in [1..k -> Tuple]
    OBVIOUS
<1>5. QED
    BY <1>3, <1>4, PushesOfPairs

\* Whatever lies past the headers, what is pushed is collected under names.
LEMMA JoiningsCollect ==
    ASSUME NEW entered \in SUBSET Columns, NEW pushes \in Seq(Push),
           NEW joined \in Joinings(entered, pushes)
    PROVE  Collects(joined)
<1>1. PICK stray \in [PastHeader(pushes) -> GarbageNames] :
         joined = JoinedRows(entered, pushes, stray)
    BY DEF Joinings
<1> DEFINE into(c) == PushedInto(c, pushes, stray)
           cells(c) == [n \in DOMAIN into(c) |-> into(c)[n].cell]
           names == entered \cup {PushedColumn(p, stray) : p \in Range(pushes)}
<1>2. joined = [c \in names |-> cells(c)]
    BY <1>1 DEF JoinedRows
<1>3. Range(pushes) \subseteq Push
    BY DEF Range
<1>4. ASSUME NEW p \in Range(pushes)
      PROVE  PushedColumn(p, stray) \in Columns \cup GarbageNames
    <2>1. p.table \in Range(Catalog)
        BY <1>3 DEF Push
    <2>2. CASE p.place \in DOMAIN ColumnsOf[p.table]
        <3>1. ColumnsOf[p.table] \in Seq(Columns)
            BY <2>1, CatalogTables
        <3>2. ColumnsOf[p.table][p.place] \in Columns
            BY <2>2, <3>1
        <3>3. QED
            BY <2>2, <3>2 DEF PushedColumn
    <2>3. CASE p.place \notin DOMAIN ColumnsOf[p.table]
        <3>1. <<p.table, p.place>> \in PastHeader(pushes)
            BY <2>3 DEF PastHeader
        <3>2. stray[<<p.table, p.place>>] \in GarbageNames
            BY <3>1
        <3>3. QED
            BY <2>3, <3>2 DEF PushedColumn
    <2>4. QED
        BY <2>2, <2>3
<1>5. names \subseteq Columns \cup GarbageNames
    BY <1>4
<1>6. ASSUME NEW c PROVE cells(c) \in Seq(Cells)
    <2>1. Taken(into(c), pushes, {n \in DOMAIN pushes : PushedColumn(pushes[n], stray) = c})
        BY PushedTaken
    <2> HIDE DEF into
    <2>2. into(c) \in Seq(Push)
        BY <1>3, <2>1 DEF Taken
    <2>3. Len(into(c)) \in Nat /\ DOMAIN into(c) = 1..Len(into(c))
          /\ \A n \in 1..Len(into(c)) : into(c)[n] \in Push
        BY <2>2
    <2>4. \A p \in Push : p.cell \in Cells
        BY DEF Push
    <2>5. QED
        BY <2>3, <2>4
<1> HIDE DEF cells, names
<1>7. DOMAIN joined = names /\ \A c \in names : joined[c] = cells(c)
    BY <1>2
<1>8. QED
    BY <1>5, <1>6, <1>7 DEF Collects

\* The tuples as wide as the header of their table.
FullTuple(t) == {tuple \in Tuple : Len(tuple) = Len(ColumnsOf[t])}

\* Nothing or every column of both tables is added to what was entered before.
Fills(joined, entered, t, u) ==
    \/ DOMAIN joined = entered
    \/ DOMAIN joined = entered \cup (Range(ColumnsOf[t]) \cup Range(ColumnsOf[u]))

\* Tuples as wide as their headers fill the columns of these, if there are any,
\* and no other.
LEMMA FullTuplesJoined ==
    ASSUME NEW t \in Range(Catalog), NEW u \in Range(Catalog), NEW pushes,
           PushesPairs(pushes, t, FullTuple(t), u, FullTuple(u)),
           NEW entered, NEW joined \in Joinings(entered, pushes)
    PROVE  Fills(joined, entered, t, u)
<1> DEFINE X == FullTuple(t)
           Y == FullTuple(u)
<1> PICK k \in Nat : \E left \in [1..k -> X] : \E right \in [1..k -> Y] :
         pushes = PairPushes(t, left, u, right, k)
    BY DEF PushesPairs
<1> PICK left \in [1..k -> X] : \E right \in [1..k -> Y] :
         pushes = PairPushes(t, left, u, right, k)
    OBVIOUS
<1>1. PICK right \in [1..k -> Y] : pushes = PairPushes(t, left, u, right, k)
    OBVIOUS
<1>2. /\ left \in [1..k -> Tuple] /\ right \in [1..k -> Tuple]
      /\ \A n \in 1..k : Len(left[n]) = Len(ColumnsOf[t])
      /\ \A n \in 1..k : Len(right[n]) = Len(ColumnsOf[u])
    BY DEF FullTuple
<1>3. \A p : p \in Range(pushes)
                <=> \E n \in 1..k : \/ p \in Range(Pushes(t, left[n]))
                                    \/ p \in Range(Pushes(u, right[n]))
    BY <1>1, <1>2, PushesOfPairs
<1>4. PICK stray \in [PastHeader(pushes) -> GarbageNames] :
         joined = JoinedRows(entered, pushes, stray)
    BY DEF Joinings
<1>5. DOMAIN joined = entered \cup {PushedColumn(p, stray) : p \in Range(pushes)}
    BY <1>4 DEF JoinedRows
<1>6. ASSUME NEW w \in Range(Catalog), NEW tuple \in Tuple,
             Len(tuple) = Len(ColumnsOf[w]), NEW c
      PROVE  (\E p \in Range(Pushes(w, tuple)) : c = PushedColumn(p, stray))
                <=> c \in Range(ColumnsOf[w])
    <2>1. DOMAIN ColumnsOf[w] = 1..Len(tuple)
        BY <1>6, CatalogTables
    <2>2. ASSUME NEW n \in 1..Len(tuple), NEW p,
                 p = [table |-> w, place |-> n, cell |-> tuple[n]]
          PROVE  PushedColumn(p, stray) = ColumnsOf[w][n]
        <3>1. p.table = w /\ p.place = n
            BY <2>2
        <3>2. QED
            BY <2>1, <3>1 DEF PushedColumn
    <2>3. \A p : p \in Range(Pushes(w, tuple))
                    <=> \E n \in 1..Len(tuple) :
                           p = [table |-> w, place |-> n, cell |-> tuple[n]]
        BY PushesOfTuple
    <2>4. ASSUME NEW p \in Range(Pushes(w, tuple)), c = PushedColumn(p, stray)
          PROVE  \E n \in 1..Len(tuple) : c = ColumnsOf[w][n]
        <3>1. PICK n \in 1..Len(tuple) :
                 p = [table |-> w, place |-> n, cell |-> tuple[n]]
            BY <2>3, <2>4
        <3>2. PushedColumn(p, stray) = ColumnsOf[w][n]
            BY <2>2, <3>1
        <3>3. QED
            BY <2>4, <3>2
    <2>5. ASSUME NEW n \in 1..Len(tuple), c = ColumnsOf[w][n]
          PROVE  \E p \in Range(Pushes(w, tuple)) : c = PushedColumn(p, stray)
        <3> DEFINE p == [table |-> w, place |-> n, cell |-> tuple[n]]
        <3>1. p \in Range(Pushes(w, tuple))
            BY <2>3
        <3>2. PushedColumn(p, stray) = ColumnsOf[w][n]
            BY <2>2
        <3> HIDE DEF p
        <3>3. QED
            BY <2>5, <3>1, <3>2
    <2>6. c \in Range(ColumnsOf[w]) <=> \E n \in 1..Len(tuple) : c = ColumnsOf[w][n]
        BY <2>1 DEF Range
    <2>7. QED
        BY <2>4, <2>5, <2>6
<1>7. ASSUME NEW c
      PROVE  c \in {PushedColumn(p, stray) : p \in Range(pushes)}
                <=> /\ k # 0
                    /\ c \in Range(ColumnsOf[t]) \cup Range(ColumnsOf[u])
    <2>1. c \in {PushedColumn(p, stray) : p \in Range(pushes)}
             <=> \E n \in 1..k :
                    \/ \E p \in Range(Pushes(t, left[n])) : c = PushedColumn(p, stray)
                    \/ \E p \in Range(Pushes(u, right[n])) : c = PushedColumn(p, stray)
        BY <1>3
    <2>2. ASSUME NEW n \in 1..k
          PROVE  /\ (\E p \in Range(Pushes(t, left[n])) : c = PushedColumn(p, stray))
                       <=> c \in Range(ColumnsOf[t])
                 /\ (\E p \in Range(Pushes(u, right[n])) : c = PushedColumn(p, stray))
                       <=> c \in Range(ColumnsOf[u])
        <3>1. left[n] \in Tuple /\ right[n] \in Tuple
              /\ Len(left[n]) = Len(ColumnsOf[t]) /\ Len(right[n]) = Len(ColumnsOf[u])
            BY <1>2
        <3>2. QED
            BY <1>6, <3>1
    <2>3. (\E n \in 1..k : TRUE) <=> k # 0
        <3>1. k # 0 => 1 \in 1..k
            OBVIOUS
        <3>2. k = 0 => 1..k = {}
            OBVIOUS
        <3>3. QED
            BY <3>1, <3>2
    <2>4. QED
        BY <2>1, <2>2, <2>3
<1>8. QED
    BY <1>5, <1>7 DEF Fills

\* Entries with tuples of X.
EntriesWith(X) == [key : Cells, tuple : X]

\* The pairs of an index join and what it pushes.
LEMMA IndexPushesPairs ==
    ASSUME NEW X, NEW Y,
           EntriesOf(IndexTable(indexOne.kind), indexOne.column) \in Seq(EntriesWith(X)),
           EntriesOf(IndexTable(indexOne.kind), indexTwo.column) \in Seq(EntriesWith(Y))
    PROVE  PushesPairs(IndexPushes, TableOf(indexOne.column), X,
                       TableOf(indexTwo.column), Y)
<1> DEFINE pairs == IndexPairs
           t == TableOf(indexOne.column)
           u == TableOf(indexTwo.column)
           left == [n \in 1..Len(pairs) |-> pairs[n][1].tuple]
           right == [n \in 1..Len(pairs) |-> pairs[n][2].tuple]
<1>1. pairs \in Seq(EntriesWith(X) \X EntriesWith(Y))
    BY IndexPairsOfMembers
<1>2. IndexPushes = FlattenSeq([n \in DOMAIN pairs |->
                        Pushes(t, pairs[n][1].tuple) \o Pushes(u, pairs[n][2].tuple)])
    BY DEF IndexPushes, IndexTables
<1> HIDE DEF pairs, t, u
<1>3. Len(pairs) \in Nat /\ DOMAIN pairs = 1..Len(pairs)
      /\ \A n \in 1..Len(pairs) :
            pairs[n][1] \in EntriesWith(X) /\ pairs[n][2] \in EntriesWith(Y)
    BY <1>1
<1>4. \A Z : \A e \in EntriesWith(Z) : e.tuple \in Z
    BY DEF EntriesWith
<1>5. left \in [1..Len(pairs) -> X] /\ right \in [1..Len(pairs) -> Y]
    BY <1>3, <1>4
<1>6. FlattenSeq([n \in DOMAIN pairs |->
                     Pushes(t, pairs[n][1].tuple) \o Pushes(u, pairs[n][2].tuple)])
         = PairPushes(t, left, u, right, Len(pairs))
    BY <1>3 DEF PairPushes
<1> HIDE DEF left, right
<1>7. PushesPairs(IndexPushes, t, X, u, Y)
    BY <1>2, <1>3, <1>5, <1>6 DEF PushesPairs
<1>8. QED
    BY <1>7 DEF t, u

\* An index join collects cells under names; of full tuples those of the tables
\* of both indexes.
LEMMA IndexJoinCollects ==
    ASSUME indexOne.column \in Keys, indexTwo.column \in Keys,
           NEW X \in SUBSET Tuple, NEW Y \in SUBSET Tuple,
           EntriesOf(IndexTable(indexOne.kind), indexOne.column) \in Seq(EntriesWith(X)),
           EntriesOf(IndexTable(indexOne.kind), indexTwo.column) \in Seq(EntriesWith(Y)),
           NEW joined \in IndexJoinings
    PROVE  /\ Collects(joined)
           /\ X = FullTuple(IndexTables[1]) /\ Y = FullTuple(IndexTables[2]) =>
                 DOMAIN joined = Range(ColumnsOf[IndexTables[1]])
                                    \cup Range(ColumnsOf[IndexTables[2]])
<1> DEFINE t == TableOf(indexOne.column)
           u == TableOf(indexTwo.column)
           both == Range(ColumnsOf[t]) \cup Range(ColumnsOf[u])
<1>1. t \in Range(Catalog) /\ u \in Range(Catalog) /\ both \in SUBSET Columns
    BY KeysHaveTables, CatalogTables
<1>2. PushesPairs(IndexPushes, t, X, u, Y)
    BY IndexPushesPairs
<1>3. IndexTables = <<t, u>>
    BY DEF IndexTables
<1> HIDE DEF t, u
<1>4. IndexTables[1] = t /\ IndexTables[2] = u /\ Range(IndexTables) = {t, u}
    <2>1. DOMAIN IndexTables = {1, 2} /\ IndexTables[1] = t /\ IndexTables[2] = u
        BY <1>3
    <2>2. QED
        BY <2>1 DEF Range
<1>5. FromColumns(IndexTables) = both
    BY <1>4 DEF FromColumns
<1>6. joined \in Joinings(both, IndexPushes)
    BY <1>5 DEF IndexJoinings
<1> HIDE DEF both
<1>7. Collects(joined)
    BY <1>1, <1>2, <1>6, PushedPairs, JoiningsCollect
<1>8. ASSUME X = FullTuple(t), Y = FullTuple(u) PROVE DOMAIN joined = both
    <2>1. PushesPairs(IndexPushes, t, FullTuple(t), u, FullTuple(u))
        BY <1>2, <1>8
    <2>2. Fills(joined, both, t, u)
        BY <1>1, <1>6, <2>1, FullTuplesJoined
    <2>3. QED
        BY <2>2 DEF Fills, both
<1>9. QED
    BY <1>4, <1>7, <1>8 DEF both

LEMMA HashPairsOfMembers ==
    ASSUME NEW A, NEW B, NEW place, NEW garbage, InputRows \in Seq(A),
           EntriesOf(IndexTable(indexOne.kind), indexOne.column) \in Seq(B)
    PROVE  HashPairs(place, garbage) \in Seq(A \X B)
<1> DEFINE entries == EntriesOf(IndexTable(indexOne.kind), indexOne.column)
           input == InputRows
           Matches(n) ==
               Pairs(<<input[n]>>, WithKey(entries, CheckedCell(input[n], place, garbage)))
           q == [n \in DOMAIN input |-> Matches(n)]
<1>1. HashPairs(place, garbage) = FlattenSeq(q)
    BY DEF HashPairs
<1>2. input \in Seq(A) /\ entries \in Seq(B)
    OBVIOUS
<1>3. DOMAIN input = 1..Len(input) /\ Len(input) \in Nat
    BY <1>2
<1> HIDE DEF input, entries
<1>4. ASSUME NEW n \in DOMAIN input PROVE Matches(n) \in Seq(A \X B)
    <2>1. <<input[n]>> \in Seq(A)
        BY <1>2
    <2>2. WithKey(entries, CheckedCell(input[n], place, garbage)) \in Seq(B)
        BY <1>2, WithKeyOf
    <2>3. QED
        BY <2>1, <2>2, PairsOfMembers
<1> HIDE DEF Matches
<1>5. q \in Seq(Seq(A \X B))
    <2>1. [n \in 1..Len(input) |-> Matches(n)] \in Seq(Seq(A \X B))
        BY <1>3, <1>4
    <2>2. QED
        BY <1>3, <2>1
<1> HIDE DEF q
<1>6. QED
    BY <1>1, <1>5, Flattened

LEMMA HashPushesPairs ==
    ASSUME NEW X, NEW Y, InputRows \in Seq(X),
           EntriesOf(IndexTable(indexOne.kind), indexOne.column) \in Seq(EntriesWith(Y)),
           NEW place, NEW garbage
    PROVE  PushesPairs(HashPushes(place, garbage), InputTable, X, IndexedTable, Y)
<1> DEFINE pairs == HashPairs(place, garbage)
           t == InputTable
           u == IndexedTable
           left == [n \in 1..Len(pairs) |-> pairs[n][1]]
           right == [n \in 1..Len(pairs) |-> pairs[n][2].tuple]
<1>1. pairs \in Seq(X \X EntriesWith(Y))
    BY HashPairsOfMembers
<1>2. HashPushes(place, garbage)
         = FlattenSeq([n \in DOMAIN pairs |->
              Pushes(t, pairs[n][1]) \o Pushes(u, pairs[n][2].tuple)])
    BY DEF HashPushes
<1> HIDE DEF pairs, t, u
<1>3. Len(pairs) \in Nat /\ DOMAIN pairs = 1..Len(pairs)
      /\ \A n \in 1..Len(pairs) : pairs[n][1] \in X /\ pairs[n][2] \in EntriesWith(Y)
    BY <1>1
<1>4. \A e \in EntriesWith(Y) : e.tuple \in Y
    BY DEF EntriesWith
<1>5. left \in [1..Len(pairs) -> X] /\ right \in [1..Len(pairs) -> Y]
    BY <1>3, <1>4
<1>6. FlattenSeq([n \in DOMAIN pairs |->
                     Pushes(t, pairs[n][1]) \o Pushes(u, pairs[n][2].tuple)])
         = PairPushes(t, left, u, right, Len(pairs))
    BY <1>3 DEF PairPushes
<1> HIDE DEF left, right
<1>7. PushesPairs(HashPushes(place, garbage), t, X, u, Y)
    BY <1>2, <1>3, <1>5, <1>6 DEF PushesPairs
<1>8. QED
    BY <1>7 DEF t, u

\* A hash join collects cells under names; of full tuples those of its two
\* tables, unless there is no pair.
LEMMA HashJoinCollects ==
    ASSUME NEW X \in SUBSET Tuple, NEW Y \in SUBSET Tuple, InputRows \in Seq(X),
           EntriesOf(IndexTable(indexOne.kind), indexOne.column) \in Seq(EntriesWith(Y)),
           InputTable \in Range(Catalog), IndexedTable \in Range(Catalog),
           NEW place, NEW garbage, NEW joined \in HashJoinings(place, garbage)
    PROVE  /\ Collects(joined)
           /\ X = FullTuple(InputTable) /\ Y = FullTuple(IndexedTable) =>
                 \/ DOMAIN joined = {}
                 \/ DOMAIN joined = Range(ColumnsOf[InputTable])
                                       \cup Range(ColumnsOf[IndexedTable])
<1>1. PushesPairs(HashPushes(place, garbage), InputTable, X, IndexedTable, Y)
    BY HashPushesPairs
<1>2. joined \in Joinings({}, HashPushes(place, garbage))
    BY DEF HashJoinings
<1>3. Collects(joined)
    <2>1. HashPushes(place, garbage) \in Seq(Push)
        BY <1>1, PushedPairs
    <2>2. {} \in SUBSET Columns
        OBVIOUS
    <2>3. QED
        BY <1>2, <2>1, <2>2, JoiningsCollect
<1>4. ASSUME X = FullTuple(InputTable), Y = FullTuple(IndexedTable)
      PROVE  Fills(joined, {}, InputTable, IndexedTable)
    <2>1. PushesPairs(HashPushes(place, garbage), InputTable, FullTuple(InputTable),
                      IndexedTable, FullTuple(IndexedTable))
        BY <1>1, <1>4
    <2>2. QED
        BY <1>2, <2>1, FullTuplesJoined
<1>5. QED
    BY <1>3, <1>4 DEF Fills

(***************************************************************************)
(* What the search for a join finds in a comparison.                       *)
(***************************************************************************)

LEMMA OperandColumnsInSequence ==
    ASSUME NEW operand
    PROVE  OperandColumns(operand) \in Seq(Range(OperandColumns(operand)))
<1>1. ASSUME NEW a, NEW b
      PROVE  /\ <<a>> \in Seq(Range(<<a>>))
             /\ <<a, b>> \in Seq(Range(<<a, b>>))
             /\ <<>> \in Seq(Range(<<>>))
    BY DEF Range
<1>2. CASE operand.kind = "column"
    <2>1. OperandColumns(operand) = <<operand.name>>
        BY <1>2 DEF OperandColumns
    <2>2. QED
        BY <1>1, <2>1
<1>3. CASE operand.kind = "column_arithmetic"
    <2>1. OperandColumns(operand) = <<operand.left, operand.right>>
        BY <1>3 DEF OperandColumns
    <2>2. QED
        BY <1>1, <2>1
<1>4. CASE operand.kind \notin {"column", "column_arithmetic"}
    <2>1. OperandColumns(operand) = <<>>
        BY <1>4 DEF OperandColumns
    <2>2. QED
        BY <1>1, <2>1
<1>5. QED
    BY <1>2, <1>3, <1>4

LEMMA FindsColumns ==
    ASSUME whereClauseColumns = <<>>, NEW c
    PROVE  /\ ComparisonColumns(c) \in Seq(NamedColumns(c))
           /\ Range(ComparisonColumns(c)) = NamedColumns(c)
<1> DEFINE left == OperandColumns(c.left)
           right == OperandColumns(c.right)
           s == whereClauseColumns \o left \o right
<1>1. left \in Seq(NamedColumns(c)) /\ right \in Seq(NamedColumns(c))
    <2>1. left \in Seq(Range(left)) /\ right \in Seq(Range(right))
        BY OperandColumnsInSequence
    <2>2. Range(left) \subseteq NamedColumns(c) /\ Range(right) \subseteq NamedColumns(c)
        BY DEF NamedColumns
    <2> HIDE DEF left, right
    <2>3. QED
        BY <2>1, <2>2
<1>2. NamedColumns(c) = Range(left) \cup Range(right)
    BY DEF NamedColumns
<1>3. ComparisonColumns(c) = Distinct(s)
    BY DEF ComparisonColumns
<1> HIDE DEF left, right
<1>4. s = left \o right
    BY <1>1
<1> HIDE DEF s
<1>5. s \in Seq(NamedColumns(c)) /\ Range(s) = NamedColumns(c)
    <2>1. left \o right \in Seq(NamedColumns(c))
          /\ \A v : v \in Range(left \o right) <=> v \in Range(left) \/ v \in Range(right)
        BY <1>1, RangeOfConcatenation
    <2>2. QED
        BY <1>2, <1>4, <2>1
<1>6. QED
    BY <1>3, <1>5, DistinctTakes

LEMMA FindsTables ==
    ASSUME joinedTables = <<>>, NEW C, NEW columns \in Seq(C)
    PROVE  /\ TablesOf(columns) \in Seq(Range(Catalog))
           /\ Range(TablesOf(columns))
                = {t \in Range(Catalog) :
                      \E c \in Range(columns) : c \in Range(ColumnsOf[t])}
           /\ IsInjective(TablesOf(columns))
<1> DEFINE Owners(c) == Selected(Catalog, LAMBDA t : c \in Range(ColumnsOf[t]))
           q == [n \in DOMAIN columns |-> Owners(columns[n])]
           s == FlattenSeq(q)
<1>1. TablesOf(columns) = Distinct(joinedTables \o s)
    BY DEF TablesOf
<1>2. ASSUME NEW c
      PROVE  /\ Owners(c) \in Seq(Range(Catalog))
             /\ \A t : t \in Range(Owners(c))
                          <=> t \in Range(Catalog) /\ c \in Range(ColumnsOf[t])
    <2> DEFINE K == {n \in DOMAIN Catalog : c \in Range(ColumnsOf[Catalog[n]])}
    <2>1. Taken(Owners(c), Catalog, K)
        BY CatalogTables, OwnersTaken
    <2> HIDE DEF Owners
    <2>2. \A t : t \in Range(Owners(c)) <=> \E n \in DOMAIN Catalog : n \in K /\ t = Catalog[n]
        BY <2>1 DEF Taken
    <2>3. \A n \in DOMAIN Catalog : n \in K <=> c \in Range(ColumnsOf[Catalog[n]])
        OBVIOUS
    <2>4. \A t : t \in Range(Catalog) <=> \E n \in DOMAIN Catalog : t = Catalog[n]
        BY DEF Range
    <2> HIDE DEF K
    <2>5. Owners(c) \in Seq(Range(Catalog))
        BY <2>1 DEF Taken
    <2>6. QED
        BY <2>2, <2>3, <2>4, <2>5
<1> HIDE DEF Owners
<1>3. DOMAIN columns = 1..Len(columns) /\ Len(columns) \in Nat
    OBVIOUS
<1>4. q \in Seq(Seq(Range(Catalog))) /\ Len(q) = Len(columns)
    <2>1. [n \in 1..Len(columns) |-> Owners(columns[n])] \in Seq(Seq(Range(Catalog)))
        BY <1>2, <1>3
    <2>2. q = [n \in 1..Len(columns) |-> Owners(columns[n])]
        BY <1>3
    <2>3. QED
        BY <1>3, <2>1, <2>2
<1>5. \A n \in DOMAIN columns : q[n] = Owners(columns[n])
    OBVIOUS
<1> HIDE DEF q
<1>6. /\ s \in Seq(Range(Catalog))
      /\ \A t : t \in Range(s) <=> \E n \in 1..Len(q) : t \in Range(q[n])
    BY <1>4, Flattened
<1> HIDE DEF s
<1>7. joinedTables \o s = s
    BY <1>6
<1>8. Range(s) = {t \in Range(Catalog) :
                     \E c \in Range(columns) : c \in Range(ColumnsOf[t])}
    <2>1. ASSUME NEW t
          PROVE  t \in Range(s) <=> t \in Range(Catalog)
                                    /\ \E c \in Range(columns) : c \in Range(ColumnsOf[t])
        <3>1. t \in Range(s) <=> \E n \in DOMAIN columns : t \in Range(Owners(columns[n]))
            BY <1>3, <1>4, <1>5, <1>6
        <3>2. \A c : c \in Range(columns) <=> \E n \in DOMAIN columns : c = columns[n]
            BY DEF Range
        <3>3. \A n \in DOMAIN columns :
                 t \in Range(Owners(columns[n]))
                    <=> t \in Range(Catalog) /\ columns[n] \in Range(ColumnsOf[t])
            BY <1>2
        <3>4. QED
            BY <3>1, <3>2, <3>3
    <2>2. QED
        BY <2>1
<1>9. QED
    BY <1>1, <1>6, <1>7, <1>8, DistinctTakes

\* The indexes of a set of columns.
IndexesIn(C) ==
    {x \in [column : Keys, kind : {"string", "float"}] :
        x.column \in C /\ x.column \in DOMAIN IndexTable(x.kind)}

LEMMA FindsIndexes ==
    ASSUME IndexMapsOK, NEW C, NEW columns \in Seq(C)
    PROVE  IndexesOf(columns) \in Seq(IndexesIn(Range(columns)))
<1> DEFINE Entered(c, table, kind) ==
                IF c \in DOMAIN table THEN <<[column |-> c, kind |-> kind]>> ELSE <<>>
           Found(c) == Entered(c, stringIndexTable, "string")
                          \o Entered(c, floatIndexTable, "float")
           q == [n \in DOMAIN columns |-> Found(columns[n])]
           I == IndexesIn(Range(columns))
<1>1. IndexesOf(columns) = FlattenSeq(q)
    BY DEF IndexesOf
<1>2. DOMAIN columns = 1..Len(columns) /\ Len(columns) \in Nat
    OBVIOUS
<1>3. ASSUME NEW c \in Range(columns) PROVE Found(c) \in Seq(I)
    <2>1. Entered(c, stringIndexTable, "string") \in Seq(I)
        <3>1. CASE c \in DOMAIN stringIndexTable
            <4>1. [column |-> c, kind |-> "string"] \in I
                BY <3>1 DEF IndexesIn, IndexMapsOK, IndexTable
            <4>2. QED
                BY <3>1, <4>1
        <3>2. QED
            BY <3>1
    <2>2. Entered(c, floatIndexTable, "float") \in Seq(I)
        <3>1. CASE c \in DOMAIN floatIndexTable
            <4>1. [column |-> c, kind |-> "float"] \in I
                BY <3>1 DEF IndexesIn, IndexMapsOK, IndexTable
            <4>2. QED
                BY <3>1, <4>1
        <3>2. QED
            BY <3>1
    <2> HIDE DEF Entered, I
    <2>3. QED
        BY <2>1, <2>2
<1>4. \A n \in DOMAIN columns : columns[n] \in Range(columns)
    BY DEF Range
<1> HIDE DEF Found, I
<1>5. q \in Seq(Seq(I))
    <2>1. [n \in 1..Len(columns) |-> Found(columns[n])] \in Seq(Seq(I))
        BY <1>2, <1>3, <1>4
    <2>2. q = [n \in 1..Len(columns) |-> Found(columns[n])]
        BY <1>2
    <2>3. QED
        BY <2>1, <2>2
<1> HIDE DEF q
<1>6. FlattenSeq(q) \in Seq(I)
    BY <1>5, Flattened
<1>7. QED
    BY <1>1, <1>6 DEF I

\* Two tables take two columns.
LEMMA TwoTablesTwoColumns ==
    ASSUME joinedTables = <<>>, NEW C, NEW columns \in Seq(C),
           Len(TablesOf(columns)) = 2
    PROVE  Len(columns) >= 2
<1> DEFINE tables == TablesOf(columns)
<1>1. /\ tables \in Seq(Range(Catalog)) /\ IsInjective(tables)
      /\ Range(tables) = {t \in Range(Catalog) :
                             \E c \in Range(columns) : c \in Range(ColumnsOf[t])}
    BY FindsTables
<1>2. Len(tables) = 2
    OBVIOUS
<1> HIDE DEF tables
<1>3. /\ tables[1] \in Range(Catalog) /\ tables[2] \in Range(Catalog)
      /\ tables[1] \in Range(tables) /\ tables[2] \in Range(tables)
      /\ tables[1] # tables[2]
    BY <1>1, <1>2 DEF IsInjective, Range
<1>4. PICK c \in Range(columns) : c \in Range(ColumnsOf[tables[1]])
    BY <1>1, <1>3
<1>5. PICK d \in Range(columns) : d \in Range(ColumnsOf[tables[2]])
    BY <1>1, <1>3
<1>6. c # d
    BY <1>3, <1>4, <1>5, TableOfColumn
<1>7. PICK m \in DOMAIN columns : columns[m] = c
    BY DEF Range
<1>8. PICK n \in DOMAIN columns : columns[n] = d
    BY DEF Range
<1>9. m \in 1..Len(columns) /\ n \in 1..Len(columns) /\ m # n /\ Len(columns) \in Nat
    BY <1>6, <1>7, <1>8
<1>10. QED
    BY <1>9

(***************************************************************************)
(* Types.  A query in execution is a valid one; what the search for a join *)
(* has found is there when the join comes.                                 *)
(***************************************************************************)

Answering == pc \notin {"down", "prompt"}

SearchInv ==
    /\ Answering => query \in Queries /\ Valid(query)
                       /\ Range(tableNames) \subseteq Range(query.from)
    /\ pc \in {"down", "prompt", "execute"} => whereClauseColumns = <<>> /\ joinedTables = <<>>
    /\ pc = "index_join" => indexOne # NoIndex /\ indexTwo # NoIndex
    /\ pc = "hash_join" => indexOne # NoIndex /\ IndexedTable \in Range(joinedTables)
    /\ pc \in {"product", "copy"} => lastJoinFile = NoFile \/ lastJoinFile[2] = "JOIN"

LEMMA TypedMaps ==
    ASSUME TypeOK
    PROVE  IndexMapsOK
BY DEF TypeOK, IndexMapsOK

LEMMA DatabaseTypes ==
    ASSUME NEW d \in Databases
    PROVE  /\ \A t \in Range(Catalog) : d.rows[t] \in Seq(Tuple)
           /\ \A c \in Keys : d.entries[c] \in Seq(IndexEntry)
BY DatabasesAssumption DEF Database

LEMMA LoadedTypes ==
    ASSUME db \in Databases
    PROVE  /\ DOMAIN LoadedStringIndexes \subseteq Keys
           /\ DOMAIN LoadedFloatIndexes \subseteq Keys
           /\ \A c \in DOMAIN LoadedStringIndexes :
                 LoadedStringIndexes[c] \in Seq(IndexEntry)
           /\ \A c \in DOMAIN LoadedFloatIndexes :
                 LoadedFloatIndexes[c] \in Seq(IndexEntry)
BY DatabaseTypes DEF LoadedStringIndexes, LoadedFloatIndexes

\* A name stands for a file or for none.
LEMMA FileNames ==
    /\ \A t : TableFile(t)[1] = t /\ TableFile(t)[2] = "tbl" /\ TableFile(t) # NoFile
    /\ \A f : JoinFile(f)[1] = f /\ JoinFile(f)[2] = "JOIN" /\ JoinFile(f) # NoFile
    /\ NoFile[2] = ""
BY DEF TableFile, JoinFile, NoFile

LEMMA InitialTypes ==
    ASSUME Init
    PROVE  TypeOK /\ SearchInv
<1>1. DOMAIN NoIndexes = {} /\ DOMAIN joinFiles = {}
    BY DEF Init, NoIndexes
<1>2. TypeOK
    <2>1. IsABag(EmptyBag)
        BY DEF IsABag, EmptyBag, SetToBag
    <2>2. QED
        BY <1>1, <2>1 DEF Init, TypeOK
<1>3. SearchInv
    BY DEF Init, SearchInv, Answering
<1>4. QED
    BY <1>2, <1>3

LEMMA StartKeepsTypes ==
    ASSUME TypeOK, SearchInv, Start
    PROVE  TypeOK' /\ SearchInv'
<1>1. /\ pc = "down" /\ pc' = "prompt"
      /\ stringIndexTable' = LoadedStringIndexes
      /\ floatIndexTable' = LoadedFloatIndexes
      /\ UNCHANGED <<db, joinFiles, query, reply, tableNames, whereClauseColumns,
                     joinedTables, indexOne, indexTwo, lastJoinFile, line, printed>>
    BY DEF Start, fields
<1>2. TypeOK'
    <2>1. db \in Databases
        BY DEF TypeOK
    <2>2. QED
        BY <1>1, <2>1, LoadedTypes DEF TypeOK
<1>3. SearchInv'
    BY <1>1 DEF SearchInv, Answering
<1>4. QED
    BY <1>2, <1>3

LEMMA EndKeepsTypes ==
    ASSUME TypeOK, LoseProcess, reply' \in {"none", "crashed"}
    PROVE  TypeOK' /\ SearchInv'
<1>1. /\ pc' = "down" /\ stringIndexTable' = NoIndexes /\ floatIndexTable' = NoIndexes
      /\ query' = NoQuery /\ tableNames' = <<>> /\ whereClauseColumns' = <<>>
      /\ joinedTables' = <<>> /\ indexOne' = NoIndex /\ indexTwo' = NoIndex
      /\ lastJoinFile' = NoFile /\ line' = 0 /\ printed' = EmptyBag
      /\ UNCHANGED <<db, joinFiles>>
    BY DEF LoseProcess
<1>2. DOMAIN NoIndexes = {} /\ IsABag(EmptyBag)
    BY DEF NoIndexes, IsABag, EmptyBag, SetToBag
<1>3. TypeOK'
    BY <1>1, <1>2 DEF TypeOK
<1>4. SearchInv'
    BY <1>1 DEF SearchInv, Answering
<1>5. QED
    BY <1>3, <1>4

\* Clear() leaves typed fields, whatever they were.
LEMMA ClearedTypes ==
    ASSUME TypeOK, Clear
    PROVE  /\ tableNames' \in Seq(Tables) /\ joinedTables' \in Seq(Range(Catalog))
           /\ whereClauseColumns' = <<>> /\ joinedTables' = <<>>
           /\ indexOne' = NoIndex /\ indexTwo' = NoIndex
           /\ lastJoinFile' = NoFile /\ line' \in Nat
           /\ DOMAIN joinFiles' \subseteq JoinNames
           /\ \A f \in DOMAIN joinFiles' : joinFiles'[f] \in Relation
<1>1. joinFiles' = [f \in DOMAIN joinFiles \ ScratchFiles |-> joinFiles[f]]
    BY DEF Clear, Restrict
<1>2. /\ DOMAIN joinFiles' \subseteq DOMAIN joinFiles
      /\ \A f \in DOMAIN joinFiles' : joinFiles'[f] = joinFiles[f]
    BY <1>1
<1>3. DOMAIN joinFiles' \subseteq JoinNames
      /\ \A f \in DOMAIN joinFiles' : joinFiles'[f] \in Relation
    BY <1>2 DEF TypeOK
<1>4. /\ tableNames' = <<>> /\ whereClauseColumns' = <<>> /\ joinedTables' = <<>>
      /\ indexOne' = NoIndex /\ indexTwo' = NoIndex
      /\ lastJoinFile' = NoFile /\ line' = 0
    BY DEF Clear
<1>5. QED
    BY <1>3, <1>4

LEMMA ParseKeepsTypes ==
    ASSUME TypeOK, SearchInv, NEW q \in Queries, Parse(q)
    PROVE  TypeOK' /\ SearchInv'
<1>1. /\ pc = "prompt" /\ query' = q /\ printed' = EmptyBag
      /\ UNCHANGED <<db, stringIndexTable, floatIndexTable>>
    BY DEF Parse, indexes
<1>2. q.from \in Seq(Tables) /\ IsABag(EmptyBag)
    BY QueriesAssumption DEF IsABag, EmptyBag, SetToBag
<1>3. CASE Valid(q)
    <2>1. /\ pc' = "execute" /\ reply' = "none" /\ tableNames' = q.from
          /\ UNCHANGED <<whereClauseColumns, joinedTables, indexOne, indexTwo,
                         lastJoinFile, line, joinFiles>>
        BY <1>3 DEF Parse
    <2>2. TypeOK'
        BY <1>1, <1>2, <2>1 DEF TypeOK
    <2>3. SearchInv'
        BY <1>1, <1>3, <2>1 DEF SearchInv, Answering
    <2>4. QED
        BY <2>2, <2>3
<1>4. CASE ~Valid(q)
    <2>1. pc' = "prompt" /\ reply' = "refused" /\ Clear
        BY <1>4 DEF Parse
    <2>2. TypeOK'
        BY <1>1, <1>2, <2>1, ClearedTypes DEF TypeOK
    <2>3. SearchInv'
        BY <2>1, ClearedTypes DEF SearchInv, Answering
    <2>4. QED
        BY <2>2, <2>3
<1>5. QED
    BY <1>3, <1>4

LEMMA OneTableKeepsTypes ==
    ASSUME TypeOK, SearchInv, ExecuteOnOneTable
    PROVE  TypeOK' /\ SearchInv'
<1>1. /\ pc = "execute" /\ pc' = "scan" /\ line' = 1
      /\ lastJoinFile' = TableFile(query.from[1])
      /\ UNCHANGED <<db, stringIndexTable, floatIndexTable, joinFiles, query, reply,
                     tableNames, whereClauseColumns, joinedTables, indexOne,
                     indexTwo, printed>>
    BY DEF ExecuteOnOneTable, indexes
<1>2. query.from[1] \in Tables
    <2>1. query \in Queries
        BY <1>1 DEF SearchInv, Answering
    <2>2. query.from \in Seq(Tables) /\ query.from # <<>>
        BY <2>1, QueriesAssumption
    <2>3. QED
        BY <2>2
<1>3. TypeOK'
    BY <1>1, <1>2 DEF TypeOK
<1>4. SearchInv'
    BY <1>1 DEF SearchInv, Answering
<1>5. QED
    BY <1>3, <1>4

\* What a round of the search leaves.
LEMMA SearchRound ==
    ASSUME TypeOK, SearchInv, TryComparison
    PROVE  \/ /\ pc' = "execute"
              /\ whereClauseColumns' = <<>> /\ joinedTables' = <<>>
              /\ UNCHANGED <<indexOne, indexTwo>>
           \/ /\ pc' \in {"index_join", "hash_join"}
              /\ \E C : /\ C = NamedColumns(Head(subTrees))
                        /\ whereClauseColumns' \in Seq(C)
                        /\ Len(whereClauseColumns') >= 2
                        /\ joinedTables' \in Seq(Range(Catalog))
                        /\ Len(joinedTables') = 2 /\ IsInjective(joinedTables')
                        /\ Range(joinedTables')
                              = {t \in Range(Catalog) :
                                    \E c \in C : c \in Range(ColumnsOf[t])}
                        /\ indexOne' \in IndexesIn(C)
                        /\ pc' = "index_join" => indexTwo' \in IndexesIn(C)
                        /\ pc' = "hash_join" => indexTwo' = NoIndex
<1> DEFINE C == NamedColumns(Head(subTrees))
           columns == ComparisonColumns(Head(subTrees))
           tables == TablesOf(columns)
           found == IF JoinsTwoTables(tables) THEN IndexesOf(columns) ELSE <<>>
<1>1. pc = "execute" /\ whereClauseColumns = <<>> /\ joinedTables = <<>>
    BY DEF TryComparison, SearchInv
<1>2. columns \in Seq(C) /\ Range(columns) = C
    BY <1>1, FindsColumns
<1>3. IF found = <<>>
      THEN /\ whereClauseColumns' = <<>> /\ joinedTables' = <<>>
           /\ UNCHANGED <<pc, indexOne, indexTwo>>
      ELSE /\ whereClauseColumns' = columns /\ joinedTables' = tables
           /\ indexOne' = found[1]
           /\ indexTwo' = IF Len(found) > 1 THEN found[2] ELSE NoIndex
           /\ pc' = IF Len(found) > 1 THEN "index_join" ELSE "hash_join"
    BY DEF TryComparison
<1> HIDE DEF columns
<1>4. /\ tables \in Seq(Range(Catalog)) /\ IsInjective(tables)
      /\ Range(tables) = {t \in Range(Catalog) : \E c \in C : c \in Range(ColumnsOf[t])}
    BY <1>1, <1>2, FindsTables
<1>5. JoinsTwoTables(tables) => Len(columns) >= 2 /\ Len(tables) = 2
    BY <1>1, <1>2, TwoTablesTwoColumns DEF JoinsTwoTables
<1>6. IndexesOf(columns) \in Seq(IndexesIn(C))
    BY <1>2, TypedMaps, FindsIndexes
<1> HIDE DEF tables
<1>7. found \in Seq(IndexesIn(C)) /\ (found # <<>> => JoinsTwoTables(tables))
    BY <1>6
<1> HIDE DEF found
<1>8. CASE found = <<>>
    BY <1>1, <1>3, <1>8
<1>9. CASE found # <<>>
    <2>1. Len(found) \in Nat /\ Len(found) >= 1 /\ found[1] \in IndexesIn(C)
        BY <1>7, <1>9
    <2>2. Len(found) > 1 => found[2] \in IndexesIn(C)
        BY <1>7, <2>1
    <2>3. /\ whereClauseColumns' \in Seq(C) /\ Len(whereClauseColumns') >= 2
          /\ joinedTables' \in Seq(Range(Catalog))
          /\ Len(joinedTables') = 2 /\ IsInjective(joinedTables')
          /\ Range(joinedTables') = {t \in Range(Catalog) :
                                        \E c \in C : c \in Range(ColumnsOf[t])}
        BY <1>2, <1>3, <1>4, <1>5, <1>7, <1>9
    <2>4. CASE Len(found) > 1
        <3>1. pc' = "index_join" /\ indexOne' = found[1] /\ indexTwo' = found[2]
            BY <1>3, <1>9, <2>4
        <3> HIDE DEF C
        <3>2. QED
            BY <2>1, <2>2, <2>3, <2>4, <3>1 DEF C
    <2>5. CASE ~(Len(found) > 1)
        <3>1. pc' = "hash_join" /\ indexOne' = found[1] /\ indexTwo' = NoIndex
            BY <1>3, <1>9, <2>5
        <3> HIDE DEF C
        <3>2. QED
            BY <2>1, <2>3, <3>1 DEF C
    <2>6. QED
        BY <2>4, <2>5
<1>10. QED
    BY <1>8, <1>9

LEMMA FoundIndexTypes ==
    ASSUME NEW C, NEW x \in IndexesIn(C)
    PROVE  /\ x \in [column : Keys, kind : {"string", "float"}]
           /\ x # NoIndex /\ x.column \in Keys /\ x.column \in C
           /\ x.kind \in {"string", "float"}
<1>1. x \in [column : Keys, kind : {"string", "float"}] /\ x.column \in C
    BY DEF IndexesIn
<1>2. x.kind \in {"string", "float"} /\ x.column \in Keys
    BY <1>1
<1>3. NoIndex.kind = "none"
    BY DEF NoIndex
<1>4. QED
    BY <1>1, <1>2, <1>3

LEMMA TryKeepsTypes ==
    ASSUME TypeOK, SearchInv, TryComparison
    PROVE  TypeOK' /\ SearchInv'
<1>1. /\ pc = "execute"
      /\ UNCHANGED <<db, stringIndexTable, floatIndexTable, joinFiles, query, reply,
                     tableNames, lastJoinFile, line, printed>>
    BY DEF TryComparison, indexes
<1>2. CASE /\ pc' = "execute"
           /\ whereClauseColumns' = <<>> /\ joinedTables' = <<>>
           /\ UNCHANGED <<indexOne, indexTwo>>
    <2>1. TypeOK'
        BY <1>1, <1>2 DEF TypeOK
    <2>2. SearchInv'
        BY <1>1, <1>2 DEF SearchInv, Answering
    <2>3. QED
        BY <2>1, <2>2
<1>3. ASSUME pc' \in {"index_join", "hash_join"}, NEW C,
             whereClauseColumns' \in Seq(C), Len(whereClauseColumns') >= 2,
             joinedTables' \in Seq(Range(Catalog)), Len(joinedTables') = 2,
             Range(joinedTables') = {t \in Range(Catalog) :
                                        \E c \in C : c \in Range(ColumnsOf[t])},
             indexOne' \in IndexesIn(C),
             pc' = "index_join" => indexTwo' \in IndexesIn(C),
             pc' = "hash_join" => indexTwo' = NoIndex
      PROVE  TypeOK' /\ SearchInv'
    <2>1. /\ indexOne' \in [column : Keys, kind : {"string", "float"}]
          /\ indexOne' # NoIndex
          /\ indexTwo' \in [column : Keys, kind : {"string", "float"}] \cup {NoIndex}
          /\ pc' = "index_join" => indexTwo' # NoIndex
        BY <1>3, FoundIndexTypes
    <2>2. TypeOK'
        BY <1>1, <1>3, <2>1 DEF TypeOK
    <2>3. TableOf(indexOne'.column) \in Range(joinedTables')
        <3>1. indexOne'.column \in Keys /\ indexOne'.column \in C
            BY <1>3, FoundIndexTypes
        <3>2. QED
            BY <1>3, <3>1, KeysHaveTables
    <2>4. SearchInv'
        BY <1>1, <1>3, <2>1, <2>3 DEF SearchInv, Answering, IndexedTable
    <2>5. QED
        BY <2>2, <2>4
<1>4. QED
    BY <1>2, <1>3, SearchRound

\* Taking tables off the list leaves the others.
LEMMA OthersStay ==
    ASSUME tableNames \in Seq(Tables), NEW names, RemoveTables(names)
    PROVE  /\ tableNames' \in Seq(Tables)
           /\ Range(tableNames') = Range(tableNames) \ names
           /\ IsInjective(tableNames) => IsInjective(tableNames')
<1> DEFINE K == {n \in DOMAIN tableNames : tableNames[n] \notin names}
<1>1. Taken(tableNames', tableNames, K)
    BY OthersTaken DEF RemoveTables
<1>2. Range(tableNames) \subseteq Tables
    BY DEF Range
<1>3. Range(tableNames') = Range(tableNames) \ names
    <2>1. \A v : v \in Range(tableNames')
                    <=> \E n \in DOMAIN tableNames : n \in K /\ v = tableNames[n]
        BY <1>1 DEF Taken
    <2>2. \A v : v \in Range(tableNames) <=> \E n \in DOMAIN tableNames : v = tableNames[n]
        BY DEF Range
    <2>3. QED
        BY <2>1, <2>2
<1>4. IsInjective(tableNames) => IsInjective(tableNames')
    BY <1>1 DEF Taken, IsInjective
<1>5. tableNames' \in Seq(Range(tableNames))
    BY <1>1 DEF Taken
<1>6. QED
    BY <1>2, <1>3, <1>4, <1>5

LEMMA WritingKeepsTypes ==
    ASSUME TypeOK, NEW file \in JoinNames, NEW content \in Relation, Write(file, content)
    PROVE  /\ DOMAIN joinFiles' = DOMAIN joinFiles \cup {file}
           /\ DOMAIN joinFiles' \subseteq JoinNames
           /\ \A f \in DOMAIN joinFiles' : joinFiles'[f] \in Relation
           /\ joinFiles'[file] = content
<1>1. /\ DOMAIN joinFiles' = DOMAIN joinFiles \cup {file}
      /\ \A f \in DOMAIN joinFiles \cup {file} :
            joinFiles'[f] = IF f = file THEN content ELSE joinFiles[f]
    BY DEF Write
<1>2. DOMAIN joinFiles \subseteq JoinNames /\ \A f \in DOMAIN joinFiles : joinFiles[f] \in Relation
    BY DEF TypeOK
<1>3. QED
    BY <1>1, <1>2

\* The file of an index or hash join, and its header.
LEMMA JoinFileTypes ==
    ASSUME TypeOK, NEW file \in {"index", "hash"}, NEW joinings,
           \A joined \in joinings : Collects(joined),
           WriteResultsToJoinFile(file, joinings)
    PROVE  /\ DOMAIN joinFiles' \subseteq JoinNames
           /\ \A f \in DOMAIN joinFiles' : joinFiles'[f] \in Relation
           /\ \E joined \in joinings :
                 joinFiles'[file].header
                   = IF DOMAIN joined = {} THEN <<NoColumn>> ELSE JoinedColumns(joined)
           /\ lastJoinFile' = JoinFile(file) /\ pc' = "product"
<1> PICK joined \in joinings : \E amount \in RowAmounts(joined) :
         \E garbage \in IF ReadsPastEnd(joined, amount) THEN Garbage ELSE {EmptyCell} :
            Write(file, WrittenFile(joined, amount, garbage))
    BY DEF WriteResultsToJoinFile
<1>0. PICK amount \in RowAmounts(joined) :
         \E garbage \in IF ReadsPastEnd(joined, amount) THEN Garbage ELSE {EmptyCell} :
            Write(file, WrittenFile(joined, amount, garbage))
    OBVIOUS
<1>1. PICK garbage \in IF ReadsPastEnd(joined, amount) THEN Garbage ELSE {EmptyCell} :
         Write(file, WrittenFile(joined, amount, garbage))
    BY <1>0
<1>2. amount \in Nat /\ garbage \in Cells
    BY AmountsAreNumbers, GarbageAssumption, EvaluatorCells
<1> DEFINE content == WrittenFile(joined, amount, garbage)
<1>3. /\ content \in Relation
      /\ content.header
           = IF DOMAIN joined = {} THEN <<NoColumn>> ELSE JoinedColumns(joined)
    BY <1>2, WrittenRelation
<1>4. file \in JoinNames
    BY DEF JoinNames
<1>5. Write(file, content)
    BY <1>1
<1> HIDE DEF content
<1>6. QED
    BY <1>3, <1>4, <1>5, WritingKeepsTypes DEF WriteResultsToJoinFile

\* After a join all types are kept if those of the index maps are.
LEMMA JoinKeepsTypes ==
    ASSUME TypeOK, SearchInv, Answering, IndexMapsOK', NEW names, RemoveTables(names),
           NEW file \in {"index", "hash"}, NEW joinings,
           \A joined \in joinings : Collects(joined),
           WriteResultsToJoinFile(file, joinings),
           UNCHANGED <<db, query, reply, joinedTables, indexOne, indexTwo, line, printed>>
    PROVE  TypeOK' /\ SearchInv'
<1>1. /\ DOMAIN joinFiles' \subseteq JoinNames
      /\ \A f \in DOMAIN joinFiles' : joinFiles'[f] \in Relation
      /\ lastJoinFile' = JoinFile(file) /\ pc' = "product" /\ file \in JoinNames
    BY JoinFileTypes DEF JoinNames
<1>2. tableNames' \in Seq(Tables) /\ Range(tableNames') \subseteq Range(tableNames)
    BY OthersStay DEF TypeOK
<1>3. TypeOK'
    BY <1>1, <1>2 DEF TypeOK, IndexMapsOK
<1>4. SearchInv'
    BY <1>1, <1>2, FileNames DEF SearchInv, Answering
<1>5. QED
    BY <1>3, <1>4

LEMMA LookUpKeepsTypes ==
    ASSUME TypeOK, LookUpIndexTwo, indexTwo.column \in Keys
    PROVE  IndexMapsOK'
<1>1. IndexMapsOK /\ <<>> \in Seq(IndexEntry)
    BY TypedMaps
<1>2. ASSUME NEW table, DOMAIN table \subseteq Keys,
             \A c \in DOMAIN table : table[c] \in Seq(IndexEntry)
      PROVE  /\ DOMAIN EnterIndex(table, indexTwo.column) \subseteq Keys
             /\ \A c \in DOMAIN EnterIndex(table, indexTwo.column) :
                   EnterIndex(table, indexTwo.column)[c] \in Seq(IndexEntry)
    BY <1>1, <1>2 DEF EnterIndex
<1>3. CASE UNCHANGED indexes
    BY <1>1, <1>3 DEF IndexMapsOK, indexes
<1>4. CASE /\ stringIndexTable' = EnterIndex(stringIndexTable, indexTwo.column)
           /\ UNCHANGED floatIndexTable
    BY <1>1, <1>2, <1>4 DEF IndexMapsOK
<1>5. CASE /\ floatIndexTable' = EnterIndex(floatIndexTable, indexTwo.column)
           /\ UNCHANGED stringIndexTable
    BY <1>1, <1>2, <1>5 DEF IndexMapsOK
<1>6. QED
    BY <1>3, <1>4, <1>5 DEF LookUpIndexTwo

LEMMA FoundColumns ==
    ASSUME TypeOK, SearchInv
    PROVE  /\ pc \in {"index_join", "hash_join"} =>
                 indexOne.column \in Keys /\ indexOne.kind \in {"string", "float"}
           /\ pc = "index_join" => indexTwo.column \in Keys
<1>1. \A x \in [column : Keys, kind : {"string", "float"}] :
         x.column \in Keys /\ x.kind \in {"string", "float"}
    OBVIOUS
<1>2. QED
    BY <1>1 DEF TypeOK, SearchInv

LEMMA IndexJoinKeepsTypes ==
    ASSUME TypeOK, SearchInv, IndexJoin
    PROVE  TypeOK' /\ SearchInv'
<1>1. /\ pc = "index_join" /\ LookUpIndexTwo /\ RemoveTables(Range(IndexTables))
      /\ WriteResultsToJoinFile("index", IndexJoinings)
      /\ UNCHANGED <<db, query, reply, joinedTables, indexOne, indexTwo, line, printed>>
    BY DEF IndexJoin
<1>2. indexOne.column \in Keys /\ indexTwo.column \in Keys /\ Answering
    BY <1>1, FoundColumns DEF Answering
<1>3. /\ EntriesOf(IndexTable(indexOne.kind), indexOne.column)
            \in Seq(EntriesWith(Tuple))
      /\ EntriesOf(IndexTable(indexOne.kind), indexTwo.column)
            \in Seq(EntriesWith(Tuple))
    BY TypedMaps, EntriesAreEntries DEF EntriesWith, IndexEntry
<1>4. Tuple \in SUBSET Tuple
    OBVIOUS
<1>5. ASSUME NEW joined \in IndexJoinings PROVE Collects(joined)
    BY <1>2, <1>3, <1>4, IndexJoinCollects
<1>6. IndexMapsOK'
    BY <1>1, <1>2, LookUpKeepsTypes
<1>7. QED
    BY <1>1, <1>2, <1>5, <1>6, JoinKeepsTypes

\* The two tables of a hash join.
LEMMA HashJoinTables ==
    ASSUME TypeOK, SearchInv, pc = "hash_join"
    PROVE  /\ InputTable \in Range(Catalog) /\ IndexedTable \in Range(Catalog)
           /\ Range(joinedTables) = {InputTable, IndexedTable}
           /\ InputRows \in Seq(Tuple)
<1>1. joinedTables \in Seq(Range(Catalog)) /\ Len(joinedTables) = 2 /\ db \in Databases
    BY DEF TypeOK
<1>2. Range(joinedTables) = {joinedTables[1], joinedTables[2]}
    <2>1. DOMAIN joinedTables = {1, 2}
        BY <1>1
    <2>2. QED
        BY <2>1 DEF Range
<1>3. joinedTables[1] \in Range(Catalog) /\ joinedTables[2] \in Range(Catalog)
    BY <1>1
<1>4. IndexedTable \in {joinedTables[1], joinedTables[2]}
    BY <1>2 DEF SearchInv
<1>5. InputTable = IF joinedTables[1] = IndexedTable THEN joinedTables[2] ELSE joinedTables[1]
    BY DEF InputTable
<1>6. {InputTable, IndexedTable} = {joinedTables[1], joinedTables[2]}
    BY <1>4, <1>5
<1>7. QED
    BY <1>1, <1>2, <1>3, <1>4, <1>5, <1>6, DatabaseTypes DEF InputRows

LEMMA HashJoinKeepsTypes ==
    ASSUME TypeOK, SearchInv, HashJoin
    PROVE  TypeOK' /\ SearchInv'
<1>1. /\ pc = "hash_join" /\ RemoveTables(Range(joinedTables))
      /\ UNCHANGED <<stringIndexTable, floatIndexTable>>
      /\ UNCHANGED <<db, query, reply, joinedTables, indexOne, indexTwo, line, printed>>
    BY DEF HashJoin, indexes
<1>2. PICK place, garbage : WriteResultsToJoinFile("hash", HashJoinings(place, garbage))
    BY DEF HashJoin
<1>3. Answering /\ IndexMapsOK /\ IndexMapsOK'
    BY <1>1, TypedMaps DEF Answering, IndexMapsOK
<1>4. \A joined \in HashJoinings(place, garbage) : Collects(joined)
    <2>1. EntriesOf(IndexTable(indexOne.kind), indexOne.column)
             \in Seq(EntriesWith(Tuple))
        BY <1>3, EntriesAreEntries DEF EntriesWith, IndexEntry
    <2>2. Tuple \in SUBSET Tuple
        OBVIOUS
    <2>3. QED
        BY <1>1, <2>1, <2>2, HashJoinTables, HashJoinCollects
<1>5. QED
    BY <1>1, <1>2, <1>3, <1>4, JoinKeepsTypes

\* The two files of a product.
LEMMA ProductFiles ==
    ASSUME TypeOK, FilesInv, SearchInv, pc = "product", tableNames # <<>>
    PROVE  /\ Content(TableOne) \in Relation /\ Content(TableTwo) \in Relation
           /\ TableTwo[1] \in Range(tableNames) /\ TableTwo[1] \in Range(Catalog)
           /\ Content(TableTwo).header = ColumnsOf[TableTwo[1]]
           /\ lastJoinFile = NoFile =>
                 /\ TableOne[1] = tableNames[1] /\ TableTwo[1] = tableNames[2]
                 /\ TableOne[1] \in Range(tableNames) /\ Len(tableNames) > 1
                 /\ Content(TableOne).header = ColumnsOf[TableOne[1]]
           /\ lastJoinFile # NoFile =>
                 /\ TableOne[1] = lastJoinFile[1] /\ lastJoinFile[1] \in JoinNames
                 /\ Content(TableOne) = joinFiles[lastJoinFile[1]]
<1>1. Range(tableNames) \subseteq Range(Catalog) /\ tableNames \in Seq(Tables)
    BY DEF SearchInv, Answering, Valid, TypeOK
<1>2. ASSUME NEW t \in Range(Catalog)
      PROVE  /\ Content(TableFile(t)) \in Relation
             /\ Content(TableFile(t)).header = ColumnsOf[t]
    <2>1. Content(TableFile(t)) = [header |-> ColumnsOf[t], rows |-> db.rows[t]]
        BY FileNames DEF Content
    <2>2. ColumnsOf[t] \in Seq(Columns) /\ db.rows[t] \in Seq(Tuple)
        BY CatalogTables, DatabaseTypes DEF TypeOK
    <2>3. ColumnsOf[t] \in Seq(Names)
        BY <2>2 DEF Names
    <2>4. QED
        BY <2>1, <2>2, <2>3 DEF Relation
<1>3. CASE lastJoinFile = NoFile
    <2>1. Len(tableNames) > 1
        BY <1>3 DEF FilesInv, LastFileWritten
    <2>2. /\ 1 \in DOMAIN tableNames /\ 2 \in DOMAIN tableNames
        BY <1>1, <2>1
    <2>3. tableNames[1] \in Range(tableNames) /\ tableNames[2] \in Range(tableNames)
        BY <2>2 DEF Range
    <2>4. TableOne = TableFile(tableNames[1]) /\ TableTwo = TableFile(tableNames[2])
        BY <1>3 DEF TableOne, TableTwo
    <2>5. QED
        BY <1>1, <1>2, <1>3, <2>1, <2>3, <2>4, FileNames
<1>4. CASE lastJoinFile # NoFile
    <2>1. 1 \in DOMAIN tableNames
        BY <1>1
    <2>2. tableNames[1] \in Range(tableNames)
        BY <2>1 DEF Range
    <2>3. TableOne = lastJoinFile /\ TableTwo = TableFile(tableNames[1])
        BY <1>4 DEF TableOne, TableTwo
    <2>4. lastJoinFile[2] = "JOIN" /\ lastJoinFile[1] \in DOMAIN joinFiles
        BY <1>4 DEF SearchInv, FilesInv, LastFileWritten
    <2>5. Content(TableOne) = joinFiles[lastJoinFile[1]]
        BY <2>3, <2>4 DEF Content
    <2>6. Content(TableOne) \in Relation /\ lastJoinFile[1] \in JoinNames
        BY <2>4, <2>5 DEF TypeOK
    <2>7. QED
        BY <1>1, <1>2, <1>4, <2>2, <2>3, <2>5, <2>6, FileNames
<1>5. QED
    BY <1>3, <1>4

\* The file a product is written to.
LEMMA ProductRelation ==
    ASSUME TypeOK, FilesInv, SearchInv, WriteProduct
    PROVE  \E content \in Relation :
              /\ Write("temp", content)
              /\ content.header = Content(TableOne).header \o Content(TableTwo).header
<1> DEFINE one == Content(TableOne)
           two == Content(TableTwo)
           lines == Pairs(one.rows, two.rows)
           rows == [n \in DOMAIN lines |-> lines[n][1] \o lines[n][2]]
           content == [header |-> one.header \o two.header, rows |-> rows]
<1>1. Write("temp", content)
    BY DEF WriteProduct
<1>2. one \in Relation /\ two \in Relation
    BY ProductFiles DEF WriteProduct
<1> HIDE DEF one, two
<1>3. /\ one.rows \in Seq(Tuple) /\ two.rows \in Seq(Tuple)
      /\ one.header \in Seq(Names) /\ two.header \in Seq(Names)
    BY <1>2 DEF Relation
<1>4. lines \in Seq(Tuple \X Tuple)
    BY <1>3, PairsOfMembers
<1> HIDE DEF lines
<1>5. rows \in Seq(Tuple)
    <2>1. DOMAIN lines = 1..Len(lines) /\ Len(lines) \in Nat
        BY <1>4
    <2>2. ASSUME NEW n \in DOMAIN lines PROVE lines[n][1] \o lines[n][2] \in Tuple
        <3>1. lines[n] \in Tuple \X Tuple
            BY <1>4
        <3>2. lines[n][1] \in Seq(Cells) /\ lines[n][2] \in Seq(Cells)
            BY <3>1 DEF Tuple
        <3>3. QED
            BY <3>2 DEF Tuple
    <2>3. [n \in 1..Len(lines) |-> lines[n][1] \o lines[n][2]] \in Seq(Tuple)
        BY <2>1, <2>2
    <2>4. QED
        BY <2>1, <2>3
<1> HIDE DEF rows
<1>6. content \in Relation
    BY <1>3, <1>5 DEF Relation
<1>7. content.header = one.header \o two.header
    OBVIOUS
<1> HIDE DEF content
<1>8. QED
    BY <1>1, <1>6, <1>7 DEF one, two

LEMMA WriteProductKeepsTypes ==
    ASSUME TypeOK, FilesInv, SearchInv, WriteProduct
    PROVE  TypeOK' /\ SearchInv'
<1>1. /\ pc = "product" /\ pc' = "copy"
      /\ UNCHANGED <<db, stringIndexTable, floatIndexTable, query, reply, tableNames,
                     whereClauseColumns, joinedTables, indexOne, indexTwo,
                     lastJoinFile, line, printed>>
    BY DEF WriteProduct, indexes, fields
<1>2. PICK content \in Relation : Write("temp", content)
    BY ProductRelation
<1>3. /\ DOMAIN joinFiles' \subseteq JoinNames
      /\ \A f \in DOMAIN joinFiles' : joinFiles'[f] \in Relation
    <2>1. "temp" \in JoinNames
        BY DEF JoinNames
    <2>2. QED
        BY <1>2, <2>1, WritingKeepsTypes
<1>4. TypeOK'
    BY <1>1, <1>3 DEF TypeOK
<1>5. SearchInv'
    BY <1>1 DEF SearchInv, Answering
<1>6. QED
    BY <1>4, <1>5

LEMMA CopyProductKeepsTypes ==
    ASSUME TypeOK, FilesInv, SearchInv, CopyProduct
    PROVE  TypeOK' /\ SearchInv'
<1>1. /\ pc = "copy" /\ pc' = "product"
      /\ RemoveTables(ProductTables) /\ lastJoinFile' = JoinFile("nestedloop")
      /\ UNCHANGED <<db, stringIndexTable, floatIndexTable, query, reply,
                     whereClauseColumns, joinedTables, indexOne, indexTwo, line,
                     printed>>
    BY DEF CopyProduct, indexes
<1>2. tableNames' \in Seq(Tables) /\ Range(tableNames') \subseteq Range(tableNames)
    BY <1>1, OthersStay DEF TypeOK
<1>3. /\ DOMAIN joinFiles' = (DOMAIN joinFiles \ {"temp"}) \cup {"nestedloop"}
      /\ \A f \in DOMAIN joinFiles' :
            joinFiles'[f] = IF f = "nestedloop" THEN joinFiles["temp"] ELSE joinFiles[f]
    BY DEF CopyProduct
<1>4. /\ DOMAIN joinFiles' \subseteq JoinNames /\ "nestedloop" \in JoinNames
      /\ \A f \in DOMAIN joinFiles' : joinFiles'[f] \in Relation
    <2>1. "temp" \in DOMAIN joinFiles
        BY <1>1 DEF FilesInv, LastFileWritten
    <2>2. DOMAIN joinFiles \subseteq JoinNames /\ \A f \in DOMAIN joinFiles : joinFiles[f] \in Relation
        BY DEF TypeOK
    <2>3. "nestedloop" \in JoinNames
        BY DEF JoinNames
    <2>4. QED
        BY <1>3, <2>1, <2>2, <2>3
<1>5. TypeOK'
    BY <1>1, <1>2, <1>4 DEF TypeOK
<1>6. SearchInv'
    BY <1>1, <1>2, FileNames DEF SearchInv, Answering
<1>7. QED
    BY <1>5, <1>6

LEMMA ScanKeepsTypes ==
    ASSUME TypeOK, SearchInv, AllJoined \/ ScanRow \/ ScanDone \/ NoJoinFound,
           FilesInv
    PROVE  TypeOK' /\ SearchInv'
<1>1. CASE AllJoined
    <2>1. /\ pc = "product" /\ pc' = "scan" /\ line' = 1
          /\ UNCHANGED <<db, stringIndexTable, floatIndexTable, joinFiles, query, reply,
                         tableNames, whereClauseColumns, joinedTables, indexOne,
                         indexTwo, lastJoinFile, printed>>
        BY <1>1 DEF AllJoined, indexes
    <2>2. TypeOK'
        BY <2>1 DEF TypeOK
    <2>3. QED
        BY <2>1, <2>2 DEF SearchInv, Answering
<1>2. CASE ScanRow
    <2>1. /\ pc = "scan" /\ line' = line + 1
          /\ UNCHANGED <<db, stringIndexTable, floatIndexTable, joinFiles, pc, query,
                         reply, tableNames, whereClauseColumns, joinedTables,
                         indexOne, indexTwo, lastJoinFile>>
        BY <1>2 DEF ScanRow, NextLine, indexes
    <2>2. IsABag(printed')
        <3>1. PICK r : printed' = printed (+) SetToBag({r}) \/ printed' = printed
            BY <1>2 DEF ScanRow
        <3>2. IsABag(printed)
            BY DEF TypeOK
        <3>3. CASE printed' = printed (+) SetToBag({r})
            <4>1. /\ DOMAIN SetToBag({r}) = {r} /\ SetToBag({r})[r] = 1
                BY DEF SetToBag
            <4>2. \A e \in DOMAIN printed : printed[e] \in Nat /\ printed[e] > 0
                BY <3>2 DEF IsABag
            <4>3. printed' = [e \in DOMAIN printed \cup {r} |->
                                 (IF e \in DOMAIN printed THEN printed[e] ELSE 0)
                                 + (IF e \in {r} THEN SetToBag({r})[e] ELSE 0)]
                BY <3>3, <4>1 DEF (+)
            <4>4. \A e \in DOMAIN printed \cup {r} :
                     (IF e \in DOMAIN printed THEN printed[e] ELSE 0)
                       + (IF e \in {r} THEN SetToBag({r})[e] ELSE 0) \in {n \in Nat : n > 0}
                BY <4>1, <4>2
            <4>5. QED
                BY <4>3, <4>4 DEF IsABag
        <3>4. QED
            BY <3>1, <3>2, <3>3
    <2>3. TypeOK'
        BY <2>1, <2>2 DEF TypeOK
    <2>4. QED
        BY <2>1, <2>3 DEF SearchInv, Answering
<1>3. CASE ScanDone
    <2>1. /\ pc' = "prompt" /\ reply' = "answered" /\ Clear
          /\ UNCHANGED <<db, stringIndexTable, floatIndexTable, query, printed>>
        BY <1>3 DEF ScanDone, indexes
    <2>2. TypeOK'
        BY <2>1, ClearedTypes DEF TypeOK
    <2>3. QED
        BY <2>1, <2>2, ClearedTypes DEF SearchInv, Answering
<1>4. CASE NoJoinFound
    <2>1. /\ pc = "execute" /\ pc' = "product"
          /\ UNCHANGED <<db, stringIndexTable, floatIndexTable, joinFiles, query, reply,
                         tableNames, whereClauseColumns, joinedTables, indexOne,
                         indexTwo, lastJoinFile, line, printed>>
        BY <1>4 DEF NoJoinFound, indexes, fields
    <2>2. lastJoinFile = NoFile
        BY <2>1 DEF FilesInv, LastFileWritten
    <2>3. TypeOK'
        BY <2>1 DEF TypeOK
    <2>4. QED
        BY <2>1, <2>2, <2>3 DEF SearchInv, Answering
<1>5. QED
    BY <1>1, <1>2, <1>3, <1>4

LEMMA StepKeepsTypes ==
    ASSUME TypeOK, FilesInv, SearchInv, [Next]_vars
    PROVE  TypeOK' /\ SearchInv'
<1>1. CASE Start
    BY <1>1, StartKeepsTypes
<1>2. CASE Kill
    BY <1>2, EndKeepsTypes DEF Kill
<1>3. CASE \E q \in Queries : Parse(q)
    BY <1>3, ParseKeepsTypes
<1>4. CASE IndexJoinCrash \/ HashJoinCrash \/ ScanCrash
    <2>1. Crash
        BY <1>4 DEF IndexJoinCrash, HashJoinCrash, ScanCrash, JoinCrashes
    <2>2. QED
        BY <2>1, EndKeepsTypes DEF Crash
<1>5. CASE ExecuteOnOneTable \/ TryComparison
    BY <1>5, OneTableKeepsTypes, TryKeepsTypes
<1>6. CASE IndexJoin \/ HashJoin
    BY <1>6, IndexJoinKeepsTypes, HashJoinKeepsTypes
<1>7. CASE WriteProduct \/ CopyProduct
    BY <1>7, WriteProductKeepsTypes, CopyProductKeepsTypes
<1>8. CASE AllJoined \/ ScanRow \/ ScanDone \/ NoJoinFound
    BY <1>8, ScanKeepsTypes
<1>9. CASE UNCHANGED vars
    <2>1. UNCHANGED <<db, stringIndexTable, floatIndexTable, joinFiles, pc, query, reply,
                      tableNames, whereClauseColumns, joinedTables, indexOne,
                      indexTwo, lastJoinFile, line, printed>>
        BY <1>9 DEF vars, indexes, fields
    <2>2. TypeOK'
        BY <2>1 DEF TypeOK
    <2>3. SearchInv'
        BY <2>1 DEF SearchInv, Answering, IndexedTable
    <2>4. QED
        BY <2>2, <2>3
<1>10. QED
    BY <1>1, <1>2, <1>3, <1>4, <1>5, <1>6, <1>7, <1>8, <1>9 DEF Next, Proceed

\* The invariants that everything else rests on.
LEMMA TypesAlways == Spec => [](TypeOK /\ SearchInv /\ FilesInv)
<1>1. Init => TypeOK /\ SearchInv /\ FilesInv
    BY InitialTypes, InitialFiles
<1>2. TypeOK /\ SearchInv /\ FilesInv /\ [Next]_vars
         => TypeOK' /\ SearchInv' /\ FilesInv'
    BY StepKeepsTypes, StepKeepsFiles
<1>3. QED
    BY <1>1, <1>2, PTL DEF Spec

\* Whatever the tables hold, and whatever is compared with what: the files are
\* relations, the maps hold entries, and a join finds what it is to read.
THEOREM QueryTypes == Spec => []TypeOK
BY TypesAlways, PTL

(***************************************************************************)
(* The index maps.                                                         *)
(***************************************************************************)

\* Looking an index up changes none.
LEMMA EnteringKeepsEntries ==
    ASSUME NEW table, NEW c, NEW k
    PROVE  EntriesOf(EnterIndex(table, c), k) = EntriesOf(table, k)
BY DEF EntriesOf, EnterIndex

\* An index that is there needs no entering.
LEMMA EnteringWhatIsThere ==
    ASSUME NEW table, table = [k \in DOMAIN table |-> table[k]], NEW c \in DOMAIN table
    PROVE  EnterIndex(table, c) = table
<1>1. DOMAIN table \cup {c} = DOMAIN table
    OBVIOUS
<1>2. EnterIndex(table, c) = [k \in DOMAIN table |-> table[k]]
    BY <1>1 DEF EnterIndex
<1>3. QED
    BY <1>2

\* Only the start and the end of a process, and index joins, touch the maps.
LEMMA OthersKeepIndexes ==
    ASSUME Next
    PROVE  /\ UNCHANGED db
           /\ Start \/ pc' = "down" \/ IndexJoin
                \/ (pc # "down" /\ UNCHANGED <<stringIndexTable, floatIndexTable>>)
<1>1. CASE Start
    BY <1>1 DEF Start
<1>2. CASE Kill
    BY <1>2 DEF Kill, LoseProcess
<1>3. CASE \E q \in Queries : Parse(q)
    BY <1>3 DEF Parse, indexes
<1>4. CASE IndexJoinCrash \/ HashJoinCrash \/ ScanCrash
    <2>1. Crash
        BY <1>4 DEF IndexJoinCrash, HashJoinCrash, ScanCrash, JoinCrashes
    <2>2. QED
        BY <2>1 DEF Crash, LoseProcess
<1>5. CASE ExecuteOnOneTable \/ TryComparison \/ NoJoinFound
    BY <1>5 DEF ExecuteOnOneTable, TryComparison, NoJoinFound, indexes
<1>6. CASE IndexJoin
    BY <1>6 DEF IndexJoin
<1>7. CASE HashJoin
    BY <1>7 DEF HashJoin, indexes
<1>8. CASE WriteProduct \/ CopyProduct
    BY <1>8 DEF WriteProduct, CopyProduct, indexes
<1>9. CASE AllJoined \/ ScanRow \/ ScanDone
    BY <1>9 DEF AllJoined, ScanRow, ScanDone, indexes
<1>10. QED
    BY <1>1, <1>2, <1>3, <1>4, <1>5, <1>6, <1>7, <1>8, <1>9 DEF Next, Proceed

\* Which indexes a loader finds depends on the files alone.
LEMMA LoadedLater ==
    ASSUME UNCHANGED db
    PROVE  LoadedStringIndexes' = LoadedStringIndexes /\ LoadedFloatIndexes' = LoadedFloatIndexes
BY DEF LoadedStringIndexes, LoadedFloatIndexes

LEMMA StepKeepsEntries ==
    ASSUME EntriesStayLoaded, [Next]_vars
    PROVE  EntriesStayLoaded'
<1>1. CASE Start
    <2>1. stringIndexTable' = LoadedStringIndexes /\ floatIndexTable' = LoadedFloatIndexes
          /\ UNCHANGED db
        BY <1>1 DEF Start
    <2>2. QED
        BY <2>1, LoadedLater DEF EntriesStayLoaded, EntriesOf
<1>2. CASE pc' = "down"
    BY <1>2 DEF EntriesStayLoaded
<1>3. CASE IndexJoin
    <2>1. LookUpIndexTwo /\ pc # "down" /\ UNCHANGED db
        BY <1>3 DEF IndexJoin
    <2>2. ASSUME NEW c
          PROVE  /\ EntriesOf(stringIndexTable', c) = EntriesOf(stringIndexTable, c)
                 /\ EntriesOf(floatIndexTable', c) = EntriesOf(floatIndexTable, c)
        BY <2>1, EnteringKeepsEntries DEF LookUpIndexTwo, indexes
    <2>3. QED
        BY <2>1, <2>2, LoadedLater DEF EntriesStayLoaded, EntriesOf
<1>4. CASE pc # "down" /\ UNCHANGED <<db, stringIndexTable, floatIndexTable>>
    BY <1>4, LoadedLater DEF EntriesStayLoaded, EntriesOf
<1>5. CASE UNCHANGED vars
    <2>1. UNCHANGED <<db, stringIndexTable, floatIndexTable, pc>>
        BY <1>5 DEF vars, indexes
    <2>2. QED
        BY <2>1, LoadedLater DEF EntriesStayLoaded, EntriesOf
<1>6. QED
    BY <1>1, <1>2, <1>3, <1>4, <1>5, OthersKeepIndexes

\* No query changes an index.
THEOREM EntriesAlwaysStayLoaded == Spec => []EntriesStayLoaded
<1>1. Init => EntriesStayLoaded
    BY DEF Init, EntriesStayLoaded
<1>2. QED
    BY <1>1, StepKeepsEntries, PTL DEF Spec

(***************************************************************************)
(* And none is entered if the keys of a comparison are of one kind: what   *)
(* an index join looks up is there.                                        *)
(***************************************************************************)

LoadedInv ==
    /\ IndexesStayLoaded
    /\ pc = "execute" => subTrees \in Seq(Range(query.where))
    /\ pc = "index_join" => indexTwo.column \in DOMAIN IndexTable(indexOne.kind)

\* The comparisons of a query, turned around, are its comparisons.
LEMMA ReversedMembers ==
    ASSUME NEW S, NEW s \in Seq(S)
    PROVE  Reverse(s) \in Seq(S)
<1>1. \A i \in 1..Len(s) : (Len(s) - i) + 1 \in 1..Len(s)
    OBVIOUS
<1>2. [i \in 1..Len(s) |-> s[(Len(s) - i) + 1]] \in Seq(S)
    BY <1>1
<1>3. QED
    BY <1>2 DEF Reverse

\* Two indexes of a comparison are in the map of the first of them.
LEMMA BothInOneMap ==
    ASSUME KeysOfOneKind(Databases, Queries), TypeOK, IndexesStayLoaded, pc # "down",
           query \in Queries, NEW c \in Range(query.where),
           NEW x \in IndexesIn(NamedColumns(c)), NEW y \in IndexesIn(NamedColumns(c))
    PROVE  y.column \in DOMAIN IndexTable(x.kind)
<1>1. /\ x.column \in Keys \cap NamedColumns(c) /\ x.column \in DOMAIN IndexTable(x.kind)
      /\ y.column \in Keys \cap NamedColumns(c) /\ y.column \in DOMAIN IndexTable(y.kind)
      /\ x.kind \in {"string", "float"} /\ y.kind \in {"string", "float"}
    BY FoundIndexTypes DEF IndexesIn
<1>2. /\ DOMAIN IndexTable("string") = {k \in Keys : HasStringKeys(db.entries[k])}
      /\ DOMAIN IndexTable("float") = {k \in Keys : HasFloatKeys(db.entries[k])}
    BY DEF IndexesStayLoaded, LoadedStringIndexes, LoadedFloatIndexes, IndexTable
<1>3. \A kind \in {"string", "float"} : \A k \in DOMAIN IndexTable(kind) :
         db.entries[k] # <<>> /\ (kind = "float" <=> db.entries[k][1].key \in Numeric)
    BY <1>2 DEF HasStringKeys, HasFloatKeys
<1>4. PICK n \in DOMAIN query.where : c = query.where[n]
    BY DEF Range
<1>5. db \in Databases
    BY DEF TypeOK
<1>6. db.entries[x.column][1].key \in Numeric <=> db.entries[y.column][1].key \in Numeric
    BY <1>1, <1>3, <1>4, <1>5 DEF KeysOfOneKind
<1>7. x.kind = y.kind
    BY <1>1, <1>3, <1>6
<1>8. QED
    BY <1>1, <1>7

LEMMA TryKeepsLoaded ==
    ASSUME KeysOfOneKind(Databases, Queries), TypeOK, SearchInv, LoadedInv, TryComparison
    PROVE  LoadedInv'
<1>1. /\ pc = "execute" /\ subTrees # <<>> /\ subTrees' = Tail(subTrees)
      /\ UNCHANGED <<db, stringIndexTable, floatIndexTable, query>>
    BY DEF TryComparison, indexes
<1>2. query \in Queries
    BY <1>1 DEF SearchInv, Answering
<1>3. /\ subTrees \in Seq(Range(query.where)) /\ subTrees' \in Seq(Range(query.where))
      /\ Head(subTrees) \in Range(query.where)
    BY <1>1 DEF LoadedInv
<1>4. IndexesStayLoaded'
    BY <1>1, LoadedLater DEF LoadedInv, IndexesStayLoaded
<1>5. pc' = "index_join" => indexTwo'.column \in DOMAIN IndexTable(indexOne'.kind)
    <2>1. SUFFICES ASSUME pc' = "index_join"
                   PROVE  indexTwo'.column \in DOMAIN IndexTable(indexOne'.kind)
        OBVIOUS
    <2>2. /\ indexOne' \in IndexesIn(NamedColumns(Head(subTrees)))
          /\ indexTwo' \in IndexesIn(NamedColumns(Head(subTrees)))
        BY <2>1, SearchRound
    <2>3. IndexesStayLoaded /\ pc # "down"
        BY <1>1 DEF LoadedInv
    <2>4. QED
        BY <1>2, <1>3, <2>2, <2>3, BothInOneMap
<1>6. (pc = "index_join" => indexTwo.column \in DOMAIN IndexTable(indexOne.kind))'
    BY <1>1, <1>5 DEF IndexTable
<1>7. (pc = "execute" => subTrees \in Seq(Range(query.where)))'
    BY <1>1, <1>3 DEF Range
<1>8. QED
    BY <1>4, <1>6, <1>7 DEF LoadedInv

LEMMA IndexJoinKeepsLoaded ==
    ASSUME LoadedInv, IndexJoin
    PROVE  LoadedInv'
<1>1. pc = "index_join" /\ LookUpIndexTwo /\ pc' = "product" /\ UNCHANGED db
    BY DEF IndexJoin, WriteResultsToJoinFile
<1>2. /\ stringIndexTable = [k \in DOMAIN stringIndexTable |-> stringIndexTable[k]]
      /\ floatIndexTable = [k \in DOMAIN floatIndexTable |-> floatIndexTable[k]]
    BY <1>1 DEF LoadedInv, IndexesStayLoaded, LoadedStringIndexes, LoadedFloatIndexes
<1>3. indexTwo.column \in DOMAIN IndexTable(indexOne.kind)
    BY <1>1 DEF LoadedInv
<1>4. UNCHANGED <<stringIndexTable, floatIndexTable>>
    <2>1. CASE indexOne.kind = "string"
        <3>1. EnterIndex(stringIndexTable, indexTwo.column) = stringIndexTable
            BY <1>2, <1>3, <2>1, EnteringWhatIsThere DEF IndexTable
        <3>2. QED
            BY <1>1, <2>1, <3>1 DEF LookUpIndexTwo, indexes
    <2>2. CASE indexOne.kind # "string"
        <3>1. EnterIndex(floatIndexTable, indexTwo.column) = floatIndexTable
            BY <1>2, <1>3, <2>2, EnteringWhatIsThere DEF IndexTable
        <3>2. QED
            BY <1>1, <2>2, <3>1 DEF LookUpIndexTwo, indexes
    <2>3. QED
        BY <2>1, <2>2
<1>5. QED
    BY <1>1, <1>4, LoadedLater DEF LoadedInv, IndexesStayLoaded

LEMMA ParseKeepsLoaded ==
    ASSUME LoadedInv, NEW q \in Queries, Parse(q)
    PROVE  LoadedInv'
<1>1. /\ pc = "prompt" /\ query' = q /\ pc' \in {"execute", "prompt"}
      /\ pc' = "execute" => subTrees' = Reverse(q.where)
      /\ UNCHANGED <<db, stringIndexTable, floatIndexTable>>
    BY DEF Parse, indexes
<1>2. Reverse(q.where) \in Seq(Range(q.where))
    BY QueriesAssumption, ReversedMembers
<1>3. QED
    BY <1>1, <1>2, LoadedLater DEF LoadedInv, IndexesStayLoaded

LEMMA StepKeepsLoaded ==
    ASSUME KeysOfOneKind(Databases, Queries), TypeOK, SearchInv, LoadedInv, [Next]_vars
    PROVE  LoadedInv'
<1>1. CASE Start
    <2>1. /\ stringIndexTable' = LoadedStringIndexes /\ floatIndexTable' = LoadedFloatIndexes
          /\ UNCHANGED db /\ pc' = "prompt"
        BY <1>1 DEF Start
    <2>2. QED
        BY <2>1, LoadedLater DEF LoadedInv, IndexesStayLoaded
<1>2. CASE pc' = "down"
    BY <1>2 DEF LoadedInv, IndexesStayLoaded
<1>3. CASE \E q \in Queries : Parse(q)
    BY <1>3, ParseKeepsLoaded
<1>4. CASE TryComparison
    BY <1>4, TryKeepsLoaded
<1>5. CASE IndexJoin
    BY <1>5, IndexJoinKeepsLoaded
<1>6. CASE ExecuteOnOneTable \/ NoJoinFound \/ HashJoin \/ WriteProduct \/ CopyProduct
              \/ AllJoined \/ ScanRow \/ ScanDone
    <2>1. /\ pc # "down" /\ pc' \notin {"execute", "index_join"}
          /\ UNCHANGED <<db, stringIndexTable, floatIndexTable>>
        BY <1>6 DEF ExecuteOnOneTable, NoJoinFound, HashJoin, WriteResultsToJoinFile,
                    WriteProduct, CopyProduct, AllJoined, ScanRow, ScanDone, indexes
    <2>2. QED
        BY <2>1, LoadedLater DEF LoadedInv, IndexesStayLoaded
<1>7. CASE Kill \/ IndexJoinCrash \/ HashJoinCrash \/ ScanCrash
    <2>1. LoseProcess
        BY <1>7 DEF Kill, IndexJoinCrash, HashJoinCrash, ScanCrash, JoinCrashes, Crash
    <2>2. QED
        BY <1>2, <2>1 DEF LoseProcess
<1>8. CASE UNCHANGED vars
    <2>1. UNCHANGED <<db, stringIndexTable, floatIndexTable, pc, query, subTrees,
                      indexOne, indexTwo>>
        BY <1>8 DEF vars, indexes, fields
    <2>2. QED
        BY <2>1, LoadedLater DEF LoadedInv, IndexesStayLoaded, IndexTable, Range
<1>9. QED
    BY <1>1, <1>2, <1>3, <1>4, <1>5, <1>6, <1>7, <1>8 DEF Next, Proceed

\* Where the keys of a comparison are of one kind, answering queries leaves
\* the index maps as the loader made them.
THEOREM IndexesAlwaysStayLoaded ==
    ASSUME KeysOfOneKind(Databases, Queries)
    PROVE  Spec => []IndexesStayLoaded
<1>1. Init => LoadedInv
    BY DEF Init, LoadedInv, IndexesStayLoaded
<1>2. TypeOK /\ SearchInv /\ LoadedInv /\ [Next]_vars => LoadedInv'
    BY StepKeepsLoaded
<1>3. LoadedInv => IndexesStayLoaded
    BY DEF LoadedInv
<1>4. QED
    BY <1>1, <1>2, <1>3, TypesAlways, PTL DEF Spec

(***************************************************************************)
(* The header of the file that is evaluated.  At each step, what the last  *)
(* file names and what the tables still to join have add up to the columns *)
(* of FROM, each once.  This takes a WHERE clause that names only these,   *)
(* index tuples as wide as their tables, and table names that are no names *)
(* of join files, by which tables are taken off the list.                  *)
(***************************************************************************)

ColumnsIn(tables) == UNION {Range(ColumnsOf[t]) : t \in tables}

Complete(header, rest) ==
    /\ IsInjective(header)
    /\ Range(header) \cap ColumnsIn(rest) = {}
    /\ \/ NoColumn \in Range(header)
       \/ Range(header) \cup ColumnsIn(rest) = FromColumns(query.from)

AsMeant ==
    /\ ColumnsOfFrom(Queries)
    /\ FullTuples(Databases)
    /\ Tables \cap JoinNames = {}
    /\ NoColumn \notin Columns

JoinedInv ==
    /\ EveryTableJoinedOnce
    /\ pc = "execute" => subTrees \in Seq(Range(query.where))
    /\ pc \in {"execute", "index_join", "hash_join"} => tableNames = query.from
    /\ pc = "index_join" =>
          {TableOf(indexOne.column), TableOf(indexTwo.column)} \subseteq Range(query.from)
    /\ pc = "hash_join" => Range(joinedTables) \subseteq Range(query.from)
    /\ pc \in {"product", "copy"} =>
          /\ IsInjective(tableNames)
          /\ lastJoinFile = NoFile => tableNames = query.from
    /\ pc = "product" /\ lastJoinFile # NoFile =>
          Complete(joinFiles[lastJoinFile[1]].header, Range(tableNames))
    /\ pc = "copy" =>
          Complete(joinFiles["temp"].header, Range(tableNames) \ ProductTables)

LEMMA ColumnsApart ==
    ASSUME NEW A \in SUBSET Range(Catalog), NEW B \in SUBSET Range(Catalog), A \cap B = {}
    PROVE  ColumnsIn(A) \cap ColumnsIn(B) = {}
<1>1. ASSUME NEW c \in ColumnsIn(A), c \in ColumnsIn(B) PROVE FALSE
    <2>1. PICK t \in A : c \in Range(ColumnsOf[t])
        BY DEF ColumnsIn
    <2>2. PICK u \in B : c \in Range(ColumnsOf[u])
        BY <1>1 DEF ColumnsIn
    <2>3. TableOf(c) = t /\ TableOf(c) = u
        BY <2>1, <2>2, TableOfColumn
    <2>4. QED
        BY <2>3
<1>2. QED
    BY <1>1

LEMMA ColumnsOfCatalog ==
    ASSUME NEW A \in SUBSET Range(Catalog)
    PROVE  ColumnsIn(A) \subseteq Columns
BY CatalogTables DEF ColumnsIn

LEMMA ColumnsTogether ==
    ASSUME NEW A, NEW B
    PROVE  ColumnsIn(A \cup B) = ColumnsIn(A) \cup ColumnsIn(B)
BY DEF ColumnsIn

LEMMA ColumnsOfOne ==
    ASSUME NEW t
    PROVE  ColumnsIn({t}) = Range(ColumnsOf[t])
BY DEF ColumnsIn

LEMMA ColumnsOfTwo ==
    ASSUME NEW t, NEW u
    PROVE  ColumnsIn({t, u}) = Range(ColumnsOf[t]) \cup Range(ColumnsOf[u])
BY DEF ColumnsIn

LEMMA FromIsColumnsIn ==
    ASSUME NEW from
    PROVE  FromColumns(from) = ColumnsIn(Range(from))
BY DEF FromColumns, ColumnsIn

\* A join of tables of FROM leaves the others.
LEMMA JoinIsComplete ==
    ASSUME AsMeant, Range(query.from) \subseteq Range(Catalog),
           NEW A \in SUBSET Range(query.from), NEW joined, Collects(joined),
           DOMAIN joined \in {{}, ColumnsIn(A)}
    PROVE  Complete(IF DOMAIN joined = {} THEN <<NoColumn>> ELSE JoinedColumns(joined),
                    Range(query.from) \ A)
<1> DEFINE rest == Range(query.from) \ A
<1>1. rest \in SUBSET Range(Catalog) /\ A \in SUBSET Range(Catalog) /\ A \cap rest = {}
    OBVIOUS
<1>2. CASE DOMAIN joined = {}
    <2>1. IsInjective(<<NoColumn>>) /\ Range(<<NoColumn>>) = {NoColumn}
        BY DEF IsInjective, Range
    <2>2. NoColumn \notin ColumnsIn(rest)
        BY <1>1, ColumnsOfCatalog DEF AsMeant
    <2>3. QED
        BY <1>2, <2>1, <2>2 DEF Complete
<1>3. CASE DOMAIN joined # {}
    <2>1. /\ IsInjective(JoinedColumns(joined))
          /\ Range(JoinedColumns(joined)) = ColumnsIn(A)
        BY <1>3, HeaderOfJoined
    <2>2. ColumnsIn(A) \cap ColumnsIn(rest) = {}
        BY <1>1, ColumnsApart
    <2>3. ColumnsIn(A) \cup ColumnsIn(rest) = FromColumns(query.from)
        <3>1. A \cup rest = Range(query.from)
            OBVIOUS
        <3>2. QED
            BY <3>1, ColumnsTogether, FromIsColumnsIn
    <2>4. QED
        BY <1>3, <2>1, <2>2, <2>3 DEF Complete
<1>4. QED
    BY <1>2, <1>3

\* The tables that the columns of a comparison belong to are those of FROM.
LEMMA FoundTables ==
    ASSUME AsMeant, query \in Queries, Valid(query), NEW c \in Range(query.where),
           NEW t \in Range(Catalog), NEW k \in NamedColumns(c), k \in Range(ColumnsOf[t])
    PROVE  t \in Range(query.from)
<1>1. PICK n \in DOMAIN query.where : c = query.where[n]
    BY DEF Range
<1>2. k \in WhereColumns(query.where)
    BY <1>1 DEF WhereColumns
<1>3. k \in FromColumns(query.from)
    BY <1>2 DEF AsMeant, ColumnsOfFrom
<1>4. PICK u \in Range(query.from) : k \in Range(ColumnsOf[u])
    BY <1>3 DEF FromColumns
<1>5. u \in Range(Catalog)
    BY DEF Valid
<1>6. TableOf(k) = t /\ TableOf(k) = u
    BY <1>4, <1>5, TableOfColumn
<1>7. QED
    BY <1>6

LEMMA TryKeepsJoined ==
    ASSUME AsMeant, TypeOK, SearchInv, JoinedInv, TryComparison
    PROVE  JoinedInv'
<1>1. /\ pc = "execute" /\ pc' \in {"execute", "index_join", "hash_join"}
      /\ subTrees # <<>> /\ subTrees' = Tail(subTrees)
      /\ UNCHANGED <<query, tableNames>>
    BY DEF TryComparison
<1>2. query \in Queries /\ Valid(query) /\ tableNames = query.from
    BY <1>1 DEF SearchInv, Answering, JoinedInv
<1>3. /\ subTrees' \in Seq(Range(query.where)) /\ Head(subTrees) \in Range(query.where)
    BY <1>1 DEF JoinedInv
<1>4. CASE pc' = "execute"
    BY <1>1, <1>2, <1>3, <1>4 DEF JoinedInv, EveryTableJoinedOnce, Range
<1>5. CASE pc' # "execute"
    <2> DEFINE C == NamedColumns(Head(subTrees))
    <2>1. /\ Range(joinedTables') = {t \in Range(Catalog) : \E c \in C : c \in Range(ColumnsOf[t])}
          /\ indexOne' \in IndexesIn(C)
          /\ pc' = "index_join" => indexTwo' \in IndexesIn(C)
        BY <1>5, SearchRound
    <2>2. Range(joinedTables') \subseteq Range(query.from)
        BY <1>2, <1>3, <2>1, FoundTables
    <2>3. ASSUME NEW x \in IndexesIn(C) PROVE TableOf(x.column) \in Range(query.from)
        <3>1. x.column \in Keys /\ x.column \in C
            BY FoundIndexTypes
        <3>2. TableOf(x.column) \in Range(Catalog)
              /\ x.column \in Range(ColumnsOf[TableOf(x.column)])
            BY <3>1, KeysHaveTables
        <3>3. QED
            BY <1>2, <1>3, <3>1, <3>2, FoundTables
    <2>4. pc' = "index_join" =>
            TableOf(indexOne'.column) \in Range(query.from)
            /\ TableOf(indexTwo'.column) \in Range(query.from)
        BY <2>1, <2>3
    <2> HIDE DEF C
    <2>5. Range(query'.from) = Range(query.from)
        BY <1>1
    <2>6. QED
        BY <1>1, <1>2, <1>5, <2>2, <2>4, <2>5 DEF JoinedInv, EveryTableJoinedOnce
<1>6. QED
    BY <1>4, <1>5

\* An index or hash join of the tables A.
LEMMA JoinKeepsJoined ==
    ASSUME AsMeant, TypeOK, SearchInv, JoinedInv, pc \in {"index_join", "hash_join"},
           NEW A \in SUBSET Range(query.from), RemoveTables(A),
           NEW file \in {"index", "hash"}, NEW joinings,
           \A joined \in joinings :
              Collects(joined) /\ DOMAIN joined \in {{}, ColumnsIn(A)},
           WriteResultsToJoinFile(file, joinings), UNCHANGED query
    PROVE  JoinedInv'
<1>1. tableNames = query.from /\ query \in Queries /\ Valid(query)
    BY DEF JoinedInv, SearchInv, Answering
<1>2. IsInjective(tableNames) /\ Range(query.from) \subseteq Range(Catalog)
    BY <1>1, QueriesAssumption DEF Valid
<1>3. IsInjective(tableNames') /\ Range(tableNames') = Range(query.from) \ A
    BY <1>1, <1>2, OthersStay DEF TypeOK
<1> PICK joined \in joinings :
         joinFiles'[file].header
            = IF DOMAIN joined = {} THEN <<NoColumn>> ELSE JoinedColumns(joined)
    BY JoinFileTypes
<1>4. lastJoinFile' = JoinFile(file) /\ pc' = "product"
    BY JoinFileTypes
<1>5. Complete(joinFiles'[file].header, Range(tableNames'))
    BY <1>2, <1>3, <1>4, JoinIsComplete
<1>6. lastJoinFile'[1] = file /\ lastJoinFile' # NoFile
    BY <1>4, FileNames
<1>7. Complete(joinFiles[lastJoinFile[1]].header, Range(tableNames))'
    BY <1>5, <1>6 DEF Complete, Range
<1>8. QED
    BY <1>3, <1>4, <1>6, <1>7 DEF JoinedInv, EveryTableJoinedOnce

\* The entries of an index are those of its file, or there are none.
LEMMA EntriesFromFiles ==
    ASSUME AsMeant, TypeOK, EntriesStayLoaded, pc # "down", NEW kind, NEW c \in Keys
    PROVE  EntriesOf(IndexTable(kind), c)
              \in Seq(EntriesWith(FullTuple(TableOf(c))))
<1> DEFINE B == EntriesWith(FullTuple(TableOf(c)))
<1>1. EntriesOf(IndexTable(kind), c) \in {<<>>, db.entries[c]}
    BY DEF EntriesStayLoaded, EntriesOf, IndexTable, LoadedStringIndexes, LoadedFloatIndexes
<1>2. db.entries[c] \in Seq(B)
    <2>1. db \in Databases /\ db.entries[c] \in Seq(IndexEntry)
        BY DatabaseTypes DEF TypeOK
    <2>2. \A n \in 1..Len(db.entries[c]) : db.entries[c][n] \in B
        <3>1. ASSUME NEW n \in 1..Len(db.entries[c]) PROVE db.entries[c][n] \in B
            <4>1. db.entries[c][n] \in IndexEntry
                BY <2>1
            <4>2. Len(db.entries[c][n].tuple) = Len(ColumnsOf[TableOf(c)])
                BY <2>1 DEF AsMeant, FullTuples
            <4>3. db.entries[c][n].tuple \in FullTuple(TableOf(c))
                BY <4>1, <4>2 DEF IndexEntry, FullTuple
            <4>4. QED
                BY <4>1, <4>3 DEF IndexEntry, EntriesWith
        <3>2. QED
            BY <3>1
    <2> HIDE DEF B
    <2>3. QED
        BY <2>1, <2>2
<1>3. <<>> \in Seq(B)
    OBVIOUS
<1> HIDE DEF B
<1>4. EntriesOf(IndexTable(kind), c) \in Seq(B)
    BY <1>1, <1>2, <1>3
<1>5. QED
    BY <1>4 DEF B

LEMMA IndexJoinKeepsJoined ==
    ASSUME AsMeant, TypeOK, SearchInv, EntriesStayLoaded, JoinedInv, IndexJoin
    PROVE  JoinedInv'
<1> DEFINE t == TableOf(indexOne.column)
           u == TableOf(indexTwo.column)
           A == {t, u}
<1>1. pc = "index_join" /\ UNCHANGED query
      /\ RemoveTables(A) /\ WriteResultsToJoinFile("index", IndexJoinings)
    <2>1. Range(IndexTables) = A
        <3>1. IndexTables = <<t, u>>
            BY DEF IndexTables
        <3> HIDE DEF t, u
        <3>2. DOMAIN <<t, u>> = {1, 2}
            OBVIOUS
        <3>3. QED
            BY <3>1, <3>2 DEF Range
    <2>2. QED
        BY <2>1 DEF IndexJoin
<1>2. A \in SUBSET Range(query.from)
    BY <1>1 DEF JoinedInv
<1>3. indexOne.column \in Keys /\ indexTwo.column \in Keys
    BY <1>1, FoundColumns
<1>4. IndexTables[1] = t /\ IndexTables[2] = u
    BY DEF IndexTables
<1>5. /\ EntriesOf(IndexTable(indexOne.kind), indexOne.column)
            \in Seq(EntriesWith(FullTuple(t)))
      /\ EntriesOf(IndexTable(indexOne.kind), indexTwo.column)
            \in Seq(EntriesWith(FullTuple(u)))
    BY <1>1, <1>3, EntriesFromFiles
<1>6. \A joined \in IndexJoinings :
         Collects(joined) /\ DOMAIN joined = Range(ColumnsOf[t]) \cup Range(ColumnsOf[u])
    <2>1. FullTuple(t) \in SUBSET Tuple /\ FullTuple(u) \in SUBSET Tuple
        BY DEF FullTuple
    <2> HIDE DEF t, u
    <2>2. QED
        BY <1>3, <1>4, <1>5, <2>1, IndexJoinCollects
<1>7. ColumnsIn(A) = Range(ColumnsOf[t]) \cup Range(ColumnsOf[u])
    BY ColumnsOfTwo
<1> HIDE DEF A, t, u
<1>8. QED
    BY <1>1, <1>2, <1>6, <1>7, JoinKeepsJoined

LEMMA HashJoinKeepsJoined ==
    ASSUME AsMeant, TypeOK, SearchInv, EntriesStayLoaded, JoinedInv, HashJoin
    PROVE  JoinedInv'
<1> DEFINE A == Range(joinedTables)
           long == FullTuple(InputTable)
           full == FullTuple(IndexedTable)
<1>1. pc = "hash_join" /\ RemoveTables(A) /\ UNCHANGED query
    BY DEF HashJoin
<1> PICK place, garbage : WriteResultsToJoinFile("hash", HashJoinings(place, garbage))
    BY DEF HashJoin
<1>2. A \in SUBSET Range(query.from)
    BY <1>1 DEF JoinedInv
<1>3. /\ InputTable \in Range(Catalog) /\ IndexedTable \in Range(Catalog)
      /\ A = {InputTable, IndexedTable}
      /\ InputRows \in Seq(Tuple)
    BY <1>1, HashJoinTables
<1>4. InputRows \in Seq(long)
    <2>1. db \in Databases
        BY DEF TypeOK
    <2>2. \A n \in 1..Len(InputRows) : Len(InputRows[n]) = Len(ColumnsOf[InputTable])
        BY <1>3, <2>1, DatabasesAssumption DEF WellFormed, InputRows
    <2>3. \A n \in 1..Len(InputRows) : InputRows[n] \in long
        BY <1>3, <2>2 DEF FullTuple
    <2> HIDE DEF long
    <2>4. QED
        BY <1>3, <2>3
<1>5. EntriesOf(IndexTable(indexOne.kind), indexOne.column) 
         \in Seq(EntriesWith(full))
    BY <1>1, FoundColumns, EntriesFromFiles DEF IndexedTable
<1>6. long \in SUBSET Tuple /\ full \in SUBSET Tuple
    BY DEF FullTuple
<1>7. long = FullTuple(InputTable) /\ full = FullTuple(IndexedTable)
    OBVIOUS
<1> HIDE DEF long, full
<1>8. \A joined \in HashJoinings(place, garbage) :
         /\ Collects(joined)
         /\ \/ DOMAIN joined = {}
            \/ DOMAIN joined
                 = Range(ColumnsOf[InputTable]) \cup Range(ColumnsOf[IndexedTable])
    BY <1>3, <1>4, <1>5, <1>6, <1>7, HashJoinCollects
<1>9. \A joined \in HashJoinings(place, garbage) :
         Collects(joined) /\ DOMAIN joined \in {{}, ColumnsIn(A)}
    <2>1. ColumnsIn(A) = Range(ColumnsOf[InputTable]) \cup Range(ColumnsOf[IndexedTable])
        BY <1>3, ColumnsOfTwo
    <2>2. QED
        BY <1>8, <2>1
<1> HIDE DEF A
<1>10. QED
    BY <1>1, <1>2, <1>9, JoinKeepsJoined

\* Two headers without a common column, one after the other.
LEMMA JoinedHeaders ==
    ASSUME NEW S, NEW s \in Seq(S), NEW t \in Seq(S), IsInjective(s), IsInjective(t),
           Range(s) \cap Range(t) = {}
    PROVE  IsInjective(s \o t) /\ Range(s \o t) = Range(s) \cup Range(t)
<1>1. Range(s \o t) = Range(s) \cup Range(t)
    BY RangeOfConcatenation
<1>2. /\ DOMAIN (s \o t) = 1..(Len(s) + Len(t)) /\ Len(s) \in Nat /\ Len(t) \in Nat
      /\ DOMAIN s = 1..Len(s) /\ DOMAIN t = 1..Len(t)
    OBVIOUS
<1>3. ASSUME NEW i \in 1..(Len(s) + Len(t))
      PROVE  \/ i \in 1..Len(s) /\ (s \o t)[i] = s[i]
             \/ i - Len(s) \in 1..Len(t) /\ (s \o t)[i] = t[i - Len(s)]
    BY <1>2
<1>4. \A i \in 1..Len(s), j \in 1..Len(t) : s[i] # t[j]
    BY <1>2 DEF Range
<1>5. \A i, j \in 1..Len(s) : s[i] = s[j] => i = j
    BY <1>2 DEF IsInjective
<1>6. \A i, j \in 1..Len(t) : t[i] = t[j] => i = j
    BY <1>2 DEF IsInjective
<1>7. ASSUME NEW i \in 1..(Len(s) + Len(t)), NEW j \in 1..(Len(s) + Len(t)),
             (s \o t)[i] = (s \o t)[j]
      PROVE  i = j
    <2>1. CASE i \in 1..Len(s) /\ (s \o t)[i] = s[i]
        BY <1>3, <1>4, <1>5, <1>7, <2>1
    <2>2. CASE i - Len(s) \in 1..Len(t) /\ (s \o t)[i] = t[i - Len(s)]
        <3>1. CASE j \in 1..Len(s) /\ (s \o t)[j] = s[j]
            BY <1>4, <1>7, <2>2, <3>1
        <3>2. CASE j - Len(s) \in 1..Len(t) /\ (s \o t)[j] = t[j - Len(s)]
            <4>1. i - Len(s) = j - Len(s)
                BY <1>6, <1>7, <2>2, <3>2
            <4>2. QED
                BY <1>2, <4>1
        <3>3. QED
            BY <1>3, <3>1, <3>2
    <2>3. QED
        BY <1>3, <2>1, <2>2
<1>8. QED
    BY <1>1, <1>2, <1>7 DEF IsInjective

\* A product with one more table.
LEMMA ProductIsComplete ==
    ASSUME AsMeant, NEW header \in Seq(Names),
           NEW rest \in SUBSET Range(Catalog), NEW t \in rest, Complete(header, rest)
    PROVE  Complete(header \o ColumnsOf[t], rest \ {t})
<1>1. /\ ColumnsOf[t] \in Seq(Names) /\ IsInjective(ColumnsOf[t])
    BY CatalogTables DEF Names
<1>2. ColumnsIn(rest) = ColumnsIn(rest \ {t}) \cup Range(ColumnsOf[t])
    <2> DEFINE others == rest \ {t}
    <2>1. rest = others \cup {t}
        OBVIOUS
    <2> HIDE DEF others
    <2>2. ColumnsIn(rest) = ColumnsIn(others) \cup ColumnsIn({t})
        BY <2>1, ColumnsTogether
    <2>3. QED
        BY <2>2, ColumnsOfOne DEF others
<1>3. Range(ColumnsOf[t]) \cap ColumnsIn(rest \ {t}) = {}
    <2>1. {t} \in SUBSET Range(Catalog) /\ rest \ {t} \in SUBSET Range(Catalog)
          /\ {t} \cap (rest \ {t}) = {}
        OBVIOUS
    <2>2. QED
        BY <2>1, ColumnsApart, ColumnsOfOne
<1>4. /\ IsInjective(header) /\ Range(header) \cap ColumnsIn(rest) = {}
      /\ \/ NoColumn \in Range(header)
         \/ Range(header) \cup ColumnsIn(rest) = FromColumns(query.from)
    BY DEF Complete
<1>5. Range(header) \cap Range(ColumnsOf[t]) = {}
    BY <1>2, <1>4
<1>6. /\ IsInjective(header \o ColumnsOf[t])
      /\ Range(header \o ColumnsOf[t]) = Range(header) \cup Range(ColumnsOf[t])
    BY <1>1, <1>4, <1>5, JoinedHeaders
<1>7. QED
    BY <1>2, <1>3, <1>4, <1>6 DEF Complete

\* The header of the first table, when no join came before the products.
LEMMA FirstIsComplete ==
    ASSUME Range(query.from) \subseteq Range(Catalog), NEW t \in Range(query.from)
    PROVE  Complete(ColumnsOf[t], Range(query.from) \ {t})
<1> DEFINE others == Range(query.from) \ {t}
<1>1. Range(query.from) = others \cup {t} /\ others \cap {t} = {}
    OBVIOUS
<1>2. others \in SUBSET Range(Catalog) /\ {t} \in SUBSET Range(Catalog)
    OBVIOUS
<1> HIDE DEF others
<1>3. FromColumns(query.from) = ColumnsIn(others) \cup Range(ColumnsOf[t])
    <2>1. FromColumns(query.from) = ColumnsIn(others \cup {t})
        BY <1>1, FromIsColumnsIn
    <2>2. ColumnsIn(others \cup {t}) = ColumnsIn(others) \cup ColumnsIn({t})
        BY ColumnsTogether
    <2>3. ColumnsIn({t}) = Range(ColumnsOf[t])
        BY ColumnsOfOne
    <2>4. QED
        BY <2>1, <2>2, <2>3
<1>4. ColumnsIn(others) \cap Range(ColumnsOf[t]) = {}
    BY <1>1, <1>2, ColumnsApart, ColumnsOfOne
<1>5. IsInjective(ColumnsOf[t])
    BY <1>2, CatalogTables
<1>6. Complete(ColumnsOf[t], others)
    BY <1>3, <1>4, <1>5 DEF Complete
<1>7. QED
    BY <1>6 DEF others

LEMMA WriteProductKeepsJoined ==
    ASSUME AsMeant, TypeOK, FilesInv, SearchInv, JoinedInv, WriteProduct
    PROVE  JoinedInv'
<1> DEFINE one == Content(TableOne).header
           t == TableTwo[1]
<1>1. /\ pc = "product" /\ pc' = "copy" /\ tableNames # <<>>
      /\ UNCHANGED <<query, tableNames, lastJoinFile>>
    BY DEF WriteProduct, fields
<1>2. /\ query \in Queries /\ Range(query.from) \subseteq Range(Catalog)
      /\ Range(tableNames) \subseteq Range(Catalog)
    BY <1>1 DEF SearchInv, Answering, Valid
<1>3. joinFiles'["temp"].header = one \o ColumnsOf[t]
    <2>1. PICK content \in Relation :
             Write("temp", content)
             /\ content.header = Content(TableOne).header \o Content(TableTwo).header
        BY ProductRelation
    <2>2. joinFiles'["temp"] = content
        BY <2>1 DEF Write
    <2>3. Content(TableTwo).header = ColumnsOf[t]
        BY <1>1, ProductFiles
    <2>4. QED
        BY <2>1, <2>2, <2>3
<1>4. t \in Range(tableNames) /\ one \in Seq(Names)
    BY <1>1, ProductFiles DEF Relation
<1>5. IsInjective(tableNames)
    BY <1>1 DEF JoinedInv
<1>6. PICK rest \in SUBSET Range(Catalog) :
         t \in rest /\ Complete(one, rest) /\ rest \ {t} = Range(tableNames) \ ProductTables
    <2>1. CASE lastJoinFile = NoFile
        <3>1. /\ TableOne[1] = tableNames[1] /\ TableOne[1] \in Range(tableNames)
              /\ t = tableNames[2] /\ Len(tableNames) > 1 /\ one = ColumnsOf[TableOne[1]]
            BY <1>1, <2>1, ProductFiles
        <3>2. tableNames = query.from
            BY <1>1, <2>1 DEF JoinedInv
        <3>3. Complete(one, Range(tableNames) \ {TableOne[1]})
            BY <1>2, <3>1, <3>2, FirstIsComplete
        <3>4. TableOne[1] # t
            <4>1. 1 \in DOMAIN tableNames /\ 2 \in DOMAIN tableNames
                BY <3>1 DEF TypeOK
            <4>2. QED
                BY <1>5, <3>1, <4>1 DEF IsInjective
        <3> HIDE DEF one, t
        <3>5. /\ t \in Range(tableNames) \ {TableOne[1]}
              /\ Range(tableNames) \ {TableOne[1]} \in SUBSET Range(Catalog)
            BY <1>2, <1>4, <3>4
        <3>6. (Range(tableNames) \ {TableOne[1]}) \ {t} = Range(tableNames) \ ProductTables
            BY DEF ProductTables, t
        <3>7. QED
            BY <3>3, <3>5, <3>6
    <2>2. CASE lastJoinFile # NoFile
        <3>1. /\ TableOne[1] = lastJoinFile[1] /\ lastJoinFile[1] \in JoinNames
              /\ one = joinFiles[lastJoinFile[1]].header
            BY <1>1, <2>2, ProductFiles
        <3>2. Complete(one, Range(tableNames))
            BY <1>1, <2>2, <3>1 DEF JoinedInv
        <3>3. TableOne[1] \notin Range(tableNames)
            BY <1>2, <3>1, CatalogTables DEF AsMeant
        <3> HIDE DEF one, t
        <3>4. Range(tableNames) \ {t} = Range(tableNames) \ ProductTables
            BY <3>3 DEF ProductTables, t
        <3>5. QED
            BY <1>2, <1>4, <3>2, <3>4
    <2>3. QED
        BY <2>1, <2>2
<1> HIDE DEF one, t
<1>7. Complete(one \o ColumnsOf[t], Range(tableNames) \ ProductTables)
    BY <1>4, <1>6, ProductIsComplete
<1>8. ProductTables' = ProductTables
    BY <1>1 DEF ProductTables, TableOne, TableTwo
<1>9. Complete(joinFiles["temp"].header, Range(tableNames) \ ProductTables)'
    BY <1>1, <1>3, <1>7, <1>8 DEF Complete
<1>10. (lastJoinFile = NoFile => tableNames = query.from)'
    BY <1>1 DEF JoinedInv
<1>11. QED
    BY <1>1, <1>5, <1>9, <1>10 DEF JoinedInv, EveryTableJoinedOnce

LEMMA CopyProductKeepsJoined ==
    ASSUME TypeOK, JoinedInv, CopyProduct
    PROVE  JoinedInv'
<1>1. /\ pc = "copy" /\ pc' = "product" /\ RemoveTables(ProductTables)
      /\ lastJoinFile' = JoinFile("nestedloop") /\ UNCHANGED query
      /\ joinFiles'["nestedloop"] = joinFiles["temp"]
    BY DEF CopyProduct
<1>2. /\ Range(tableNames') = Range(tableNames) \ ProductTables
      /\ IsInjective(tableNames')
    BY <1>1, OthersStay DEF TypeOK, JoinedInv
<1>3. lastJoinFile' # NoFile /\ lastJoinFile'[1] = "nestedloop"
    BY <1>1, FileNames
<1>4. Complete(joinFiles["temp"].header, Range(tableNames) \ ProductTables)
    BY <1>1 DEF JoinedInv
<1>5. Complete(joinFiles[lastJoinFile[1]].header, Range(tableNames))'
    BY <1>1, <1>2, <1>3, <1>4 DEF Complete
<1>6. QED
    BY <1>1, <1>2, <1>3, <1>5 DEF JoinedInv, EveryTableJoinedOnce

\* The scan of one table, and that of the last join file.
LEMMA ScanIsComplete ==
    ASSUME TypeOK, FilesInv, SearchInv, JoinedInv, ExecuteOnOneTable \/ AllJoined
    PROVE  JoinedInv'
<1>1. CASE ExecuteOnOneTable
    <2> DEFINE t == query.from[1]
    <2>1. /\ pc = "execute" /\ pc' = "scan" /\ Len(query.from) = 1
          /\ lastJoinFile' = TableFile(t) /\ UNCHANGED <<db, query>>
        BY <1>1 DEF ExecuteOnOneTable
    <2>2. query \in Queries /\ Range(query.from) \subseteq Range(Catalog)
        BY <2>1 DEF SearchInv, Answering, Valid
    <2>3. query.from \in Seq(Tables)
        BY <2>2, QueriesAssumption
    <2>4. Range(query.from) = {t}
        <3>1. DOMAIN query.from = {1}
            BY <2>1, <2>3
        <3>2. QED
            BY <3>1 DEF Range
    <2>5. FromColumns(query.from) = Range(ColumnsOf[t])
        BY <2>4, FromIsColumnsIn, ColumnsOfOne
    <2>6. IsInjective(ColumnsOf[t])
        BY <2>2, <2>4, CatalogTables
    <2>7. FinalTable'.header = ColumnsOf[t]
        BY <2>1, FileNames DEF FinalTable, Content
    <2> HIDE DEF t
    <2>8. EveryTableJoinedOnce'
        BY <2>1, <2>5, <2>6, <2>7 DEF EveryTableJoinedOnce
    <2>9. QED
        BY <2>1, <2>8 DEF JoinedInv
<1>2. CASE AllJoined
    <2>1. /\ pc = "product" /\ pc' = "scan" /\ tableNames = <<>>
          /\ UNCHANGED <<db, joinFiles, query, lastJoinFile>>
        BY <1>2 DEF AllJoined
    <2>2. lastJoinFile # NoFile
        BY <2>1 DEF FilesInv, LastFileWritten
    <2>3. lastJoinFile[2] = "JOIN"
        BY <2>1, <2>2 DEF SearchInv
    <2>4. FinalTable'.header = joinFiles[lastJoinFile[1]].header
        BY <2>1, <2>3 DEF FinalTable, Content
    <2>5. Complete(joinFiles[lastJoinFile[1]].header, {})
        <3>1. Range(tableNames) = {}
            BY <2>1 DEF Range
        <3>2. QED
            BY <2>1, <2>2, <3>1 DEF JoinedInv
    <2>6. ColumnsIn({}) = {}
        BY DEF ColumnsIn
    <2>7. EveryTableJoinedOnce'
        BY <2>1, <2>4, <2>5, <2>6 DEF EveryTableJoinedOnce, Complete
    <2>8. QED
        BY <2>1, <2>7 DEF JoinedInv
<1>3. QED
    BY <1>1, <1>2

LEMMA ParseKeepsJoined ==
    ASSUME JoinedInv, NEW q \in Queries, Parse(q)
    PROVE  JoinedInv'
<1>1. /\ query' = q /\ pc' \in {"execute", "prompt"}
      /\ pc' = "execute" => subTrees' = Reverse(q.where) /\ tableNames' = q.from
    BY DEF Parse
<1>2. Reverse(q.where) \in Seq(Range(q.where))
    BY QueriesAssumption, ReversedMembers
<1>3. QED
    BY <1>1, <1>2 DEF JoinedInv, EveryTableJoinedOnce

LEMMA StepKeepsJoined ==
    ASSUME AsMeant, TypeOK, FilesInv, SearchInv, EntriesStayLoaded, JoinedInv, [Next]_vars
    PROVE  JoinedInv'
<1>1. CASE pc' \in {"down", "prompt"}
    BY <1>1 DEF JoinedInv, EveryTableJoinedOnce
<1>2. CASE Start \/ Kill \/ IndexJoinCrash \/ HashJoinCrash \/ ScanCrash \/ ScanDone
    <2>1. Start \/ LoseProcess \/ ScanDone
        BY <1>2 DEF Kill, IndexJoinCrash, HashJoinCrash, ScanCrash, JoinCrashes, Crash
    <2>2. QED
        BY <1>1, <2>1 DEF Start, LoseProcess, ScanDone
<1>3. CASE \E q \in Queries : Parse(q)
    BY <1>3, ParseKeepsJoined
<1>4. CASE TryComparison
    BY <1>4, TryKeepsJoined
<1>5. CASE IndexJoin \/ HashJoin
    BY <1>5, IndexJoinKeepsJoined, HashJoinKeepsJoined
<1>6. CASE NoJoinFound
    <2>1. /\ pc = "execute" /\ pc' = "product" /\ UNCHANGED <<query, tableNames, lastJoinFile>>
        BY <1>6 DEF NoJoinFound, fields
    <2>2. query \in Queries /\ tableNames = query.from /\ lastJoinFile = NoFile
        BY <2>1 DEF SearchInv, Answering, JoinedInv, FilesInv, LastFileWritten
    <2>3. IsInjective(tableNames)
        BY <2>2, QueriesAssumption
    <2>4. QED
        BY <2>1, <2>2, <2>3 DEF JoinedInv, EveryTableJoinedOnce
<1>7. CASE WriteProduct \/ CopyProduct
    BY <1>7, WriteProductKeepsJoined, CopyProductKeepsJoined
<1>8. CASE ExecuteOnOneTable \/ AllJoined
    BY <1>8, ScanIsComplete
<1>9. CASE ScanRow
    <2>1. /\ pc = "scan" /\ UNCHANGED <<db, joinFiles, pc, query, lastJoinFile>>
        BY <1>9 DEF ScanRow
    <2>2. FinalTable' = FinalTable
        BY <2>1 DEF FinalTable, Content
    <2>3. QED
        BY <2>1, <2>2 DEF JoinedInv, EveryTableJoinedOnce
<1>10. CASE UNCHANGED vars
    <2>1. UNCHANGED <<db, joinFiles, pc, query, tableNames, subTrees, joinedTables,
                      indexOne, indexTwo, lastJoinFile>>
        BY <1>10 DEF vars, fields
    <2>2. FinalTable' = FinalTable /\ ProductTables' = ProductTables
        BY <2>1 DEF FinalTable, Content, ProductTables, TableOne, TableTwo
    <2>3. EveryTableJoinedOnce'
        BY <2>1, <2>2 DEF JoinedInv, EveryTableJoinedOnce
    <2>4. QED
        BY <2>1, <2>2, <2>3 DEF JoinedInv, Complete
<1>11. QED
    BY <1>2, <1>3, <1>4, <1>5, <1>6, <1>7, <1>8, <1>9, <1>10 DEF Next, Proceed

\* Whichever joins a query takes, and whatever products follow them, the file
\* that is evaluated has each column of the tables of FROM once.
THEOREM EveryTableAlwaysJoinedOnce ==
    ASSUME ColumnsOfFrom(Queries), FullTuples(Databases),
           Tables \cap JoinNames = {}, NoColumn \notin Columns
    PROVE  Spec => []EveryTableJoinedOnce
<1>1. AsMeant
    BY DEF AsMeant
<1>2. Init => JoinedInv
    BY DEF Init, JoinedInv, EveryTableJoinedOnce
<1>3. TypeOK /\ FilesInv /\ SearchInv /\ EntriesStayLoaded /\ JoinedInv /\ [Next]_vars
         => JoinedInv'
    BY <1>1, StepKeepsJoined
<1>4. JoinedInv => EveryTableJoinedOnce
    BY DEF JoinedInv
<1>5. QED
    BY <1>2, <1>3, <1>4, TypesAlways, EntriesAlwaysStayLoaded, PTL DEF Spec
=============================================================================

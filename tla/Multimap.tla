------------------------------ MODULE Multimap ------------------------------
(***************************************************************************)
(* What the B-tree promises: a sequence of values ordered by their keys.   *)
(* A call names a value, a key or a place, takes effect in one step (one   *)
(* step for each value when a whole key is erased), and is answered with   *)
(* the place of the value it inserted or found, or of the one that follows *)
(* what it erased.  Places count from zero; the place after the last one   *)
(* is the end.                                                             *)
(***************************************************************************)
EXTENDS Integers, SequencesExt

CONSTANTS
    Values,    \* what can be stored
    KeyOf,     \* the key of each value
    Unique,    \* whether a key may be stored once only (a map) or more often
    MaxSize    \* bound: no call inserts beyond this many values

VARIABLES
    entries,   \* the values stored, in order
    call,      \* the call in progress
    erased,    \* how many values it has erased
    answer     \* its answer, or Pending

vars == <<entries, call, erased, answer>>

NoCall == [kind |-> "none"]

Pending == -1

Keys == {KeyOf[v] : v \in Values}

\* The calls on a container of the given size.
Calls(n) ==
    {[kind |-> "clear"], [kind |-> "copy"]}
    \cup [kind : {"erase"}, at : 0..(n - 1)]
    \cup [kind : {"erase_key"}, key : Keys]
    \cup IF n < MaxSize
         THEN [kind : {"insert"}, value : Values]
                  \cup [kind : {"insert_hint"}, value : Values, at : 0..n]
         ELSE {}

\* How many of the values s have a key below k, and a key of at most k.
Below(s, k) == Cardinality({i \in DOMAIN s : KeyOf[s[i]] < k})

UpTo(s, k) == Cardinality({i \in DOMAIN s : KeyOf[s[i]] <= k})

Present(s, k) == Below(s, k) < UpTo(s, k)

\* A value with key k may stand at place n.
Fits(s, k, n) == n \in Below(s, k)..UpTo(s, k)

Init ==
    /\ entries = <<>>
    /\ call = NoCall
    /\ erased = 0
    /\ answer = Pending

Ask ==
    /\ call = NoCall
    /\ call' \in Calls(Len(entries))
    /\ UNCHANGED <<entries, erased, answer>>

Asked(kinds) == call.kind \in kinds /\ answer = Pending

InsertedAt(n) ==
    /\ entries' = InsertAt(entries, n + 1, call.value)
    /\ answer' = n
    /\ UNCHANGED <<call, erased>>

\* A multimap puts a new value behind those with the same key, or where the
\* caller says, if it fits there.
InsertMulti ==
    /\ ~Unique
    /\ Asked({"insert", "insert_hint"})
    /\ LET k == KeyOf[call.value]
       IN  IF call.kind = "insert"
           THEN InsertedAt(UpTo(entries, k))
           ELSE \E n \in 0..Len(entries) :
                    /\ Fits(entries, k, n)
                    /\ Fits(entries, k, call.at) => n = call.at
                    /\ InsertedAt(n)

\* A map answers with the value that has the key, if there is one.
InsertUnique ==
    /\ Unique
    /\ Asked({"insert", "insert_hint"})
    /\ LET k == KeyOf[call.value]
       IN  IF Present(entries, k)
           THEN answer' = Below(entries, k) /\ UNCHANGED <<entries, call, erased>>
           ELSE InsertedAt(Below(entries, k))

Erase ==
    /\ Asked({"erase"})
    /\ entries' = RemoveAt(entries, call.at + 1)
    /\ erased' = 1
    /\ answer' = call.at
    /\ UNCHANGED call

EraseNext ==
    /\ Asked({"erase_key"})
    /\ Present(entries, call.key)
    /\ entries' = RemoveAt(entries, Below(entries, call.key) + 1)
    /\ erased' = erased + 1
    /\ UNCHANGED <<call, answer>>

EraseEnd ==
    /\ Asked({"erase_key"})
    /\ ~Present(entries, call.key)
    /\ answer' = erased
    /\ UNCHANGED <<entries, call, erased>>

Clear ==
    /\ Asked({"clear"})
    /\ entries' = <<>>
    /\ answer' = 0
    /\ UNCHANGED <<call, erased>>

\* A copy has the same values in the same order.
Copy ==
    /\ Asked({"copy"})
    /\ answer' = Len(entries)
    /\ UNCHANGED <<entries, call, erased>>

Return ==
    /\ call # NoCall /\ answer # Pending
    /\ call' = NoCall
    /\ erased' = 0
    /\ answer' = Pending
    /\ UNCHANGED entries

Next ==
    \/ Ask
    \/ InsertMulti
    \/ InsertUnique
    \/ Erase
    \/ EraseNext
    \/ EraseEnd
    \/ Clear
    \/ Copy
    \/ Return

Spec == Init /\ [][Next]_vars
=============================================================================

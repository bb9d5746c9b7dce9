------------------------------ MODULE YamlDiff -------------------------------
(***************************************************************************)
(* pkg/yamldiff: two lists of YAML documents are compared pair by pair and *)
(* the pairs that differ least are kept.  What is printed of them is the   *)
(* subject of YamlDump.                                                    *)
(*                                                                         *)
(* A document is a tree of records, by kind: nil; a leaf with its type and *)
(* the runes of its text; a map with its entries in order; an array with   *)
(* its items.  The text of a collection is that of its parts in brackets.  *)
(* What the code computes by recursion is a function on such trees.        *)
(***************************************************************************)
EXTENDS Integers, Sequences, SequencesExt, FiniteSetsExt

CONSTANTS
    Inputs,      \* what Do is called with: [rawA, rawB, option]
    StringKeys,  \* the keys of maps that are strings
    RawValues,   \* the values that are met: the documents and all parts of them
    Depth,       \* how deep each of them is nested
    Nesting      \* and at most

VARIABLES
    rawA,     \* the documents of A
    rawB,     \* the documents of B
    option,   \* the options that are on
    phase,    \* how far Do has come
    diffs,    \* the diffs of pairs of documents that are still to be looked at
    picked,   \* the diffs that are kept
    shown     \* the diffs in the order in which they are printed

diffVars == <<rawA, rawB, option, phase, diffs, picked, shown>>

-----------------------------------------------------------------------------
(* Raw values. *)

Nil == [kind |-> "nil"]
MissingKey == [kind |-> "missing"]

Options == {"emptyAsNull", "zeroAsNull"}

\* The values in a map or in an array.
Parts(v) ==
    CASE v.kind = "map" -> [i \in DOMAIN v.entries |-> v.entries[i].value]
      [] v.kind = "array" -> v.items
      [] OTHER -> <<>>

\* Values are finite trees of these kinds.
ASSUME DiffAssumption ==
    /\ Nil \in RawValues
    /\ Nesting \in Nat /\ Depth \in [RawValues -> 0 .. Nesting]
    /\ \A v \in RawValues :
           /\ v.kind \in {"nil", "leaf", "map", "array"}
           /\ v.kind = "nil" => v = Nil
           /\ v.kind = "map" => v.entries \in Seq([key : STRING, value : RawValues])
           /\ v.kind = "array" => v.items \in Seq(RawValues)
           /\ \A i \in DOMAIN Parts(v) : Depth[Parts(v)[i]] < Depth[v]
    /\ \A call \in Inputs :
           /\ call.rawA \in Seq(RawValues) /\ call.rawB \in Seq(RawValues)
           /\ call.option \in SUBSET Options

FakeForMissingKey == "000_unexpected-key_000"

\* All keys that are not strings are one key.
KeyAt(m, i) == IF m.entries[i].key \in StringKeys THEN m.entries[i].key ELSE FakeForMissingKey
KeysOf(m) == {KeyAt(m, i) : i \in DOMAIN m.entries}
FirstAt(m, key) == Min({i \in DOMAIN m.entries : KeyAt(m, i) = key})
LastAt(m, key) == Max({i \in DOMAIN m.entries : KeyAt(m, i) = key})

Text[v \in RawValues] ==
    CASE v.kind = "leaf" -> v.text
      [] v.kind = "map" -> <<"[">> \o FlattenSeq([i \in DOMAIN v.entries |->
             <<v.entries[i].key>> \o Text[v.entries[i].value]]) \o <<"]">>
      [] v.kind = "array" -> <<"[">> \o FlattenSeq([i \in DOMAIN v.items |-> Text[v.items[i]]]) \o <<"]">>
      [] OTHER -> <<"<", "n", "i", "l", ">">>

\* All that follows the first rune of A that is not there in B; without one, what was
\* counted before the runes were compared.
CountRunes(textA, textB, before) ==
    LET off == {n \in DOMAIN textA : n > Len(textB) \/ textA[n] # textB[n]}
        longest == Max({Len(textA), Len(textB)})
    IN  CASE off # {} -> longest - (Min(off) - 1)
          [] off = {} /\ before > 0 -> before
          [] OTHER -> longest - Len(textA)

\* How much two values differ, in the runes of their texts.
Distance(a, b) ==
    CountRunes(Text[a], Text[b], CASE a = Nil -> Len(Text[b])
                                   [] a # Nil /\ b = Nil -> Len(Text[a])
                                   [] OTHER -> 0)

-----------------------------------------------------------------------------
(* The diff of two values. *)

Plainly(a, b, status, count) ==
    [a |-> a, b |-> b, status |-> status, count |-> count, kind |-> "plain"]

\* What reflect calls the zero value of its type; collections that were read never are.
IsZero(v) ==
    /\ v.kind = "leaf"
    /\ v.text = CASE v.type = "string" -> <<>>
                  [] v.type = "bool"   -> <<"f", "a", "l", "s", "e">>
                  [] OTHER             -> <<"0">>
IsEmpty(v) == Text[v] \in {<<"[", "]">>, <<"{", "}">>}

\* A key that one side lacks: an option may let the value of the other side pass.
LackedByA(opt, b) ==
    \/ "emptyAsNull" \in opt /\ (b = Nil \/ IsEmpty(b))
    \/ "zeroAsNull" \in opt /\ IsZero(b)
LackedByB(opt, a) ==
    \/ "emptyAsNull" \in opt /\ a = Nil
    \/ "zeroAsNull" \in opt /\ IsZero(a)

HandlePrimitive(opt, a, b) ==
    CASE a = MissingKey /\ LackedByA(opt, b) -> Plainly(a, b, "Same", 0)
      [] a = MissingKey /\ ~LackedByA(opt, b) -> Plainly(Nil, b, "1Missing", Len(Text[b]))
      [] b = MissingKey /\ LackedByB(opt, a) -> Plainly(a, b, "Same", 0)
      [] b = MissingKey /\ ~LackedByB(opt, a) -> Plainly(a, Nil, "2Missing", Len(Text[a]))
      [] MissingKey \notin {a, b} /\ a = b -> Plainly(a, b, "Same", 0)
      [] OTHER -> Plainly(a, b, "Diff", Distance(a, b))

SumOfCounts(children) == MapThenSumSet(LAMBDA k : children[k].count, DOMAIN children)

\* Faulty: there is no second loop, over the entries of B.
LackedByAForgotten(a, b) == {}

\* The keys that only B has.
KeysLackedByA(a, b) == KeysOf(b) \ KeysOf(a)

\* Entries of A, each against the first entry of B with its key; then what A lacks.
\* Of several entries with one key (the fake one), the child of the last one stays.
HandleMap(opt, a, b, below) ==
    LET lackedByA == KeysLackedByA(a, b)
        againstB == [i \in DOMAIN a.entries |->
            IF KeyAt(a, i) \in KeysOf(b) THEN below[i][FirstAt(b, KeyAt(a, i))]
            ELSE HandlePrimitive(opt, a.entries[i].value, MissingKey)]
        againstA == [j \in {n \in DOMAIN b.entries : KeyAt(b, n) \in lackedByA} |->
            HandlePrimitive(opt, MissingKey, b.entries[j].value)]
        children == [k \in KeysOf(a) \cup lackedByA |->
            IF k \in lackedByA THEN againstA[LastAt(b, k)] ELSE againstB[LastAt(a, k)]]
        same == /\ \A i \in DOMAIN againstB : againstB[i].status = "Same"
                /\ \A j \in DOMAIN againstA : againstA[j].status = "Same"
    IN  [a |-> a, b |-> b, kind |-> "map", children |-> children,
         status |-> IF same THEN "Same" ELSE "Diff", count |-> SumOfCounts(children)]

InOrder(indexes) == SetToSortSeq(indexes, <)

\* Elements that are left on either side, paired off by the smallest difference; what is
\* over on one side is compared with nil.
SmallestPairs(opt, a, b, below, leftA, leftB) ==
    LET before(p, q) == p[1] < q[1] \/ (p[1] = q[1] /\ p[2] <= q[2])
        nextOf(pairs) ==
            LET least == {p \in pairs : \A q \in pairs : below[p[1]][p[2]].count <= below[q[1]][q[2]].count}
            IN  CHOOSE p \in least : \A q \in least : before(p, q)
        pairOff[m \in SUBSET leftA, n \in SUBSET leftB] ==
            CASE m = {} -> [i \in 1 .. Cardinality(n) |->
                     HandlePrimitive(opt, Nil, b.items[InOrder(n)[i]])]
              [] m # {} /\ n = {} -> [i \in 1 .. Cardinality(m) |->
                     HandlePrimitive(opt, a.items[InOrder(m)[i]], Nil)]
              [] OTHER -> LET p == nextOf(m \X n)
                          IN  <<below[p[1]][p[2]]>> \o pairOff[m \ {p[1]}, n \ {p[2]}]
    IN  pairOff[leftA, leftB]

\* Each element of A takes the first element of B that is the same, taken or not.
HandleArray(opt, a, b, below) ==
    LET same == [i \in DOMAIN a.items |-> {j \in DOMAIN b.items : below[i][j].status = "Same"}]
        foundA == {i \in DOMAIN a.items : same[i] # {}}
        foundB == {Min(same[i]) : i \in foundA}
        confirmed == [n \in 1 .. Cardinality(foundA) |->
                         LET i == InOrder(foundA)[n] IN below[i][Min(same[i])]]
        isSame == foundA = DOMAIN a.items /\ foundB = DOMAIN b.items
        children == IF isSame THEN confirmed
                    ELSE confirmed \o SmallestPairs(opt, a, b, below, DOMAIN a.items \ foundA,
                                                                     DOMAIN b.items \ foundB)
    IN  [a |-> a, b |-> b, kind |-> "array", children |-> children,
         status |-> IF isSame THEN "Same" ELSE "Diff", count |-> SumOfCounts(children)]

\* The diff of two values, given those of their parts.
DiffFrom(opt, a, b, below) ==
    CASE a.kind = "map" /\ b.kind = "map" -> HandleMap(opt, a, b, below)
      [] a.kind = "array" /\ b.kind = "array" -> HandleArray(opt, a, b, below)
      [] OTHER -> HandlePrimitive(opt, a, b)

Below(diff, a, b) ==
    [i \in DOMAIN Parts(a) |-> [j \in DOMAIN Parts(b) |-> diff[Parts(a)[i]][Parts(b)[j]]]]

PerformDiff(opt, a, b) ==
    LET diff[v \in RawValues] ==
            [w \in RawValues |-> DiffFrom(opt, v, w, Below(diff, v, w))]
    IN  diff[a][b]

-----------------------------------------------------------------------------
(* The runner. *)

IdsA == [i \in DOMAIN rawA |-> <<"A", i>>]
IdsB == [j \in DOMAIN rawB |-> <<"B", j>>]
IdsOf(y) == {y.idA, y.idB}
CheckedBy(ys) == UNION {IdsOf(y) : y \in ys}

YamlDiffOf(a, b, idA, idB) == [d |-> PerformDiff(option, a, b), idA |-> idA, idB |-> idB]

DiffInit ==
    /\ \E call \in Inputs :
           rawA = call.rawA /\ rawB = call.rawB /\ option = call.option
    /\ phase = "loaded"
    /\ diffs = {}
    /\ picked = {}
    /\ shown = <<>>

\* Every document against every other and against nothing.
AllPairs ==
    {YamlDiffOf(rawA[i], rawB[j], IdsA[i], IdsB[j]) : i \in DOMAIN rawA, j \in DOMAIN rawB}

\* Faulty: only the documents of A.
AllMissingOfA ==
    {YamlDiffOf(rawA[i], Nil, IdsA[i], <<"empty", IdsA[i]>>) : i \in DOMAIN rawA}

AllMissing ==
    {YamlDiffOf(rawA[i], Nil, IdsA[i], <<"empty", IdsA[i]>>) : i \in DOMAIN rawA}
        \cup {YamlDiffOf(Nil, rawB[j], <<"empty", IdsB[j]>>, IdsB[j]) : j \in DOMAIN rawB}

PerformAllDiff ==
    /\ phase = "loaded"
    /\ phase' = "find"
    /\ diffs' = AllPairs \cup AllMissing
    /\ UNCHANGED <<rawA, rawB, option, picked, shown>>

\* Faulty: the sort looks at the count alone.
ForemostByCount == {y \in diffs : \A z \in diffs : y.d.count <= z.d.count}

\* What the sort puts first: it promises no order among those that are the same, or
\* among those that differ equally.
Foremost ==
    LET same == {y \in diffs : y.d.status = "Same"}
    IN  IF same # {} THEN same
        ELSE {y \in diffs : \A z \in diffs : y.d.count <= z.d.count}

\* One turn of the loop over the sorted diffs.
FindMinimumDiffs ==
    /\ phase = "find"
    /\ \E y \in Foremost :
           /\ diffs' = diffs \ {y}
           /\ picked' = IF IdsOf(y) \cap CheckedBy(picked) = {} THEN picked \cup {y} ELSE picked
    /\ phase' = IF diffs' = {} THEN "sort" ELSE "find"
    /\ UNCHANGED <<rawA, rawB, option, shown>>

\* The diff of a document follows, unless it is there for another one.
Placed(result, id) ==
    LET free == {y \in picked : id \in IdsOf(y) /\ IdsOf(y) \cap CheckedBy(ToSet(result)) = {}}
    IN  IF free = {} THEN result ELSE Append(result, CHOOSE y \in free : TRUE)

Sorted(ids) ==
    LET upTo[n \in 0 .. Len(ids)] == IF n = 0 THEN <<>> ELSE Placed(upTo[n - 1], ids[n])
    IN  upTo[Len(ids)]

\* In the order of A, then what is only in B in the order of B.
SortResult ==
    /\ phase = "sort"
    /\ phase' = "print"
    /\ shown' = Sorted(IdsA \o IdsB)
    /\ UNCHANGED <<rawA, rawB, option, diffs, picked>>

DiffNext == PerformAllDiff \/ FindMinimumDiffs \/ SortResult

DiffSpec == DiffInit /\ [][DiffNext]_diffVars

-----------------------------------------------------------------------------
(* What a reader of the diff relies on. *)

\* A value up to the order of its entries and elements.
Canonical[v \in RawValues] ==
    CASE v.kind = "map" -> [kind |-> "map", fields |->
             [k \in KeysOf(v) |-> Canonical[v.entries[FirstAt(v, k)].value]]]
      [] v.kind = "array" -> [kind |-> "array", elements |->
             {Canonical[v.items[i]] : i \in DOMAIN v.items}]
      [] OTHER -> v

\* String keys, and no key and no element twice.
Regular[v \in RawValues] ==
    CASE v.kind = "map" ->
             /\ \A i \in DOMAIN v.entries : v.entries[i].key \in StringKeys
             /\ \A i, j \in DOMAIN v.entries : v.entries[i].key = v.entries[j].key => i = j
             /\ \A i \in DOMAIN v.entries : Regular[v.entries[i].value]
      [] v.kind = "array" ->
             /\ \A i, j \in DOMAIN v.items : Canonical[v.items[i]] = Canonical[v.items[j]] => i = j
             /\ \A i \in DOMAIN v.items : Regular[v.items[i]]
      [] OTHER -> TRUE

Documents == ToSet(rawA) \cup ToSet(rawB)
RegularInput == option = {} /\ \A v \in Documents : Regular[v]

\* performDiff calls two documents the same exactly when they are equal up to the
\* order of map entries and array elements: what only one side has, at any depth,
\* is a difference.
SameMeansEqual ==
    RegularInput => \A y \in diffs \cup picked :
        (y.idA \in ToSet(IdsA) /\ y.idB \in ToSet(IdsB)) =>
            (y.d.status = "Same" <=> Canonical[y.d.a] = Canonical[y.d.b])

\* Whatever the order in which equal diffs are sorted, the three phases of Do leave
\* every document of either list in exactly one of the diffs that are printed.
EveryDocumentOnce ==
    phase \in {"print", "done"} =>
        \A id \in ToSet(IdsA \o IdsB) :
            Cardinality({n \in DOMAIN shown : id \in IdsOf(shown[n])}) = 1

NoneTwice(documents) ==
    \A i, j \in DOMAIN documents : Canonical[documents[i]] = Canonical[documents[j]] => i = j

\* A document that both lists have is printed as unchanged: never as one that is
\* missing on either side, and never against another one that it happens to differ
\* from by nothing that the count sees.
EqualDocumentsPaired ==
    (phase \in {"print", "done"} /\ RegularInput /\ NoneTwice(rawA) /\ NoneTwice(rawB)) =>
        \A i \in DOMAIN rawA, j \in DOMAIN rawB :
            (rawA[i] # Nil /\ Canonical[rawA[i]] = Canonical[rawB[j]]) =>
                \E n \in DOMAIN shown : IdsOf(shown[n]) = {IdsA[i], IdsB[j]}
=============================================================================
